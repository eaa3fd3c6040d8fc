---------------------------- MODULE LedgerFile ----------------------------
(***************************************************************************)
(* One JSONL ledger of assets/memory and the three kinds of code that share *)
(* it, possibly from different processes: writers that append one line      *)
(* (every ledger's append), LedgerCompactor.compact_jsonl_ledger, which     *)
(* archives the old events and rewrites the file in place, and readers      *)
(* behind LocalLedgerCache, which trust a snapshot while the file's mtime   *)
(* and size do not change.  Nothing locks the file.                         *)
(***************************************************************************)
EXTENDS Naturals, Sequences, FiniteSets, SequencesExt

CONSTANTS
  KeepRecent,        \* keep_recent of the compactor
  MaxEvents,         \* bound: events ever appended
  MaxCompactions,    \* bound: compactions started
  OthersWrite,       \* writers may append while a compaction runs
  DiskFills,         \* a write may fail after part of the line is on disk
  MayCrash           \* the compactor's process may die between two writes

ASSUME LedgerAssumption ==
  /\ KeepRecent \in Nat \ {0}
  /\ MaxEvents \in Nat
  /\ MaxCompactions \in Nat
  /\ {OthersWrite, DiskFills, MayCrash} \subseteq BOOLEAN

VARIABLES
  lines,       \* the file: identifiers of events in order of appending, or Corrupt
  torn,        \* the last line was cut and has no newline
  mtime,       \* st_mtime, as coarse as the clock of the file system
  nextId,      \* identifier of the next event
  stored,      \* history: events whose append reported success
  corrupted,   \* history: lines that became unreadable
  exposed,     \* history: events appended during a compaction, or held by one
               \* that died
  cpc,         \* where the compactor stands
  snapshot,    \* the events the compactor has read
  archives,    \* the archive files, in order of writing
  compactions, \* compactions started
  rpc,         \* where the cached reader stands
  rstat,       \* the <<mtime, size>> it took before reading
  cache        \* its snapshot of the file

fileVars == <<lines, torn, mtime>>
writerVars == <<nextId, stored, corrupted, exposed>>
compVars == <<cpc, snapshot, archives, compactions>>
readVars == <<rpc, rstat, cache>>
vars == <<fileVars, writerVars, compVars, readVars>>

Corrupt == 0

Event == 1..MaxEvents

NoCache == [stat |-> <<0, 0>>, records |-> <<>>, filled |-> FALSE]

----------------------------------------------------------------------------
(* The file *)

\* Every reader but the reflex gate's skips the lines json.loads rejects.
Readable(s) ==
  LET upTo[n \in 0..Len(s)] ==
        IF n = 0 THEN <<>>
        ELSE IF s[n] = Corrupt THEN upTo[n - 1] ELSE Append(upTo[n - 1], s[n])
  IN  upTo[Len(s)]

Unreadable(s) == {i \in 1..Len(s) : s[i] = Corrupt}

\* st_size, with a cut line smaller and a merged line larger than an event.
FileSize(s, cut) == 2 * Len(s) + Cardinality(Unreadable(s)) - IF cut THEN 2 ELSE 0

Stat == <<mtime, FileSize(lines, torn)>>

\* Consecutive appends may fall into the same tick of the file system's clock;
\* a truncation and a rewrite are assumed to get a tick of their own.
Touch == mtime' \in {mtime, mtime + 1}

NewTick == mtime' = mtime + 1

\* What the file may hold once s is written over its beginning: of the lines
\* others appended behind the back of the compactor that truncated it, a suffix
\* is left, and the first of them may be cut.
WriteOver(s) ==
  LET Rest(k) == SubSeq(lines, k, Len(lines))
  IN  {s \o Rest(k) : k \in 2..(Len(lines) + 2)}
        \cup {s \o <<Corrupt>> \o Rest(k) : k \in 2..(Len(lines) + 1)}

----------------------------------------------------------------------------
Init ==
  /\ lines = <<>>
  /\ torn = FALSE
  /\ mtime = 1
  /\ nextId = 1
  /\ stored = {}
  /\ corrupted = 0
  /\ exposed = {}
  /\ cpc = "idle"
  /\ snapshot = <<>>
  /\ archives = <<>>
  /\ compactions = 0
  /\ rpc = "idle"
  /\ rstat = <<0, 0>>
  /\ cache = NoCache

CanWrite == nextId <= MaxEvents /\ (cpc = "idle" \/ OthersWrite)

\* open(path, "a"); f.write(line + "\n"): a new line, unless the file ends in a
\* cut one, which swallows it.
Append1 ==
  /\ CanWrite
  /\ nextId' = nextId + 1
  /\ stored' = stored \cup {nextId}
  /\ exposed' = IF cpc = "idle" THEN exposed ELSE exposed \cup {nextId}
  /\ Touch
  /\ IF torn THEN UNCHANGED lines ELSE lines' = Append(lines, nextId)
  /\ torn' = FALSE
  /\ UNCHANGED <<corrupted, compVars, readVars>>

\* The disk fills: part of the line stays in the file, the append reports failure.
ShortWrite ==
  /\ DiskFills
  /\ CanWrite
  /\ ~torn
  /\ nextId' = nextId + 1
  /\ lines' = Append(lines, Corrupt)
  /\ torn' = TRUE
  /\ corrupted' = corrupted + 1
  /\ Touch
  /\ UNCHANGED <<stored, exposed, compVars, readVars>>

----------------------------------------------------------------------------
(* compact_jsonl_ledger *)

ToArchiveOneMore == SubSeq(snapshot, 1, Len(snapshot) - KeepRecent + 1)

ToArchive == SubSeq(snapshot, 1, Len(snapshot) - KeepRecent)

RetainedNewestFirst == Reverse(SubSeq(snapshot, Len(snapshot) - KeepRecent + 1, Len(snapshot)))

RetainedOneFewer == SubSeq(snapshot, Len(snapshot) - KeepRecent + 2, Len(snapshot))

Retained == SubSeq(snapshot, Len(snapshot) - KeepRecent + 1, Len(snapshot))

CompactReadKeepsCorrupt ==
  /\ cpc = "idle"
  /\ compactions < MaxCompactions
  /\ Len(lines) > KeepRecent
  /\ snapshot' = lines
  /\ cpc' = "read"
  /\ compactions' = compactions + 1
  /\ UNCHANGED <<archives, fileVars, writerVars, readVars>>

\* Reads every line, dropping the corrupt ones; a short ledger is skipped.
CompactRead ==
  /\ cpc = "idle"
  /\ compactions < MaxCompactions
  /\ Len(Readable(lines)) > KeepRecent
  /\ snapshot' = Readable(lines)
  /\ cpc' = "read"
  /\ compactions' = compactions + 1
  /\ UNCHANGED <<archives, fileVars, writerVars, readVars>>

\* The archive's name carries the second it is written in: compactions are
\* assumed to be further apart, so that none overwrites an earlier archive.
CompactArchive ==
  /\ cpc = "read"
  /\ archives' = Append(archives, ToArchive)
  /\ cpc' = "archived"
  /\ UNCHANGED <<snapshot, compactions, fileVars, writerVars, readVars>>

\* open(path, "w") truncates; the retained events are written afterwards.
CompactTruncate ==
  /\ cpc = "archived"
  /\ lines' = <<>>
  /\ torn' = FALSE
  /\ NewTick
  /\ cpc' = "truncated"
  /\ UNCHANGED <<snapshot, archives, compactions, writerVars, readVars>>

CompactRewrite ==
  /\ cpc = "truncated"
  /\ lines' \in WriteOver(Retained)
  /\ torn' = (torn /\ Len(lines') > Len(Retained))
  /\ NewTick
  /\ cpc' = "idle"
  /\ snapshot' = <<>>
  /\ UNCHANGED <<archives, compactions, writerVars, readVars>>

\* The process dies; of the rewrite, the buffers flushed so far are on disk.
CompactCrash ==
  /\ MayCrash
  /\ cpc # "idle"
  /\ IF cpc = "truncated"
     THEN \/ UNCHANGED fileVars
          \/ \E k \in 1..(Len(Retained) - 1) :
               /\ lines' \in WriteOver(SubSeq(Retained, 1, k))
               /\ torn' = (torn /\ Len(lines') > k)
               /\ NewTick
     ELSE UNCHANGED fileVars
  /\ cpc' = "idle"
  /\ snapshot' = <<>>
  /\ exposed' = exposed \cup ToSet(snapshot)
  /\ UNCHANGED <<archives, compactions, nextId, stored, corrupted, readVars>>

----------------------------------------------------------------------------
(* LocalLedgerCache.get_records *)

CacheValidMtimeOnly == cache.filled /\ cache.stat[1] = mtime

\* is_cache_valid compares both with an os.stat of its own.
CacheValid == cache.filled /\ cache.stat = Stat

\* A miss: os.stat first ...
CacheStat ==
  /\ rpc = "idle"
  /\ ~CacheValid
  /\ rstat' = Stat
  /\ rpc' = "statted"
  /\ UNCHANGED <<cache, fileVars, writerVars, compVars>>

\* ... then the file is read and stored under that stat.
CacheFill ==
  /\ rpc = "statted"
  /\ cache' = [stat |-> rstat, records |-> Readable(lines), filled |-> TRUE]
  /\ rpc' = "idle"
  /\ rstat' = <<0, 0>>
  /\ UNCHANGED <<fileVars, writerVars, compVars>>

Compactor == CompactRead \/ CompactArchive \/ CompactTruncate \/ CompactRewrite

Next ==
  \/ Append1
  \/ ShortWrite
  \/ Compactor
  \/ CompactCrash
  \/ CacheStat
  \/ CacheFill

Spec == Init /\ [][Next]_vars

----------------------------------------------------------------------------
(* Properties *)

Hot == {lines[i] : i \in {j \in 1..Len(lines) : lines[j] # Corrupt}}

Archived == UNION {ToSet(archives[i]) : i \in 1..Len(archives)}

(* The lines, snapshots and caches hold events the writers appended, and the  *)
(* compactor never carries a line it could not parse.                        *)
TypeOK ==
  /\ lines \in Seq(Event \cup {Corrupt})
  /\ torn \in BOOLEAN
  /\ mtime \in Nat
  /\ nextId \in 1..(MaxEvents + 1)
  /\ stored \subseteq Event
  /\ corrupted \in Nat
  /\ exposed \subseteq Event
  /\ cpc \in {"idle", "read", "archived", "truncated"}
  /\ snapshot \in Seq(Event)
  /\ archives \in Seq(Seq(Event))
  /\ compactions \in 0..MaxCompactions
  /\ rpc \in {"idle", "statted"}
  /\ rstat \in Nat \X Nat
  /\ cache \in [stat : Nat \X Nat, records : Seq(Event), filled : BOOLEAN]

Increasing(s) == \A i, j \in 1..Len(s) : i < j => s[i] < s[j]

(* Readers take the last events of the file for the most recent ones         *)
(* (load_recent, "last record wins"): no append, truncation, rewrite or crash *)
(* leaves the file or an archive out of the order of appending.              *)
OrderPreserved ==
  /\ Increasing(Readable(lines))
  /\ \A i \in 1..Len(archives) : Increasing(archives[i])

(* Compaction loses nothing it has been able to read: each stored event is in *)
(* the file, in an archive, or in the memory of the compaction that rewrites  *)
(* the file, unless it was appended while a compaction was under way or one   *)
(* died with it; and the cut lines take at most one event each.              *)
NothingLost ==
  Cardinality(stored \ (exposed \cup Hot \cup Archived \cup ToSet(snapshot))) <= corrupted

(* Between compactions an event is in one place only: only events that a dead *)
(* compaction held are archived twice, or both archived and hot.             *)
MovedNotCopied ==
  cpc = "idle" =>
    /\ Archived \cap Hot \subseteq exposed
    /\ \A i, j \in 1..Len(archives) :
         i # j => ToSet(archives[i]) \cap ToSet(archives[j]) \subseteq exposed

(* A cache hit returns what is in the file: a snapshot taken while a writer   *)
(* appends, between os.stat and the read, is stored under the older stat and  *)
(* is read again rather than trusted.                                        *)
CacheHitIsFresh == CacheValid => cache.records = Readable(lines)
============================================================================
