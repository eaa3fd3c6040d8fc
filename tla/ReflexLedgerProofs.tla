------------------------- MODULE ReflexLedgerProofs -------------------------
(* Theorems about LedgerFile and about ReflexLedger, which keeps the orders  *)
(* on reflexes in such a file: for any number of events and compactions,     *)
(* whatever the writers, the disk and the compactor's process do.            *)
EXTENDS ReflexLedger, FiniteSetTheorems, SequenceTheorems, WellFoundedInduction, TLAPS

\* The events of a sequence of lines, and that they stand in order.
EventsOf(s) == {s[i] : i \in {j \in 1..Len(s) : s[j] # Corrupt}}

Ordered(s) ==
  \A i, j \in 1..Len(s) : (i < j /\ s[i] # Corrupt /\ s[j] # Corrupt) => s[i] < s[j]

Below(S, T) == \A e \in S, f \in T : e < f

\* Where events may be: only those whose append succeeded, and the compactor
\* holds enough of them to keep some.
StoredInv ==
  /\ stored \subseteq 1..(nextId - 1)
  /\ Hot \subseteq stored
  /\ ToSet(snapshot) \subseteq stored
  /\ Archived \subseteq stored
  /\ exposed \subseteq stored
  /\ cpc = "idle" => snapshot = <<>>
  /\ cpc # "idle" => Len(snapshot) > KeepRecent
  /\ torn => Len(lines) > 0

\* Once the file is truncated it only holds events younger than the snapshot.
OrderInv ==
  /\ Ordered(lines)
  /\ Increasing(snapshot)
  /\ \A i \in 1..Len(archives) : Increasing(archives[i])
  /\ cpc = "truncated" => Below(ToSet(snapshot), Hot)

\* During a compaction, the file holds what the compactor has read and what
\* others appended since; the part that is archived leaves the file.
MoveInv ==
  /\ cpc \in {"read", "archived"} => Hot \subseteq exposed \cup ToSet(snapshot)
  /\ cpc = "truncated" => Hot \subseteq exposed
  /\ cpc = "idle" => Archived \cap Hot \subseteq exposed
  /\ cpc = "read" => Archived \cap ToSet(snapshot) \subseteq exposed
  /\ cpc \in {"archived", "truncated"} =>
       /\ ToSet(ToArchive) \subseteq Archived
       /\ Archived \cap ToSet(Retained) \subseteq exposed
  /\ \A i, j \in 1..Len(archives) :
       i # j => ToSet(archives[i]) \cap ToSet(archives[j]) \subseteq exposed

Lost == stored \ (exposed \cup Hot \cup Archived \cup ToSet(snapshot))

\* A cut line at the end of the file has still to take its event.
LossInv == Cardinality(Lost) + (IF torn THEN 1 ELSE 0) <= corrupted

\* Until it is damaged, the file has whole lines only, the archives are older
\* than the file, and the compactor knows all that is in it.
UndamagedInv ==
  Undamaged =>
    /\ ~torn
    /\ Unreadable(lines) = {}
    /\ cpc \in {"idle", "read"} => Below(Archived, Hot)
    /\ cpc \in {"read", "archived"} => ToSet(snapshot) = Hot
    /\ cpc = "archived" => Below(Archived \ Hot, Hot)
    /\ cpc = "truncated" => lines = <<>>
    /\ cpc \in {"archived", "truncated"} => Below(Archived, ToSet(Retained))

\* A stat that is the file's present one was taken of the present file.
StatIsPast(stat) ==
  /\ stat[1] <= mtime
  /\ stat[1] = mtime => stat[2] <= FileSize(lines, torn)

CacheInv ==
  /\ rpc = "statted" => StatIsPast(rstat)
  /\ cache.filled => StatIsPast(cache.stat) /\ CacheHitIsFresh

LedgerInv ==
  TypeOK /\ StoredInv /\ OrderInv /\ MoveInv /\ LossInv /\ UndamagedInv /\ CacheInv

----------------------------------------------------------------------------
(* The natural numbers *)

Less == {p \in Nat \X Nat : p[1] < p[2]}

\* The natural numbers have no infinite descent ...
LEMMA LessIsWellFounded == IsWellFoundedOn(Less, Nat)
<1>1. IsWellFoundedOn(OpToRel(<, Nat), Nat)
  BY NatLessThanWellFounded
<1>2. Less \subseteq OpToRel(<, Nat)
  BY DEF OpToRel, Less
<1> QED BY <1>1, <1>2, IsWellFoundedOnSubrelation

\* ... and so a set of them that is not empty has a least one.
LEMMA LeastExists ==
  ASSUME NEW T \in SUBSET Nat, T # {}
  PROVE  \E x \in T : \A y \in T : x <= y
<1>1. PICK x \in T : \A y \in T : <<y, x>> \notin Less
  BY LessIsWellFounded, WFMin
<1>2. \A y \in T : x <= y
  <2> TAKE y \in T
  <2>1. x \in Nat /\ y \in Nat
    OBVIOUS
  <2>2. ~(y < x)
    BY <1>1, <2>1 DEF Less
  <2> QED BY <2>1, <2>2
<1> QED BY <1>2

\* A bounded set of numbers has a greatest one.
LEMMA GreatestExists ==
  ASSUME NEW n \in Nat, NEW S \in SUBSET (0..n), S # {}
  PROVE  \E x \in S : \A y \in S : y <= x
<1> DEFINE T == {n - x : x \in S}
<1>1. T \in SUBSET Nat
  OBVIOUS
<1>2. T # {}
  <2>1. PICK x \in S : TRUE
    OBVIOUS
  <2>2. n - x \in T
    OBVIOUS
  <2> QED BY <2>2
<1>3. PICK t \in T : \A y \in T : t <= y
  <2> HIDE DEF T
  <2> QED BY <1>1, <1>2, LeastExists
<1>4. PICK x \in S : t = n - x
  BY <1>3
<1>5. \A y \in S : y <= x
  <2> TAKE y \in S
  <2>1. n - y \in T
    OBVIOUS
  <2>2. t <= n - y
    BY <2>1, <1>3
  <2> QED BY <2>2, <1>4
<1> QED BY <1>5

----------------------------------------------------------------------------
(* What the readers see of a file *)

\* The readable part of the first n lines, given that of one line fewer.
Extended(s, n, f) == IF s[n] = Corrupt THEN f[n - 1] ELSE Append(f[n - 1], s[n])

\* The recursion of Readable defines a function.
LEMMA ReadableIsDefined ==
  ASSUME NEW s \in Seq(Nat)
  PROVE  \E f : f = [n \in 0..Len(s) |-> IF n = 0 THEN <<>> ELSE Extended(s, n, f)]
<1> DEFINE P(n) == \E f : f = [m \in 0..n |-> IF m = 0 THEN <<>> ELSE Extended(s, m, f)]
           T == {n \in 0..Len(s) : ~P(n)}
<1>1. SUFFICES ASSUME T # {} PROVE FALSE
  OBVIOUS
<1>2. PICK t \in T : \A y \in T : t <= y
  <2>1. T \in SUBSET Nat
    OBVIOUS
  <2> HIDE DEF T
  <2> QED BY <1>1, <2>1, LeastExists
<1>3. t # 0
  <2> DEFINE f == [m \in 0..0 |-> <<>>]
  <2>1. f = [m \in 0..0 |-> IF m = 0 THEN <<>> ELSE Extended(s, m, f)]
    OBVIOUS
  <2>2. P(0)
    BY <2>1
  <2> QED BY <2>2
<1>4. t - 1 \in 0..Len(s) /\ P(t - 1)
  <2>1. t \in 0..Len(s)
    OBVIOUS
  <2>2. t - 1 \in 0..Len(s) /\ ~(t <= t - 1)
    BY <2>1, <1>3
  <2> QED BY <2>2, <1>2
<1>5. PICK f : f = [m \in 0..(t - 1) |-> IF m = 0 THEN <<>> ELSE Extended(s, m, f)]
  BY <1>4
<1> DEFINE g == [m \in 0..t |-> IF m = t THEN Extended(s, t, f) ELSE f[m]]
<1>6. t \in Nat \ {0}
  BY <1>3
<1>7. \A m \in 0..t : g[m] = IF m = 0 THEN <<>> ELSE Extended(s, m, g)
  <2> TAKE m \in 0..t
  <2>1. CASE m = t
    BY <1>6, <2>1 DEF Extended
  <2>2. CASE m # t
    <3>1. m \in 0..(t - 1) /\ g[m] = f[m]
      BY <1>6, <2>2
    <3>2. f[m] = IF m = 0 THEN <<>> ELSE Extended(s, m, f)
      BY <1>5, <3>1
    <3>3. m # 0 => g[m - 1] = f[m - 1]
      BY <1>6, <3>1
    <3> QED BY <3>1, <3>2, <3>3 DEF Extended
  <2> QED BY <2>1, <2>2
<1>8. g = [m \in 0..t |-> IF m = 0 THEN <<>> ELSE Extended(s, m, g)]
  <2>1. g = [m \in 0..t |-> g[m]]
    OBVIOUS
  <2> HIDE DEF g
  <2> QED BY <2>1, <1>7
<1>9. P(t)
  BY <1>8
<1> QED BY <1>9

\* Readable, line by line.
LEMMA ReadableByLine ==
  ASSUME NEW s \in Seq(Nat)
  PROVE  \E f :
           /\ Readable(s) = f[Len(s)]
           /\ f[0] = <<>>
           /\ \A n \in 1..Len(s) : f[n] = Extended(s, n, f)
<1> DEFINE f == CHOOSE f : f = [n \in 0..Len(s) |-> IF n = 0 THEN <<>> ELSE Extended(s, n, f)]
<1>1. f = [n \in 0..Len(s) |-> IF n = 0 THEN <<>> ELSE Extended(s, n, f)]
  BY ReadableIsDefined
<1>2. Readable(s) = f[Len(s)]
  BY DEF Readable, Extended
<1> HIDE DEF f
<1>3. \A n \in 0..Len(s) : f[n] = IF n = 0 THEN <<>> ELSE Extended(s, n, f)
  BY <1>1
<1>4. Len(s) \in Nat
  OBVIOUS
<1>5. f[0] = <<>>
  BY <1>3, <1>4
<1>6. \A n \in 1..Len(s) : f[n] = Extended(s, n, f)
  BY <1>3, <1>4
<1> QED BY <1>2, <1>5, <1>6

\* An appended element joins the set, ...
LEMMA SetOfAppend ==
  ASSUME NEW S, NEW s \in Seq(S), NEW x \in S
  PROVE  ToSet(Append(s, x)) = ToSet(s) \cup {x}
<1>1. /\ Len(Append(s, x)) = Len(s) + 1 /\ Len(s) \in Nat
      /\ Append(s, x)[Len(s) + 1] = x
      /\ \A i \in 1..Len(s) : Append(s, x)[i] = s[i]
      /\ DOMAIN s = 1..Len(s) /\ DOMAIN Append(s, x) = 1..(Len(s) + 1)
  OBVIOUS
<1> QED BY <1>1 DEF ToSet

\* ... and one above the others keeps the order.
LEMMA IncreasingAppend ==
  ASSUME NEW s \in Seq(Nat), Increasing(s), NEW x \in Nat, \A e \in ToSet(s) : e < x
  PROVE  Increasing(Append(s, x))
<1>1. /\ Len(Append(s, x)) = Len(s) + 1 /\ Len(s) \in Nat
      /\ Append(s, x)[Len(s) + 1] = x
      /\ \A i \in 1..Len(s) : Append(s, x)[i] = s[i] /\ s[i] < x
  BY DEF ToSet
<1> SUFFICES ASSUME NEW i \in 1..(Len(s) + 1), NEW j \in 1..(Len(s) + 1), i < j
             PROVE  Append(s, x)[i] < Append(s, x)[j]
  BY <1>1 DEF Increasing
<1>2. i \in 1..Len(s)
  BY <1>1
<1>3. CASE j \in 1..Len(s)
  BY <1>1, <1>2, <1>3 DEF Increasing
<1>4. CASE j = Len(s) + 1
  BY <1>1, <1>2, <1>4
<1>5. j \in 1..Len(s) \/ j = Len(s) + 1
  BY <1>1
<1> QED BY <1>3, <1>4, <1>5

\* Readable drops the corrupt lines and nothing else, and keeps the order.
LEMMA ReadableProperties ==
  ASSUME NEW s \in Seq(Nat), Ordered(s)
  PROVE  /\ Readable(s) \in Seq(Nat \ {Corrupt})
         /\ ToSet(Readable(s)) = EventsOf(s)
         /\ Increasing(Readable(s))
<1>1. PICK f : /\ Readable(s) = f[Len(s)]
               /\ f[0] = <<>>
               /\ \A n \in 1..Len(s) : f[n] = Extended(s, n, f)
  BY ReadableByLine
<1> DEFINE Prefix(n) == {s[i] : i \in {j \in 1..n : s[j] # Corrupt}}
           P(n) == /\ f[n] \in Seq(Nat \ {Corrupt})
                   /\ ToSet(f[n]) = Prefix(n)
                   /\ Increasing(f[n])
           T == {n \in 0..Len(s) : ~P(n)}
<1>2. P(Len(s))
  <2> SUFFICES ASSUME ~P(Len(s)) PROVE FALSE
    OBVIOUS
  <2>1. Len(s) \in T
    <3> HIDE DEF P
    <3> QED OBVIOUS
  <2>2. PICK t \in T : \A y \in T : t <= y
    <3>1. T \in SUBSET Nat
      OBVIOUS
    <3> HIDE DEF T
    <3> QED BY <2>1, <3>1, LeastExists
  <2>3. t # 0
    <3>1. P(0)
      BY <1>1 DEF ToSet, Increasing
    <3> QED BY <3>1
  <2>4. t \in 1..Len(s) /\ t - 1 \in 0..Len(s) /\ ~(t <= t - 1)
    <3>1. t \in 0..Len(s)
      OBVIOUS
    <3> QED BY <3>1, <2>3
  <2>5. P(t - 1)
    BY <2>2, <2>4
  <2>6. f[t] = IF s[t] = Corrupt THEN f[t - 1] ELSE Append(f[t - 1], s[t])
    BY <1>1, <2>4 DEF Extended
  <2>7. CASE s[t] = Corrupt
    <3>1. Prefix(t) = Prefix(t - 1)
      <4>1. \A j : j \in 1..t <=> j \in 1..(t - 1) \/ j = t
        BY <2>4
      <4> QED BY <4>1, <2>7
    <3>2. P(t)
      BY <2>5, <2>6, <2>7, <3>1
    <3> QED BY <3>2
  <2>8. CASE s[t] # Corrupt
    <3>1. s[t] \in Nat \ {Corrupt}
      BY <2>4, <2>8
    <3>2. Prefix(t) = Prefix(t - 1) \cup {s[t]}
      <4>1. \A j : j \in 1..t <=> j \in 1..(t - 1) \/ j = t
        BY <2>4
      <4> QED BY <4>1, <2>8
    <3>3. \A e \in Prefix(t - 1) : e < s[t]
      BY <2>4, <2>8 DEF Ordered
    <3> HIDE DEF Prefix
    <3>4. f[t] = Append(f[t - 1], s[t])
      BY <2>6, <2>8
    <3>5. f[t] \in Seq(Nat \ {Corrupt})
      BY <2>5, <3>1, <3>4
    <3>6. ToSet(f[t]) = Prefix(t)
      <4>1. ToSet(Append(f[t - 1], s[t])) = ToSet(f[t - 1]) \cup {s[t]}
        BY <2>5, <3>1, SetOfAppend
      <4> QED BY <2>5, <3>2, <3>4, <4>1
    <3>7. Increasing(f[t])
      <4>1. f[t - 1] \in Seq(Nat) /\ s[t] \in Nat
        BY <2>5, <3>1
      <4> QED BY <2>5, <3>3, <3>4, <4>1, IncreasingAppend
    <3>8. P(t)
      BY <3>5, <3>6, <3>7
    <3> QED BY <3>8
  <2> QED BY <2>7, <2>8
<1> QED BY <1>1, <1>2 DEF EventsOf

----------------------------------------------------------------------------
(* What the compactor writes *)

\* Part of a sequence: its elements, and the order among them.
LEMMA PartOfSequence ==
  ASSUME NEW s \in Seq(Event), Increasing(s),
         NEW m \in Nat \ {0}, NEW n \in Nat, n <= Len(s)
  PROVE  /\ SubSeq(s, m, n) \in Seq(Event)
         /\ Len(SubSeq(s, m, n)) = IF m <= n THEN n - m + 1 ELSE 0
         /\ ToSet(SubSeq(s, m, n)) = {s[i] : i \in m..n}
         /\ Increasing(SubSeq(s, m, n))
<1> DEFINE p == SubSeq(s, m, n)
<1>1. \A i \in m..n : s[i] \in Event
  OBVIOUS
<1>2. /\ p \in Seq(Event)
      /\ Len(p) = IF m <= n THEN n - m + 1 ELSE 0
      /\ \A i \in 1..(n - m + 1) : p[i] = s[m + i - 1]
  BY <1>1, SubSeqProperties
<1> HIDE DEF p
<1>3. Len(p) \in Nat /\ Len(s) \in Nat /\ \A i \in 1..Len(p) : i \in 1..(n - m + 1)
  BY <1>2
<1>4. \A i \in 1..Len(p) : p[i] = s[m + i - 1] /\ m + i - 1 \in m..n /\ m + i - 1 \in 1..Len(s)
  BY <1>2, <1>3
<1>5. ToSet(p) = {s[i] : i \in m..n}
  <2>1. ToSet(p) = {p[i] : i \in 1..Len(p)}
    BY <1>2 DEF ToSet
  <2>2. \A i \in m..n : i - m + 1 \in 1..Len(p) /\ p[i - m + 1] = s[i]
    <3> TAKE i \in m..n
    <3>1. i - m + 1 \in 1..Len(p)
      BY <1>2
    <3>2. m + (i - m + 1) - 1 = i
      OBVIOUS
    <3> QED BY <3>1, <3>2, <1>4
  <2>3. {p[i] : i \in 1..Len(p)} \subseteq {s[i] : i \in m..n}
    BY <1>4
  <2>4. {s[i] : i \in m..n} \subseteq {p[i] : i \in 1..Len(p)}
    BY <2>2
  <2> QED BY <2>1, <2>3, <2>4
<1>6. Increasing(p)
  <2> SUFFICES ASSUME NEW i \in 1..Len(p), NEW j \in 1..Len(p), i < j
               PROVE  p[i] < p[j]
    BY DEF Increasing
  <2>1. m + i - 1 < m + j - 1
    OBVIOUS
  <2> QED BY <2>1, <1>4 DEF Increasing
<1> QED BY <1>2, <1>5, <1>6 DEF p

\* The compactor splits its snapshot: an older part for the archive, and the
\* newest events for the file.
LEMMA SnapshotIsSplit ==
  ASSUME LedgerAssumption, snapshot \in Seq(Event), Increasing(snapshot),
         Len(snapshot) > KeepRecent
  PROVE  /\ ToArchive \in Seq(Event) /\ Increasing(ToArchive)
         /\ Retained \in Seq(Event) /\ Increasing(Retained)
         /\ Len(Retained) = KeepRecent
         /\ ToSet(snapshot) = ToSet(ToArchive) \cup ToSet(Retained)
         /\ Below(ToSet(ToArchive), ToSet(Retained))
<1> DEFINE cut == Len(snapshot) - KeepRecent
           len == Len(snapshot)
<1>1. KeepRecent \in Nat \ {0} /\ len \in Nat /\ cut \in Nat /\ cut < len /\ cut + 1 \in Nat \ {0}
  BY DEF LedgerAssumption
<1>2. ToArchive = SubSeq(snapshot, 1, cut) /\ Retained = SubSeq(snapshot, cut + 1, len)
  BY DEF ToArchive, Retained
<1>3. len - (cut + 1) + 1 = KeepRecent
  BY <1>1
<1>4. ToSet(snapshot) = {snapshot[i] : i \in 1..len}
  BY DEF ToSet
<1> HIDE DEF cut
<1>5. /\ ToArchive \in Seq(Event) /\ Increasing(ToArchive)
      /\ ToSet(ToArchive) = {snapshot[i] : i \in 1..cut}
  <2>1. 1 \in Nat \ {0} /\ cut <= len
    BY <1>1
  <2> QED BY <1>1, <1>2, <2>1, PartOfSequence
<1>6. /\ Retained \in Seq(Event) /\ Increasing(Retained)
      /\ Len(Retained) = IF cut + 1 <= len THEN len - (cut + 1) + 1 ELSE 0
      /\ ToSet(Retained) = {snapshot[i] : i \in (cut + 1)..len}
  BY <1>1, <1>2, PartOfSequence
<1>7. Len(Retained) = KeepRecent
  BY <1>1, <1>3, <1>6
<1>8. \A i : i \in 1..len <=> i \in 1..cut \/ i \in (cut + 1)..len
  BY <1>1
<1>9. \A i \in 1..cut, j \in (cut + 1)..len : snapshot[i] < snapshot[j]
  BY <1>1 DEF Increasing
<1> DEFINE old == {snapshot[i] : i \in 1..cut}
           new == {snapshot[i] : i \in (cut + 1)..len}
<1>10. ToSet(snapshot) = old \cup new
  BY <1>4, <1>8
<1>11. \A e \in old, f \in new : e < f
  BY <1>9
<1> HIDE DEF old, new
<1>12. ToSet(ToArchive) = old /\ ToSet(Retained) = new
  BY <1>5, <1>6 DEF old, new
<1> QED BY <1>5, <1>6, <1>7, <1>10, <1>11, <1>12 DEF Below

\* Lines behind the newest event a sequence has.
LEMMA LinesBehind ==
  ASSUME NEW s \in Seq(Event), Increasing(s),
         NEW w \in Seq(Event \cup {Corrupt}), Ordered(w), Below(ToSet(s), EventsOf(w))
  PROVE  /\ s \o w \in Seq(Event \cup {Corrupt})
         /\ Len(s \o w) = Len(s) + Len(w)
         /\ EventsOf(s \o w) = ToSet(s) \cup EventsOf(w)
         /\ Ordered(s \o w)
<1> DEFINE t == s \o w
<1>1. s \in Seq(Event \cup {Corrupt}) /\ Corrupt \notin Event /\ ToSet(s) = {s[i] : i \in 1..Len(s)}
  <2>1. Corrupt \notin Event
    BY DEF Event, Corrupt
  <2>2. ToSet(s) = {s[i] : i \in 1..Len(s)}
    BY DEF ToSet
  <2>3. s \in Seq(Event \cup {Corrupt})
    OBVIOUS
  <2> QED BY <2>1, <2>2, <2>3
<1>2. /\ t \in Seq(Event \cup {Corrupt})
      /\ Len(t) = Len(s) + Len(w)
      /\ \A i \in 1..(Len(s) + Len(w)) : t[i] = IF i <= Len(s) THEN s[i] ELSE w[i - Len(s)]
  BY <1>1, ConcatProperties
<1> HIDE DEF t
<1>3. Len(s) \in Nat /\ Len(w) \in Nat
  OBVIOUS
<1>4. \A i \in 1..Len(s) : i \in 1..Len(t) /\ t[i] = s[i] /\ s[i] # Corrupt
  BY <1>1, <1>2, <1>3
<1>5. \A i \in 1..Len(w) : Len(s) + i \in 1..Len(t) /\ t[Len(s) + i] = w[i]
  BY <1>2, <1>3
<1>6. \A i \in 1..Len(t) : i \in 1..Len(s) \/ (i - Len(s) \in 1..Len(w) /\ t[i] = w[i - Len(s)])
  BY <1>2, <1>3
<1>7. EventsOf(t) = ToSet(s) \cup EventsOf(w)
  <2>1. ToSet(s) \subseteq EventsOf(t)
    BY <1>1, <1>4 DEF EventsOf
  <2>2. EventsOf(w) \subseteq EventsOf(t)
    BY <1>5 DEF EventsOf
  <2>3. EventsOf(t) \subseteq ToSet(s) \cup EventsOf(w)
    <3> SUFFICES ASSUME NEW i \in 1..Len(t), t[i] # Corrupt
                 PROVE  t[i] \in ToSet(s) \cup EventsOf(w)
      BY DEF EventsOf
    <3>1. CASE i \in 1..Len(s)
      BY <3>1, <1>1, <1>4
    <3>2. CASE i - Len(s) \in 1..Len(w) /\ t[i] = w[i - Len(s)]
      BY <3>2 DEF EventsOf
    <3> QED BY <3>1, <3>2, <1>6
  <2> QED BY <2>1, <2>2, <2>3
<1>8. Ordered(t)
  <2> SUFFICES ASSUME NEW i \in 1..Len(t), NEW j \in 1..Len(t), i < j,
                      t[i] # Corrupt, t[j] # Corrupt
               PROVE  t[i] < t[j]
    BY DEF Ordered
  <2>1. CASE i \in 1..Len(s) /\ j \in 1..Len(s)
    BY <2>1, <1>4 DEF Increasing
  <2>2. CASE i \in 1..Len(s) /\ j - Len(s) \in 1..Len(w) /\ t[j] = w[j - Len(s)]
    <3>1. t[i] \in ToSet(s) /\ t[j] \in EventsOf(w)
      BY <2>2, <1>1, <1>4 DEF EventsOf
    <3> QED BY <3>1 DEF Below
  <2>3. CASE /\ i - Len(s) \in 1..Len(w) /\ t[i] = w[i - Len(s)]
             /\ j - Len(s) \in 1..Len(w) /\ t[j] = w[j - Len(s)]
    <3>1. i - Len(s) < j - Len(s)
      BY <1>3
    <3> QED BY <2>3, <3>1 DEF Ordered
  <2>4. CASE i - Len(s) \in 1..Len(w) /\ j \in 1..Len(s)
    BY <1>3, <2>4
  <2> QED BY <1>6, <2>1, <2>2, <2>3, <2>4
<1> QED BY <1>2, <1>7, <1>8 DEF t

\* Concatenation is associative on lines.
LEMMA LinesConcat ==
  \A a, b, c \in Seq(Event \cup {Corrupt}) : (a \o b) \o c = a \o (b \o c)
BY ConcatAssociative

\* Lines that are those of the file, shifted, where they are events.
LEMMA ShiftedLines ==
  ASSUME lines \in Seq(Event \cup {Corrupt}), Ordered(lines),
         NEW w \in Seq(Event \cup {Corrupt}), NEW c \in Int,
         \A i \in 1..Len(w) :
           w[i] = Corrupt \/ (c + i \in 1..Len(lines) /\ w[i] = lines[c + i])
  PROVE  Ordered(w) /\ EventsOf(w) \subseteq Hot
<1>1. Ordered(w)
  <2> SUFFICES ASSUME NEW i \in 1..Len(w), NEW j \in 1..Len(w), i < j,
                      w[i] # Corrupt, w[j] # Corrupt
               PROVE  w[i] < w[j]
    BY DEF Ordered
  <2>1. /\ c + i \in 1..Len(lines) /\ w[i] = lines[c + i]
        /\ c + j \in 1..Len(lines) /\ w[j] = lines[c + j]
    OBVIOUS
  <2>2. c + i < c + j
    OBVIOUS
  <2> QED BY <2>1, <2>2 DEF Ordered
<1>2. EventsOf(w) \subseteq Hot
  BY DEF EventsOf, Hot
<1> QED BY <1>1, <1>2

\* What is left in a file that is written over: the sequence written, possibly
\* a cut line, and the last lines of what others had appended.
LEMMA WriteOverKeeps ==
  ASSUME lines \in Seq(Event \cup {Corrupt}), Ordered(lines),
         NEW s \in Seq(Event), Increasing(s), Below(ToSet(s), Hot), NEW t \in WriteOver(s)
  PROVE  /\ t \in Seq(Event \cup {Corrupt})
         /\ Ordered(t)
         /\ ToSet(s) \subseteq EventsOf(t) /\ EventsOf(t) \subseteq ToSet(s) \cup Hot
         /\ lines = <<>> => t = s
<1> DEFINE L == Len(lines)
           Rest(k) == SubSeq(lines, k, L)
           Lines == Seq(Event \cup {Corrupt})
<1>1. L \in Nat
  OBVIOUS
<1>2. ASSUME NEW k \in 2..(L + 2)
      PROVE  /\ Rest(k) \in Lines
             /\ Len(Rest(k)) = IF k <= L THEN L - k + 1 ELSE 0
             /\ \A i \in 1..Len(Rest(k)) :
                  Rest(k)[i] = lines[(k - 1) + i] /\ (k - 1) + i \in 1..L
  <2>1. \A i \in k..L : lines[i] \in Event \cup {Corrupt}
    OBVIOUS
  <2>2. /\ Rest(k) \in Lines
        /\ Len(Rest(k)) = IF k <= L THEN L - k + 1 ELSE 0
        /\ \A i \in 1..(L - k + 1) : Rest(k)[i] = lines[k + i - 1]
    BY <1>1, <2>1, SubSeqProperties
  <2> HIDE DEF Rest
  <2>3. \A i \in 1..Len(Rest(k)) : i \in 1..(L - k + 1) /\ k + i - 1 = (k - 1) + i /\ (k - 1) + i \in 1..L
    BY <1>1, <2>2
  <2> QED BY <2>2, <2>3
<1>3. \E w \in Lines : t = s \o w /\ Ordered(w) /\ EventsOf(w) \subseteq Hot /\ (lines = <<>> => w = <<>>)
  <2>1. CASE \E k \in 2..(L + 2) : t = s \o Rest(k)
    <3>1. PICK k \in 2..(L + 2) : t = s \o Rest(k)
      BY <2>1
    <3> HIDE DEF Rest
    <3>2. Rest(k) \in Lines /\ k - 1 \in Int
      BY <1>1, <1>2
    <3>3. Ordered(Rest(k)) /\ EventsOf(Rest(k)) \subseteq Hot
      BY <1>2, <3>2, ShiftedLines
    <3>4. lines = <<>> => Rest(k) = <<>>
      BY <1>1, <1>2, <3>2
    <3> QED BY <3>1, <3>2, <3>3, <3>4
  <2>2. CASE \E k \in 2..(L + 1) : t = s \o <<Corrupt>> \o Rest(k)
    <3>1. PICK k \in 2..(L + 1) : t = s \o <<Corrupt>> \o Rest(k)
      BY <2>2
    <3>2. k \in 2..(L + 2) /\ k - 2 \in Int /\ L > 0
      BY <1>1
    <3> HIDE DEF Rest
    <3>3. <<Corrupt>> \in Lines /\ s \in Lines /\ Rest(k) \in Lines
      BY <1>2, <3>2
    <3> DEFINE w == <<Corrupt>> \o Rest(k)
    <3>4. t = s \o w /\ w \in Lines
      BY <3>1, <3>3, LinesConcat
    <3>5. /\ Len(w) = 1 + Len(Rest(k))
          /\ \A i \in 1..Len(w) : w[i] = IF i <= 1 THEN Corrupt ELSE Rest(k)[i - 1]
      BY <3>3, ConcatProperties
    <3>6. \A i \in 1..Len(w) :
            w[i] = Corrupt \/ ((k - 2) + i \in 1..L /\ w[i] = lines[(k - 2) + i])
      <4> TAKE i \in 1..Len(w)
      <4>1. CASE i <= 1
        BY <3>5, <4>1
      <4>2. CASE i > 1
        <5>1. i - 1 \in 1..Len(Rest(k)) /\ w[i] = Rest(k)[i - 1]
          BY <3>3, <3>5, <4>2
        <5>2. (k - 1) + (i - 1) = (k - 2) + i
          BY <3>2
        <5> QED BY <5>1, <5>2, <1>2, <3>2
      <4>3. i <= 1 \/ i > 1
        BY <3>4
      <4> QED BY <4>1, <4>2, <4>3
    <3> HIDE DEF w
    <3>7. Ordered(w) /\ EventsOf(w) \subseteq Hot
      BY <3>2, <3>4, <3>6, ShiftedLines
    <3>8. lines # <<>>
      BY <3>2
    <3> QED BY <3>4, <3>7, <3>8
  <2> QED BY <2>1, <2>2 DEF WriteOver
<1>4. PICK w \in Lines :
        t = s \o w /\ Ordered(w) /\ EventsOf(w) \subseteq Hot /\ (lines = <<>> => w = <<>>)
  BY <1>3
<1>5. Below(ToSet(s), EventsOf(w))
  BY <1>4 DEF Below
<1>6. /\ t \in Lines
      /\ EventsOf(t) = ToSet(s) \cup EventsOf(w)
      /\ Ordered(t)
  BY <1>4, <1>5, LinesBehind
<1>7. s \o <<>> = s
  BY ConcatEmptySeq
<1> QED BY <1>4, <1>6, <1>7

\* A line appended to the file: an event younger than the others, or a cut one.
LEMMA LineAppended ==
  ASSUME lines \in Seq(Event \cup {Corrupt}), Ordered(lines),
         NEW x \in Event \cup {Corrupt}, x # Corrupt => \A e \in Hot : e < x
  PROVE  /\ Append(lines, x) \in Seq(Event \cup {Corrupt})
         /\ Ordered(Append(lines, x))
         /\ EventsOf(Append(lines, x)) = Hot \cup ({x} \ {Corrupt})
         /\ Unreadable(Append(lines, x)) =
              Unreadable(lines) \cup (IF x = Corrupt THEN {Len(lines) + 1} ELSE {})
<1> DEFINE t == Append(lines, x)
<1>1. /\ t \in Seq(Event \cup {Corrupt})
      /\ Len(t) = Len(lines) + 1 /\ Len(lines) \in Nat
      /\ t[Len(lines) + 1] = x
      /\ \A i \in 1..Len(lines) : t[i] = lines[i]
  OBVIOUS
<1> HIDE DEF t
<1>2. \A i : i \in 1..Len(t) <=> i \in 1..Len(lines) \/ i = Len(lines) + 1
  BY <1>1
<1>3. Hot = EventsOf(lines)
  BY DEF Hot, EventsOf
<1>4. Ordered(t)
  <2> SUFFICES ASSUME NEW i \in 1..Len(t), NEW j \in 1..Len(t), i < j,
                      t[i] # Corrupt, t[j] # Corrupt
               PROVE  t[i] < t[j]
    BY DEF Ordered
  <2>1. i \in 1..Len(lines) /\ t[i] = lines[i]
    BY <1>1
  <2>2. CASE j \in 1..Len(lines)
    BY <2>1, <2>2, <1>1 DEF Ordered
  <2>3. CASE j = Len(lines) + 1
    <3>1. t[i] \in Hot
      BY <2>1, <1>3 DEF EventsOf
    <3> QED BY <2>3, <3>1, <1>1
  <2> QED BY <1>2, <2>2, <2>3
<1>5. EventsOf(t) = Hot \cup ({x} \ {Corrupt})
  <2>1. EventsOf(t) \subseteq Hot \cup ({x} \ {Corrupt})
    BY <1>1, <1>2, <1>3 DEF EventsOf
  <2>2. Hot \cup ({x} \ {Corrupt}) \subseteq EventsOf(t)
    BY <1>1, <1>2, <1>3 DEF EventsOf
  <2> QED BY <2>1, <2>2
<1>6. Unreadable(t) = Unreadable(lines) \cup (IF x = Corrupt THEN {Len(lines) + 1} ELSE {})
  BY <1>1, <1>2 DEF Unreadable
<1> QED BY <1>1, <1>4, <1>5, <1>6 DEF t

----------------------------------------------------------------------------
(* The steps of the file *)

\* The size of a file is a number, also with a cut line at its end.
LEMMA SizeIsNat ==
  ASSUME NEW s \in Seq(Event \cup {Corrupt}), NEW cut \in BOOLEAN, cut => Len(s) > 0
  PROVE  /\ IsFiniteSet(Unreadable(s)) /\ Cardinality(Unreadable(s)) \in Nat
         /\ FileSize(s, cut) \in Nat
<1>1. IsFiniteSet(1..Len(s)) /\ Unreadable(s) \in SUBSET (1..Len(s)) /\ Len(s) \in Nat
  BY FS_Interval DEF Unreadable
<1>2. IsFiniteSet(Unreadable(s)) /\ Cardinality(Unreadable(s)) \in Nat
  BY <1>1, FS_Subset, FS_CardinalityType
<1>3. FileSize(s, cut) \in Nat
  <2>1. CASE cut
    BY <1>1, <1>2, <2>1 DEF FileSize
  <2>2. CASE ~cut
    BY <1>1, <1>2, <2>2 DEF FileSize
  <2> QED BY <2>1, <2>2
<1> QED BY <1>2, <1>3

\* The stat of the file tells a change of it: its time, or in one tick its size.
LEMMA ChangeIsSeen ==
  ASSUME TypeOK, StoredInv, CacheInv, UNCHANGED readVars,
         \/ mtime' = mtime + 1
         \/ mtime' = mtime /\ FileSize(lines', torn') \in Nat
              /\ FileSize(lines, torn) < FileSize(lines', torn')
  PROVE  CacheInv'
<1>1. rpc' = rpc /\ rstat' = rstat /\ cache' = cache
  BY DEF readVars
<1>2. FileSize(lines, torn) \in Nat /\ mtime \in Nat
  BY SizeIsNat DEF TypeOK, StoredInv
<1>3. ASSUME NEW stat \in Nat \X Nat, StatIsPast(stat)
      PROVE  /\ stat[1] <= mtime'
             /\ stat[1] = mtime' => stat[2] < FileSize(lines', torn')
  BY <1>2, <1>3 DEF StatIsPast
<1>4. rpc' = "statted" => StatIsPast(rstat)'
  <2>1. rstat \in Nat \X Nat
    BY DEF TypeOK
  <2> SUFFICES ASSUME rpc = "statted"
               PROVE  rstat[1] <= mtime' /\ (rstat[1] = mtime' => rstat[2] <= FileSize(lines', torn'))
    BY <1>1 DEF StatIsPast
  <2>2. StatIsPast(rstat)
    BY DEF CacheInv
  <2>3. /\ rstat[1] <= mtime'
        /\ rstat[1] = mtime' => rstat[2] < FileSize(lines', torn')
    BY <1>3, <2>1, <2>2
  <2>4. rstat[2] \in Nat /\ (rstat[1] = mtime' => FileSize(lines', torn') \in Nat)
    BY <1>2, <2>1, <2>2 DEF StatIsPast
  <2> QED BY <2>3, <2>4
<1>5. cache'.filled => StatIsPast(cache.stat)' /\ CacheHitIsFresh'
  <2>1. cache.stat \in Nat \X Nat
    BY DEF TypeOK
  <2> SUFFICES ASSUME cache.filled
               PROVE  /\ cache.stat[1] <= mtime'
                      /\ cache.stat[1] = mtime' => cache.stat[2] <= FileSize(lines', torn')
                      /\ cache.stat # <<mtime', FileSize(lines', torn')>>
    BY <1>1 DEF StatIsPast, CacheHitIsFresh, CacheValid, Stat
  <2>2. StatIsPast(cache.stat)
    BY DEF CacheInv
  <2>3. /\ cache.stat[1] <= mtime'
        /\ cache.stat[1] = mtime' => cache.stat[2] < FileSize(lines', torn')
    BY <1>3, <2>1, <2>2
  <2>4. cache.stat[2] \in Nat /\ (cache.stat[1] = mtime' => FileSize(lines', torn') \in Nat)
    BY <1>2, <2>1, <2>2 DEF StatIsPast
  <2> QED BY <2>3, <2>4
<1> QED BY <1>4, <1>5 DEF CacheInv

\* A step that leaves the file and the reader alone.
LEMMA FileUntouched ==
  ASSUME CacheInv, UNCHANGED fileVars, UNCHANGED readVars
  PROVE  CacheInv'
BY DEF CacheInv, StatIsPast, CacheHitIsFresh, CacheValid, Stat, fileVars, readVars

\* What is lost are finitely many events.
LEMMA LostIsFinite ==
  ASSUME LedgerAssumption, TypeOK
  PROVE  IsFiniteSet(Lost) /\ Cardinality(Lost) \in Nat
<1>1. Lost \in SUBSET Event
  BY DEF TypeOK, Lost
<1>2. IsFiniteSet(Event)
  BY FS_Interval DEF LedgerAssumption, Event
<1> QED BY <1>1, <1>2, FS_Subset, FS_CardinalityType

\* Nothing more is lost, and no cut line appears.
LEMMA NoMoreLost ==
  ASSUME LedgerAssumption, TypeOK, LossInv, Lost' \subseteq Lost, torn' \in BOOLEAN, torn' => torn,
         corrupted' = corrupted
  PROVE  LossInv'
<1>2. IsFiniteSet(Lost) /\ Cardinality(Lost) \in Nat
  BY LostIsFinite
<1> DEFINE gone == Lost'
<1>3. Cardinality(gone) <= Cardinality(Lost) /\ Cardinality(gone) \in Nat
  <2> HIDE DEF gone
  <2>1. gone \in SUBSET Lost
    BY DEF gone
  <2>2. IsFiniteSet(gone)
    BY <1>2, <2>1, FS_Subset
  <2> QED BY <1>2, <2>1, <2>2, FS_Subset, FS_CardinalityType
<1>4. Cardinality(Lost) + (IF torn THEN 1 ELSE 0) <= corrupted
  BY DEF LossInv
<1>5. corrupted \in Nat /\ torn \in BOOLEAN
  BY DEF TypeOK
<1> HIDE DEF gone
<1>6. Cardinality(gone) + (IF torn' THEN 1 ELSE 0) <= corrupted
  BY <1>2, <1>3, <1>4, <1>5
<1>7. (Cardinality(Lost))' = Cardinality(gone)
  BY DEF gone
<1>8. (Cardinality(Lost))' + (IF torn' THEN 1 ELSE 0) <= corrupted'
  BY <1>6, <1>7
<1> QED BY <1>8 DEF LossInv

\* An append of an event: it is the youngest of the file, or lost in a cut line.
LEMMA Append1Keeps == ASSUME LedgerAssumption, LedgerInv, Append1 PROVE LedgerInv'
<1>0. /\ TypeOK /\ StoredInv /\ OrderInv /\ MoveInv /\ LossInv /\ UndamagedInv /\ CacheInv
      /\ nextId' = nextId + 1 /\ stored' = stored \cup {nextId} /\ torn' = FALSE
      /\ corrupted' = corrupted /\ mtime' \in {mtime, mtime + 1}
      /\ cpc' = cpc /\ snapshot' = snapshot /\ archives' = archives /\ compactions' = compactions
      /\ UNCHANGED readVars
      /\ MaxEvents \in Nat
  BY DEF LedgerInv, Append1, compVars, Touch, LedgerAssumption
<1>1. /\ nextId \in Event /\ nextId \in Nat \ {Corrupt} /\ nextId \in 1..nextId
      /\ nextId' \in 1..(MaxEvents + 1)
  BY <1>0 DEF TypeOK, Append1, CanWrite, Event, Corrupt
<1>2. /\ \A e \in stored : e \in 1..nextId /\ e < nextId
      /\ ToSet(snapshot) \subseteq stored /\ Archived \subseteq stored /\ Hot \subseteq stored
  BY <1>0, <1>1 DEF StoredInv
<1>3. /\ Archived' = Archived /\ ToArchive' = ToArchive /\ Retained' = Retained
      /\ ToSet(snapshot)' = ToSet(snapshot)
  BY <1>0 DEF Archived, ToArchive, Retained
<1>4. \/ cpc = "idle" /\ exposed' = exposed
      \/ cpc # "idle" /\ exposed' = exposed \cup {nextId}
  BY DEF Append1
<1>5. /\ lines' \in Seq(Event \cup {Corrupt}) /\ Ordered(lines') /\ Unreadable(lines') = Unreadable(lines)
      /\ \/ torn /\ lines' = lines /\ Hot' = Hot
         \/ ~torn /\ lines' = Append(lines, nextId) /\ Hot' = Hot \cup {nextId}
  <2>1. CASE torn
    BY <1>0, <2>1 DEF Append1, TypeOK, OrderInv, Hot
  <2>2. CASE ~torn
    <3>1. lines' = Append(lines, nextId)
      BY <2>2 DEF Append1
    <3>2. \A e \in Hot : e < nextId
      BY <1>0, <1>2 DEF StoredInv
    <3>3. /\ Append(lines, nextId) \in Seq(Event \cup {Corrupt})
          /\ Ordered(Append(lines, nextId))
          /\ EventsOf(Append(lines, nextId)) = Hot \cup ({nextId} \ {Corrupt})
          /\ Unreadable(Append(lines, nextId)) =
               Unreadable(lines) \cup (IF nextId = Corrupt THEN {Len(lines) + 1} ELSE {})
      BY <1>0, <1>1, <3>2, LineAppended DEF TypeOK, OrderInv
    <3>4. Hot' = EventsOf(lines')
      BY DEF Hot, EventsOf
    <3> QED BY <1>1, <2>2, <3>1, <3>3, <3>4
  <2> QED BY <2>1, <2>2
<1>6. TypeOK'
  <2>1. mtime' \in Nat
    BY <1>0 DEF TypeOK
  <2>2. stored' \subseteq Event /\ exposed' \subseteq Event
    BY <1>0, <1>1, <1>4 DEF TypeOK
  <2> QED BY <1>0, <1>1, <1>5, <2>1, <2>2 DEF TypeOK, readVars
<1>7. StoredInv'
  <2>1. stored' \subseteq 1..nextId
    BY <1>0, <1>1, <1>2
  <2>2. nextId' - 1 = nextId
    BY <1>0, <1>1
  <2>3. torn' => Len(lines') > 0
    BY <1>0
  <2> QED BY <1>0, <1>3, <1>4, <1>5, <2>1, <2>2, <2>3 DEF StoredInv
<1>8. OrderInv'
  <2>1. cpc = "truncated" => Below(ToSet(snapshot), Hot')
    <3>1. cpc = "truncated" => Below(ToSet(snapshot), Hot)
      BY <1>0 DEF OrderInv
    <3>2. \A e \in ToSet(snapshot) : e < nextId
      BY <1>2
    <3> QED BY <1>5, <3>1, <3>2 DEF Below
  <2> QED BY <1>0, <1>5, <2>1 DEF OrderInv
<1>9. MoveInv'
  <2>1. nextId \notin Archived /\ exposed \subseteq exposed'
    BY <1>0, <1>1, <1>2, <1>4 DEF StoredInv
  <2> QED BY <1>0, <1>3, <1>4, <1>5, <2>1 DEF MoveInv
<1>10. LossInv'
  <2>1. CASE cpc = "idle" /\ torn
    <3>1. Lost' \subseteq Lost \cup {nextId}
      BY <1>0, <1>3, <1>4, <1>5, <2>1 DEF Lost
    <3>2. IsFiniteSet(Lost)
      BY <1>0, LostIsFinite
    <3>3. IsFiniteSet(Lost \cup {nextId})
          /\ Cardinality(Lost \cup {nextId}) <= Cardinality(Lost) + 1
          /\ Cardinality(Lost) \in Nat /\ Cardinality(Lost \cup {nextId}) \in Nat
      BY <3>2, FS_AddElement, FS_CardinalityType
    <3> DEFINE gone == Lost'
    <3>4. Cardinality(gone) <= Cardinality(Lost \cup {nextId}) /\ Cardinality(gone) \in Nat
      <4>1. gone \in SUBSET (Lost \cup {nextId})
        BY <3>1
      <4> HIDE DEF gone
      <4> QED BY <3>3, <4>1, FS_Subset, FS_CardinalityType
    <3>5. Cardinality(Lost) + 1 <= corrupted
      BY <1>0, <2>1 DEF LossInv
    <3> HIDE DEF gone
    <3>6. Cardinality(gone) + 0 <= corrupted
      BY <1>0, <3>3, <3>4, <3>5 DEF TypeOK
    <3>7. (Cardinality(Lost))' = Cardinality(gone)
      BY DEF gone
    <3>8. (Cardinality(Lost))' + (IF torn' THEN 1 ELSE 0) <= corrupted'
      BY <1>0, <3>6, <3>7
    <3> QED BY <3>8 DEF LossInv
  <2>2. CASE cpc # "idle" \/ ~torn
    <3>1. Lost' \subseteq Lost
      BY <1>0, <1>3, <1>4, <1>5, <2>2 DEF Lost
    <3> QED BY <1>0, <3>1, NoMoreLost
  <2> QED BY <2>1, <2>2 DEF TypeOK
<1>11. UndamagedInv'
  <2> SUFFICES ASSUME Undamaged' PROVE UndamagedInv'
    BY DEF UndamagedInv
  <2>1. cpc = "idle" /\ Undamaged
    BY <1>0, <1>4 DEF Undamaged
  <2>2. Unreadable(lines) = {} /\ Below(Archived, Hot)
    BY <1>0, <2>1 DEF UndamagedInv
  <2>3. Below(Archived, Hot')
    <3>1. \A e \in Archived : e < nextId
      BY <1>2
    <3> QED BY <1>5, <2>2, <3>1 DEF Below
  <2>4. (cpc = "idle")' /\ (Below(Archived, Hot))'
    BY <1>0, <1>3, <2>1, <2>3
  <2>5. (Unreadable(lines))' = {} /\ torn' = FALSE
    BY <1>0, <1>5, <2>2
  <2> QED BY <2>4, <2>5 DEF UndamagedInv
<1>12. CacheInv'
  <2>1. CASE mtime' = mtime + 1
    BY <1>0, <2>1, ChangeIsSeen
  <2>2. CASE mtime' = mtime
    <3>1. /\ FileSize(lines, torn) \in Nat /\ FileSize(lines', torn') \in Nat
          /\ Cardinality(Unreadable(lines)) \in Nat
      BY <1>0, <1>5, SizeIsNat DEF TypeOK, StoredInv
    <3>2. FileSize(lines', torn') = FileSize(lines, torn) + 2
      <4>1. CASE torn
        BY <1>0, <1>5, <3>1, <4>1 DEF FileSize
      <4>2. CASE ~torn
        <5>1. Len(lines') = Len(lines) + 1 /\ Len(lines) \in Nat
          BY <1>0, <1>5, <4>2 DEF TypeOK
        <5> QED BY <1>0, <1>5, <3>1, <4>2, <5>1 DEF FileSize
      <4> QED BY <4>1, <4>2
    <3>3. FileSize(lines, torn) < FileSize(lines', torn')
      BY <3>1, <3>2
    <3> QED BY <1>0, <2>2, <3>1, <3>3, ChangeIsSeen
  <2> QED BY <1>0, <2>1, <2>2
<1> QED BY <1>6, <1>7, <1>8, <1>9, <1>10, <1>11, <1>12 DEF LedgerInv

\* A cut line: no event enters the file, and the next append is in danger.
LEMMA ShortWriteKeeps == ASSUME LedgerAssumption, LedgerInv, ShortWrite PROVE LedgerInv'
<1>0. /\ TypeOK /\ StoredInv /\ OrderInv /\ MoveInv /\ LossInv /\ CacheInv
      /\ ~torn /\ nextId' = nextId + 1 /\ stored' = stored /\ exposed' = exposed /\ torn' = TRUE
      /\ corrupted' = corrupted + 1 /\ mtime' \in {mtime, mtime + 1}
      /\ cpc' = cpc /\ snapshot' = snapshot /\ archives' = archives /\ compactions' = compactions
      /\ lines' = Append(lines, Corrupt)
      /\ UNCHANGED readVars
      /\ MaxEvents \in Nat
  BY DEF LedgerInv, ShortWrite, compVars, Touch, LedgerAssumption
<1>1. nextId \in Nat /\ nextId' \in 1..(MaxEvents + 1)
  BY <1>0 DEF TypeOK, ShortWrite, CanWrite
<1>2. /\ Archived' = Archived /\ ToArchive' = ToArchive /\ Retained' = Retained
      /\ ToSet(snapshot)' = ToSet(snapshot)
  BY <1>0 DEF Archived, ToArchive, Retained
<1>3. /\ lines' \in Seq(Event \cup {Corrupt}) /\ Ordered(lines') /\ Hot' = Hot
      /\ Unreadable(lines') = Unreadable(lines) \cup {Len(lines) + 1}
  <2>1. /\ Append(lines, Corrupt) \in Seq(Event \cup {Corrupt})
        /\ Ordered(Append(lines, Corrupt))
        /\ EventsOf(Append(lines, Corrupt)) = Hot \cup ({Corrupt} \ {Corrupt})
        /\ Unreadable(Append(lines, Corrupt)) =
             Unreadable(lines) \cup (IF Corrupt = Corrupt THEN {Len(lines) + 1} ELSE {})
    BY <1>0, LineAppended DEF TypeOK, OrderInv
  <2>2. Hot' = EventsOf(lines')
    BY DEF Hot, EventsOf
  <2> QED BY <1>0, <2>1, <2>2
<1>4. TypeOK'
  <2>1. mtime' \in Nat /\ corrupted' \in Nat
    BY <1>0 DEF TypeOK
  <2> QED BY <1>0, <1>1, <1>3, <2>1 DEF TypeOK, readVars
<1>5. StoredInv'
  <2>1. stored' \subseteq 1..(nextId' - 1)
    BY <1>0, <1>1 DEF StoredInv
  <2>2. Len(lines') > 0
    BY <1>0 DEF TypeOK
  <2> QED BY <1>0, <1>2, <1>3, <2>1, <2>2 DEF StoredInv
<1>6. OrderInv'
  BY <1>0, <1>2, <1>3 DEF OrderInv
<1>7. MoveInv'
  BY <1>0, <1>2, <1>3 DEF MoveInv
<1>8. LossInv'
  <2>1. (Cardinality(Lost))' = Cardinality(Lost)
    BY <1>0, <1>2, <1>3 DEF Lost
  <2>3. Cardinality(Lost) \in Nat
    BY <1>0, LostIsFinite
  <2>4. Cardinality(Lost) + 1 <= corrupted'
    BY <1>0, <2>3 DEF LossInv, TypeOK
  <2> QED BY <1>0, <2>1, <2>4 DEF LossInv
<1>9. UndamagedInv'
  BY <1>0 DEF UndamagedInv, Undamaged, TypeOK
<1>10. CacheInv'
  <2>1. CASE mtime' = mtime + 1
    BY <1>0, <2>1, ChangeIsSeen
  <2>2. CASE mtime' = mtime
    <3>1. /\ FileSize(lines, torn) \in Nat /\ FileSize(lines', torn') \in Nat
          /\ Cardinality(Unreadable(lines)) \in Nat /\ IsFiniteSet(Unreadable(lines))
      BY <1>0, <1>3, <1>4, <1>5, SizeIsNat DEF TypeOK, StoredInv
    <3>2. Cardinality(Unreadable(lines')) = Cardinality(Unreadable(lines)) + 1
      <4>1. Len(lines) + 1 \notin Unreadable(lines)
        BY <1>0 DEF Unreadable, TypeOK
      <4> QED BY <1>3, <3>1, <4>1, FS_AddElement
    <3>3. Len(lines') = Len(lines) + 1 /\ Len(lines) \in Nat
      BY <1>0 DEF TypeOK
    <3>4. FileSize(lines', torn') = FileSize(lines, torn) + 1
      BY <1>0, <3>1, <3>2, <3>3 DEF FileSize
    <3>5. FileSize(lines, torn) < FileSize(lines', torn')
      BY <3>1, <3>4
    <3> QED BY <1>0, <2>2, <3>1, <3>5, ChangeIsSeen
  <2> QED BY <1>0, <2>1, <2>2
<1> QED BY <1>4, <1>5, <1>6, <1>7, <1>8, <1>9, <1>10 DEF LedgerInv

\* Membership in Seq by the elements.
LEMMA SeqOfElements ==
  ASSUME NEW S, NEW T, NEW s \in Seq(S), ToSet(s) \subseteq T
  PROVE  s \in Seq(T)
<1>1. \A i \in 1..Len(s) : s[i] \in T
  BY DEF ToSet
<1> QED BY <1>1

\* An archive more.
LEMMA ArchiveAdded ==
  ASSUME archives \in Seq(Seq(Event)), NEW a \in Seq(Event)
  PROVE  /\ Append(archives, a) \in Seq(Seq(Event))
         /\ Len(Append(archives, a)) = Len(archives) + 1 /\ Len(archives) \in Nat
         /\ \A i \in 1..Len(archives) : Append(archives, a)[i] = archives[i]
         /\ Append(archives, a)[Len(archives) + 1] = a
         /\ UNION {ToSet(Append(archives, a)[i]) : i \in 1..(Len(archives) + 1)} = Archived \cup ToSet(a)
<1> DEFINE b == Append(archives, a)
<1>1. /\ b \in Seq(Seq(Event))
      /\ Len(b) = Len(archives) + 1 /\ Len(archives) \in Nat
      /\ \A i \in 1..Len(archives) : b[i] = archives[i]
      /\ b[Len(archives) + 1] = a
  OBVIOUS
<1> HIDE DEF b
<1>2. \A i : i \in 1..(Len(archives) + 1) <=> i \in 1..Len(archives) \/ i = Len(archives) + 1
  BY <1>1
<1>3. UNION {ToSet(b[i]) : i \in 1..(Len(archives) + 1)} = Archived \cup ToSet(a)
  <2>1. \A e : (\E i \in 1..(Len(archives) + 1) : e \in ToSet(b[i]))
                 <=> (\E i \in 1..Len(archives) : e \in ToSet(archives[i])) \/ e \in ToSet(a)
    BY <1>1, <1>2
  <2> QED BY <2>1 DEF Archived
<1> QED BY <1>1, <1>3 DEF b

\* The compactor reads: what it keeps is what the file has.
LEMMA CompactReadKeeps == ASSUME LedgerAssumption, LedgerInv, CompactRead PROVE LedgerInv'
<1>0. /\ TypeOK /\ StoredInv /\ OrderInv /\ MoveInv /\ LossInv /\ UndamagedInv /\ CacheInv
      /\ cpc = "idle" /\ compactions < MaxCompactions /\ Len(Readable(lines)) > KeepRecent
      /\ snapshot' = Readable(lines) /\ cpc' = "read" /\ compactions' = compactions + 1
      /\ archives' = archives
      /\ UNCHANGED fileVars /\ UNCHANGED readVars
      /\ nextId' = nextId /\ stored' = stored /\ corrupted' = corrupted /\ exposed' = exposed
      /\ MaxCompactions \in Nat
  BY DEF LedgerInv, CompactRead, writerVars, LedgerAssumption
<1>1. /\ lines' = lines /\ torn' = torn /\ mtime' = mtime
      /\ Hot' = Hot /\ Archived' = Archived
  BY <1>0 DEF fileVars, Hot, Archived
<1>2. Hot = EventsOf(lines)
  BY DEF Hot, EventsOf
<1>3. /\ snapshot' \in Seq(Event) /\ Increasing(snapshot') /\ ToSet(snapshot') = Hot
      /\ Len(snapshot') > KeepRecent
  <2>1. lines \in Seq(Nat) /\ Ordered(lines) /\ Hot \subseteq Event
    BY <1>0 DEF TypeOK, OrderInv, Event, Corrupt, StoredInv
  <2>2. /\ Readable(lines) \in Seq(Nat \ {Corrupt})
        /\ ToSet(Readable(lines)) = EventsOf(lines)
        /\ Increasing(Readable(lines))
    BY <2>1, ReadableProperties
  <2> QED BY <1>0, <1>2, <2>1, <2>2, SeqOfElements
<1>4. (ToSet(snapshot))' = Hot
  BY <1>3
<1>5. TypeOK'
  <2>1. compactions' \in 0..MaxCompactions
    BY <1>0 DEF TypeOK
  <2> QED BY <1>0, <1>1, <1>3, <2>1 DEF TypeOK, readVars
<1>6. StoredInv'
  BY <1>0, <1>1, <1>3, <1>4 DEF StoredInv
<1>7. OrderInv'
  BY <1>0, <1>1, <1>3 DEF OrderInv
<1>8. MoveInv'
  BY <1>0, <1>1, <1>4 DEF MoveInv
<1>9. LossInv'
  <2>1. Lost' \subseteq Lost
    <3>1. snapshot = <<>> /\ ToSet(<<>>) = {}
      BY <1>0 DEF StoredInv, ToSet
    <3> QED BY <1>0, <1>1, <1>4, <3>1 DEF Lost
  <2> QED BY <1>0, <1>1, <2>1, NoMoreLost DEF TypeOK
<1>10. UndamagedInv'
  <2>1. Undamaged' = Undamaged
    BY <1>0 DEF Undamaged
  <2>2. (Below(Archived, Hot))' = Below(Archived, Hot)
    BY <1>1 DEF Below
  <2> QED BY <1>0, <1>1, <1>4, <2>1, <2>2 DEF UndamagedInv
<1>11. CacheInv'
  BY <1>0, FileUntouched
<1> QED BY <1>5, <1>6, <1>7, <1>8, <1>9, <1>10, <1>11 DEF LedgerInv

\* The archive gets the older part of the snapshot, which none had before.
LEMMA CompactArchiveKeeps == ASSUME LedgerAssumption, LedgerInv, CompactArchive PROVE LedgerInv'
<1>0. /\ TypeOK /\ StoredInv /\ OrderInv /\ MoveInv /\ LossInv /\ UndamagedInv /\ CacheInv
      /\ cpc = "read" /\ cpc' = "archived"
      /\ archives' = Append(archives, ToArchive)
      /\ snapshot' = snapshot /\ compactions' = compactions
      /\ UNCHANGED fileVars /\ UNCHANGED readVars
      /\ nextId' = nextId /\ stored' = stored /\ corrupted' = corrupted /\ exposed' = exposed
  BY DEF LedgerInv, CompactArchive, writerVars
<1>1. /\ lines' = lines /\ torn' = torn /\ mtime' = mtime
      /\ Hot' = Hot /\ ToArchive' = ToArchive /\ Retained' = Retained
      /\ (ToSet(snapshot))' = ToSet(snapshot)
  BY <1>0 DEF fileVars, Hot, ToArchive, Retained
<1>2. /\ ToArchive \in Seq(Event) /\ Increasing(ToArchive)
      /\ ToSet(snapshot) = ToSet(ToArchive) \cup ToSet(Retained)
      /\ Below(ToSet(ToArchive), ToSet(Retained))
      /\ Retained \in Seq(Event)
  BY <1>0, SnapshotIsSplit DEF TypeOK, StoredInv, OrderInv
<1>3. /\ archives' \in Seq(Seq(Event))
      /\ Len(archives') = Len(archives) + 1 /\ Len(archives) \in Nat
      /\ \A i \in 1..Len(archives) : archives'[i] = archives[i]
      /\ archives'[Len(archives) + 1] = ToArchive
      /\ UNION {ToSet(archives'[i]) : i \in 1..(Len(archives) + 1)} = Archived \cup ToSet(ToArchive)
  <2> DEFINE b == Append(archives, ToArchive)
  <2>1. archives \in Seq(Seq(Event))
    BY <1>0 DEF TypeOK
  <2>2. /\ b \in Seq(Seq(Event))
        /\ Len(b) = Len(archives) + 1 /\ Len(archives) \in Nat
        /\ \A i \in 1..Len(archives) : b[i] = archives[i]
        /\ b[Len(archives) + 1] = ToArchive
        /\ UNION {ToSet(b[i]) : i \in 1..(Len(archives) + 1)} = Archived \cup ToSet(ToArchive)
    BY <1>2, <2>1, ArchiveAdded
  <2> HIDE DEF b
  <2>3. archives' = b
    BY <1>0 DEF b
  <2> QED BY <2>2, <2>3
<1>4. Archived' = Archived \cup ToSet(ToArchive)
  BY <1>3 DEF Archived
<1>5. \A i : i \in 1..Len(archives') <=> i \in 1..Len(archives) \/ i = Len(archives) + 1
  BY <1>3
<1>6. TypeOK'
  BY <1>0, <1>1, <1>3 DEF TypeOK, readVars
<1>7. StoredInv'
  BY <1>0, <1>1, <1>2, <1>4 DEF StoredInv
<1>8. OrderInv'
  <2>1. \A i \in 1..Len(archives') : Increasing(archives'[i])
    BY <1>0, <1>2, <1>3, <1>5 DEF OrderInv
  <2> QED BY <1>0, <1>1, <2>1 DEF OrderInv
<1>9. MoveInv'
  <2>1. ToSet(ToArchive) \cap ToSet(Retained) = {}
    <3>1. \A e \in ToSet(Retained) : e \in Nat
      BY <1>2 DEF ToSet, Event
    <3>2. \A e \in ToSet(Retained) : ~(e < e)
      BY <3>1
    <3> QED BY <1>2, <3>2 DEF Below
  <2>2. Archived' \cap ToSet(Retained) \subseteq exposed
    BY <1>0, <1>2, <1>4, <2>1 DEF MoveInv
  <2>3. \A i \in 1..Len(archives) : ToSet(archives[i]) \cap ToSet(ToArchive) \subseteq exposed
    BY <1>0, <1>2 DEF MoveInv, Archived
  <2>4. \A i, j \in 1..Len(archives') :
          i # j => ToSet(archives'[i]) \cap ToSet(archives'[j]) \subseteq exposed
    <3> SUFFICES ASSUME NEW i \in 1..Len(archives'), NEW j \in 1..Len(archives'), i # j
                 PROVE  ToSet(archives'[i]) \cap ToSet(archives'[j]) \subseteq exposed
      OBVIOUS
    <3>1. CASE i \in 1..Len(archives) /\ j \in 1..Len(archives)
      BY <1>0, <1>3, <3>1 DEF MoveInv
    <3>2. CASE i \in 1..Len(archives) /\ j = Len(archives) + 1
      BY <1>3, <2>3, <3>2
    <3>3. CASE i = Len(archives) + 1 /\ j \in 1..Len(archives)
      BY <1>3, <2>3, <3>3
    <3> QED BY <1>5, <3>1, <3>2, <3>3
  <2> QED BY <1>0, <1>1, <1>4, <2>2, <2>4 DEF MoveInv
<1>10. LossInv'
  <2>1. Lost' \subseteq Lost
    BY <1>0, <1>1, <1>4 DEF Lost
  <2> QED BY <1>0, <1>1, <2>1, NoMoreLost DEF TypeOK
<1>11. UndamagedInv'
  <2> SUFFICES ASSUME Undamaged PROVE UndamagedInv'
    BY <1>0 DEF UndamagedInv, Undamaged
  <2>1. ~torn /\ Unreadable(lines) = {} /\ Below(Archived, Hot) /\ ToSet(snapshot) = Hot
    BY <1>0 DEF UndamagedInv
  <2>2. Below(Archived', ToSet(Retained))
    BY <1>2, <1>4, <2>1 DEF Below
  <2>3. (Below(Archived, ToSet(Retained)))'
    BY <1>1, <2>2
  <2>4. Below(Archived' \ Hot, Hot)
    BY <1>2, <1>4, <2>1 DEF Below
  <2>5. (Below(Archived \ Hot, Hot))'
    BY <1>1, <2>4
  <2> QED BY <1>0, <1>1, <2>1, <2>3, <2>5 DEF UndamagedInv
<1>12. CacheInv'
  BY <1>0, FileUntouched
<1> QED BY <1>6, <1>7, <1>8, <1>9, <1>10, <1>11, <1>12 DEF LedgerInv

\* The file is cut to nothing: the compactor still has what it held, but for
\* what others appended meanwhile.
LEMMA CompactTruncateKeeps == ASSUME LedgerAssumption, LedgerInv, CompactTruncate PROVE LedgerInv'
<1>0. /\ TypeOK /\ StoredInv /\ OrderInv /\ MoveInv /\ LossInv /\ UndamagedInv /\ CacheInv
      /\ cpc = "archived" /\ cpc' = "truncated"
      /\ lines' = <<>> /\ torn' = FALSE /\ mtime' = mtime + 1
      /\ snapshot' = snapshot /\ archives' = archives /\ compactions' = compactions
      /\ UNCHANGED readVars
      /\ nextId' = nextId /\ stored' = stored /\ corrupted' = corrupted /\ exposed' = exposed
  BY DEF LedgerInv, CompactTruncate, writerVars, NewTick
<1>1. /\ Hot' = {} /\ Archived' = Archived /\ ToArchive' = ToArchive /\ Retained' = Retained
      /\ (ToSet(snapshot))' = ToSet(snapshot)
  BY <1>0 DEF Hot, Archived, ToArchive, Retained
<1>2. TypeOK'
  <2>1. mtime' \in Nat
    BY <1>0 DEF TypeOK
  <2>2. lines' \in Seq(Event \cup {Corrupt})
    BY <1>0
  <2>3. torn' \in BOOLEAN /\ cpc' \in {"idle", "read", "archived", "truncated"}
    BY <1>0
  <2> QED BY <1>0, <2>1, <2>2, <2>3 DEF TypeOK, readVars
<1>3. StoredInv'
  BY <1>0, <1>1 DEF StoredInv
<1>4. OrderInv'
  BY <1>0, <1>1 DEF OrderInv, Ordered, Below
<1>5. MoveInv'
  BY <1>0, <1>1 DEF MoveInv
<1>6. LossInv'
  <2>1. Lost' \subseteq Lost
    BY <1>0, <1>1 DEF Lost, MoveInv
  <2> QED BY <1>0, <2>1, NoMoreLost
<1>7. UndamagedInv'
  <2> SUFFICES ASSUME Undamaged PROVE UndamagedInv'
    BY <1>0 DEF UndamagedInv, Undamaged
  <2>1. (Below(Archived, ToSet(Retained)))'
    BY <1>0, <1>1 DEF UndamagedInv
  <2>2. (Unreadable(lines))' = {}
    BY <1>0 DEF Unreadable
  <2> QED BY <1>0, <2>1, <2>2 DEF UndamagedInv
<1>8. CacheInv'
  BY <1>0, ChangeIsSeen
<1> QED BY <1>2, <1>3, <1>4, <1>5, <1>6, <1>7, <1>8 DEF LedgerInv

\* The retained events are written, and what others appended follows them.
LEMMA CompactRewriteKeeps == ASSUME LedgerAssumption, LedgerInv, CompactRewrite PROVE LedgerInv'
<1>0. /\ TypeOK /\ StoredInv /\ OrderInv /\ MoveInv /\ LossInv /\ UndamagedInv /\ CacheInv
      /\ cpc = "truncated" /\ cpc' = "idle" /\ snapshot' = <<>>
      /\ lines' \in WriteOver(Retained) /\ torn' = (torn /\ Len(lines') > Len(Retained))
      /\ mtime' = mtime + 1
      /\ archives' = archives /\ compactions' = compactions
      /\ UNCHANGED readVars
      /\ nextId' = nextId /\ stored' = stored /\ corrupted' = corrupted /\ exposed' = exposed
  BY DEF LedgerInv, CompactRewrite, writerVars, NewTick
<1>1. /\ Retained \in Seq(Event) /\ Increasing(Retained)
      /\ ToSet(snapshot) = ToSet(ToArchive) \cup ToSet(Retained)
      /\ Len(Retained) = KeepRecent
  BY <1>0, SnapshotIsSplit DEF TypeOK, StoredInv, OrderInv
<1>2. Below(ToSet(Retained), Hot)
  BY <1>0, <1>1 DEF OrderInv, Below
<1>3. /\ lines' \in Seq(Event \cup {Corrupt})
      /\ Ordered(lines')
      /\ ToSet(Retained) \subseteq EventsOf(lines') /\ EventsOf(lines') \subseteq ToSet(Retained) \cup Hot
      /\ lines = <<>> => lines' = Retained
  <2>1. lines \in Seq(Event \cup {Corrupt}) /\ Ordered(lines)
    BY <1>0 DEF TypeOK, OrderInv
  <2>2. PICK t \in WriteOver(Retained) : lines' = t
    BY <1>0
  <2>3. /\ t \in Seq(Event \cup {Corrupt})
        /\ Ordered(t)
        /\ ToSet(Retained) \subseteq EventsOf(t) /\ EventsOf(t) \subseteq ToSet(Retained) \cup Hot
        /\ lines = <<>> => t = Retained
    BY <1>1, <1>2, <2>1, WriteOverKeeps
  <2> QED BY <2>2, <2>3
<1>4. Hot' = EventsOf(lines')
  BY DEF Hot, EventsOf
<1>5. Archived' = Archived /\ ToSet(<<>>) = {}
  BY <1>0 DEF Archived, ToSet
<1>6. (ToSet(snapshot))' = {}
  BY <1>0, <1>5
<1>7. TypeOK'
  <2>1. mtime' \in Nat /\ torn' \in BOOLEAN /\ cpc' \in {"idle", "read", "archived", "truncated"}
    BY <1>0 DEF TypeOK
  <2>2. snapshot' \in Seq(Event)
    BY <1>0
  <2> QED BY <1>0, <1>3, <2>1, <2>2 DEF TypeOK, readVars
<1>8. StoredInv'
  <2>1. Hot' \subseteq stored
    BY <1>0, <1>1, <1>3, <1>4 DEF StoredInv
  <2>2. torn' => Len(lines') > 0
    <3>1. Len(Retained) \in Nat /\ Len(lines') \in Nat
      BY <1>1, <1>3
    <3>2. torn' => Len(lines') > Len(Retained)
      BY <1>0
    <3> QED BY <3>1, <3>2
  <2> QED BY <1>0, <1>5, <1>6, <2>1, <2>2 DEF StoredInv
<1>9. OrderInv'
  <2>1. Increasing(snapshot')
    BY <1>0 DEF Increasing
  <2> QED BY <1>0, <1>3, <2>1 DEF OrderInv
<1>10. MoveInv'
  <2>1. Archived \cap Hot' \subseteq exposed
    BY <1>0, <1>3, <1>4 DEF MoveInv
  <2> QED BY <1>0, <1>5, <2>1 DEF MoveInv
<1>11. LossInv'
  <2>1. Lost' \subseteq Lost
    BY <1>0, <1>1, <1>3, <1>4, <1>5, <1>6 DEF Lost, MoveInv
  <2> QED BY <1>0, <2>1, NoMoreLost DEF TypeOK
<1>12. UndamagedInv'
  <2> SUFFICES ASSUME Undamaged PROVE UndamagedInv'
    BY <1>0 DEF UndamagedInv, Undamaged
  <2>1. lines = <<>> /\ ~torn /\ Below(Archived, ToSet(Retained))
    BY <1>0 DEF UndamagedInv
  <2>2. lines' = Retained /\ torn' = FALSE
    BY <1>0, <1>3, <2>1
  <2>3. (Unreadable(lines))' = {}
    <3>1. Corrupt \notin Event
      BY DEF Event, Corrupt
    <3> QED BY <1>1, <2>2, <3>1 DEF Unreadable
  <2>4. Hot' = ToSet(Retained)
    <3>1. Hot = {}
      BY <2>1 DEF Hot
    <3> QED BY <1>3, <1>4, <3>1
  <2>5. (Below(Archived, Hot))'
    BY <1>5, <2>1, <2>4
  <2> QED BY <1>0, <2>2, <2>3, <2>5 DEF UndamagedInv
<1>13. CacheInv'
  BY <1>0, ChangeIsSeen
<1> QED BY <1>7, <1>8, <1>9, <1>10, <1>11, <1>12, <1>13 DEF LedgerInv

\* The compactor dies: what it held is exposed, and nothing else changes place.
LEMMA CompactCrashKeeps == ASSUME LedgerAssumption, LedgerInv, CompactCrash PROVE LedgerInv'
<1>0. /\ TypeOK /\ StoredInv /\ OrderInv /\ MoveInv /\ LossInv /\ UndamagedInv /\ CacheInv
      /\ cpc # "idle" /\ cpc' = "idle" /\ snapshot' = <<>>
      /\ exposed' = exposed \cup ToSet(snapshot)
      /\ archives' = archives /\ compactions' = compactions
      /\ UNCHANGED readVars
      /\ nextId' = nextId /\ stored' = stored /\ corrupted' = corrupted
      /\ KeepRecent \in Nat \ {0}
  BY DEF LedgerInv, CompactCrash, LedgerAssumption
<1>1. /\ Retained \in Seq(Event) /\ Increasing(Retained)
      /\ ToSet(snapshot) = ToSet(ToArchive) \cup ToSet(Retained)
      /\ Len(Retained) = KeepRecent
  BY <1>0, SnapshotIsSplit DEF TypeOK, StoredInv, OrderInv
<1>2. /\ lines' \in Seq(Event \cup {Corrupt}) /\ Ordered(lines')
      /\ Hot' \subseteq ToSet(snapshot) \cup Hot
      /\ cpc # "truncated" => Hot' = Hot
      /\ torn' \in BOOLEAN /\ (torn' => torn) /\ (torn' => Len(lines') > 0)
      /\ \/ UNCHANGED fileVars
         \/ mtime' = mtime + 1
  <2>1. CASE UNCHANGED fileVars
    <3>1. lines' = lines /\ torn' = torn /\ Hot' = Hot
      BY <2>1 DEF fileVars, Hot
    <3> QED BY <1>0, <2>1, <3>1 DEF TypeOK, StoredInv, OrderInv
  <2>2. ASSUME cpc = "truncated", NEW k \in 1..(Len(Retained) - 1),
               lines' \in WriteOver(SubSeq(Retained, 1, k)),
               torn' = (torn /\ Len(lines') > k), NewTick
        PROVE  /\ lines' \in Seq(Event \cup {Corrupt}) /\ Ordered(lines')
               /\ Hot' \subseteq ToSet(snapshot) \cup Hot
               /\ torn' \in BOOLEAN /\ (torn' => torn) /\ (torn' => Len(lines') > 0)
               /\ mtime' = mtime + 1
    <3> DEFINE part == SubSeq(Retained, 1, k)
    <3>1. k \in Nat /\ k <= Len(Retained) /\ 1 \in Nat \ {0} /\ Len(Retained) \in Nat
      BY <1>0, <1>1, <2>2
    <3>2. /\ part \in Seq(Event)
          /\ ToSet(part) = {Retained[i] : i \in 1..k}
          /\ Increasing(part)
      BY <1>1, <3>1, PartOfSequence
    <3>3. ToSet(part) \subseteq ToSet(Retained)
      <4>1. ToSet(Retained) = {Retained[i] : i \in 1..Len(Retained)}
        BY <1>1 DEF ToSet
      <4> HIDE DEF part
      <4> QED BY <3>1, <3>2, <4>1
    <3>4. PICK t \in WriteOver(part) : lines' = t
      BY <2>2
    <3> HIDE DEF part
    <3>5. Below(ToSet(part), Hot)
      BY <1>0, <1>1, <2>2, <3>3 DEF OrderInv, Below
    <3>6. lines \in Seq(Event \cup {Corrupt}) /\ Ordered(lines)
      BY <1>0 DEF TypeOK, OrderInv
    <3>7. /\ t \in Seq(Event \cup {Corrupt})
          /\ Ordered(t)
          /\ EventsOf(t) \subseteq ToSet(part) \cup Hot
      BY <3>2, <3>4, <3>5, <3>6, WriteOverKeeps
    <3>8. Hot' = EventsOf(lines')
      BY DEF Hot, EventsOf
    <3>9. Hot' \subseteq ToSet(snapshot) \cup Hot
      BY <1>1, <3>3, <3>4, <3>7, <3>8
    <3>10. torn' \in BOOLEAN /\ (torn' => torn) /\ (torn' => Len(lines') > 0)
      <4>1. Len(lines') \in Nat
        BY <3>4, <3>7
      <4>2. torn' \in BOOLEAN /\ (torn' => torn) /\ (torn' => Len(lines') > k)
        BY <2>2
      <4> QED BY <3>1, <4>1, <4>2
    <3> QED BY <2>2, <3>4, <3>7, <3>9, <3>10 DEF NewTick
  <2>3. \/ UNCHANGED fileVars
        \/ /\ cpc = "truncated"
           /\ \E k \in 1..(Len(Retained) - 1) :
                /\ lines' \in WriteOver(SubSeq(Retained, 1, k))
                /\ torn' = (torn /\ Len(lines') > k)
                /\ NewTick
    BY DEF CompactCrash
  <2> QED BY <2>1, <2>2, <2>3
<1>3. Archived' = Archived /\ ToSet(<<>>) = {}
  BY <1>0 DEF Archived, ToSet
<1>4. (ToSet(snapshot))' = {}
  BY <1>0, <1>3
<1>5. Hot' \subseteq exposed' /\ exposed \subseteq exposed'
  <2>1. CASE cpc = "truncated"
    BY <1>0, <1>2, <2>1 DEF MoveInv
  <2>2. CASE cpc \in {"read", "archived"}
    BY <1>0, <1>2, <2>2 DEF MoveInv
  <2> QED BY <1>0, <2>1, <2>2 DEF TypeOK
<1>6. TypeOK'
  <2>1. mtime' \in Nat /\ cpc' \in {"idle", "read", "archived", "truncated"}
    BY <1>0, <1>2 DEF TypeOK, fileVars
  <2>2. snapshot' \in Seq(Event)
    BY <1>0
  <2>3. exposed' \subseteq Event
    BY <1>0 DEF TypeOK, StoredInv
  <2> QED BY <1>0, <1>2, <2>1, <2>2, <2>3 DEF TypeOK, readVars
<1>7. StoredInv'
  BY <1>0, <1>2, <1>3, <1>4 DEF StoredInv
<1>8. OrderInv'
  <2>1. Increasing(snapshot')
    BY <1>0 DEF Increasing
  <2> QED BY <1>0, <1>2, <2>1 DEF OrderInv
<1>9. MoveInv'
  BY <1>0, <1>3, <1>5 DEF MoveInv
<1>10. LossInv'
  <2>1. Lost' \subseteq Lost
    BY <1>0, <1>2, <1>3, <1>4, <1>5 DEF Lost, MoveInv
  <2> QED BY <1>0, <1>2, <2>1, NoMoreLost
<1>11. UndamagedInv'
  <2>1. ToSet(snapshot) # {}
    <3>1. Len(snapshot) \in Nat /\ Len(snapshot) > 0
      BY <1>0 DEF TypeOK, StoredInv
    <3>2. snapshot[1] \in ToSet(snapshot)
      BY <1>0, <3>1 DEF ToSet, TypeOK
    <3> QED BY <3>2
  <2> QED BY <1>0, <2>1 DEF UndamagedInv, Undamaged
<1>12. CacheInv'
  <2>1. CASE UNCHANGED fileVars
    BY <1>0, <2>1, FileUntouched
  <2>2. CASE mtime' = mtime + 1
    BY <1>0, <2>2, ChangeIsSeen
  <2> QED BY <1>2, <2>1, <2>2
<1> QED BY <1>6, <1>7, <1>8, <1>9, <1>10, <1>11, <1>12 DEF LedgerInv

\* The reader's two steps do not touch the file; it stores what it has read
\* under the stat it took before.
LEMMA ReaderKeeps == ASSUME LedgerAssumption, LedgerInv, CacheStat \/ CacheFill PROVE LedgerInv'
<1>0. /\ TypeOK /\ StoredInv /\ OrderInv /\ MoveInv /\ LossInv /\ UndamagedInv /\ CacheInv
      /\ UNCHANGED <<lines, torn, mtime>>
      /\ UNCHANGED <<nextId, stored, corrupted, exposed>>
      /\ UNCHANGED <<cpc, snapshot, archives, compactions>>
  BY DEF LedgerInv, CacheStat, CacheFill, fileVars, writerVars, compVars
<1>1. /\ Hot' = Hot /\ Archived' = Archived /\ ToArchive' = ToArchive /\ Retained' = Retained
      /\ Lost' = Lost /\ Undamaged' = Undamaged /\ Stat' = Stat
  BY <1>0 DEF Hot, Archived, ToArchive, Retained, Lost, Undamaged, Stat
<1>2. StoredInv' /\ OrderInv' /\ MoveInv'
  BY <1>0, <1>1 DEF StoredInv, OrderInv, MoveInv, Below
<1>3. LossInv' /\ UndamagedInv'
  BY <1>0, <1>1 DEF LossInv, UndamagedInv, Below
<1>4. mtime \in Nat /\ FileSize(lines, torn) \in Nat
  BY <1>0, SizeIsNat DEF TypeOK, StoredInv
<1>5. CASE CacheStat
  <2>1. rpc' = "statted" /\ rstat' = <<mtime, FileSize(lines, torn)>> /\ cache' = cache
    BY <1>5 DEF CacheStat, Stat
  <2>2. rstat' \in Nat \X Nat
    BY <1>4, <2>1
  <2>3. TypeOK'
    BY <1>0, <2>1, <2>2 DEF TypeOK
  <2>4. CacheInv'
    BY <1>0, <1>1, <1>4, <2>1 DEF CacheInv, StatIsPast, CacheHitIsFresh, CacheValid
  <2> QED BY <1>2, <1>3, <2>3, <2>4 DEF LedgerInv
<1>6. CASE CacheFill
  <2>1. /\ rpc = "statted" /\ rpc' = "idle" /\ rstat' = <<0, 0>>
        /\ cache' = [stat |-> rstat, records |-> Readable(lines), filled |-> TRUE]
    BY <1>6 DEF CacheFill
  <2>2. Readable(lines) \in Seq(Event)
    <3>1. lines \in Seq(Nat) /\ Ordered(lines)
      BY <1>0 DEF TypeOK, OrderInv, Event, Corrupt
    <3>0. EventsOf(lines) \subseteq Event
      BY <1>0 DEF StoredInv, TypeOK, Hot, EventsOf
    <3>2. /\ Readable(lines) \in Seq(Nat \ {Corrupt})
          /\ ToSet(Readable(lines)) = EventsOf(lines)
      BY <3>1, ReadableProperties
    <3> QED BY <3>0, <3>2, SeqOfElements
  <2>3. TypeOK'
    <3>1. rstat' \in Nat \X Nat /\ rpc' \in {"idle", "statted"}
      BY <2>1
    <3>2. cache' \in [stat : Nat \X Nat, records : Seq(Event), filled : BOOLEAN]
      BY <1>0, <2>1, <2>2 DEF TypeOK
    <3> QED BY <1>0, <3>1, <3>2 DEF TypeOK
  <2>4. StatIsPast(rstat)
    BY <1>0, <2>1 DEF CacheInv
  <2>5. CacheInv'
    <3>1. rpc' # "statted"
      BY <2>1
    <3>2. (StatIsPast(cache.stat))'
      BY <1>0, <2>1, <2>4 DEF StatIsPast
    <3>3. cache'.records = Readable(lines')
      BY <1>0, <2>1
    <3> QED BY <3>1, <3>2, <3>3 DEF CacheInv, CacheHitIsFresh
  <2> QED BY <1>2, <1>3, <2>3, <2>5 DEF LedgerInv
<1> QED BY <1>5, <1>6

----------------------------------------------------------------------------
(* The theorems about the file *)

\* An empty file, and nothing known of it.
LEMMA InitLedgerInv == ASSUME LedgerAssumption, Init PROVE LedgerInv
<1>0. /\ lines = <<>> /\ torn = FALSE /\ mtime = 1 /\ nextId = 1
      /\ stored = {} /\ corrupted = 0 /\ exposed = {}
      /\ cpc = "idle" /\ snapshot = <<>> /\ archives = <<>> /\ compactions = 0
      /\ rpc = "idle" /\ rstat = <<0, 0>> /\ cache = NoCache
      /\ MaxEvents \in Nat /\ MaxCompactions \in Nat
  BY DEF Init, LedgerAssumption
<1>1. Hot = {} /\ Archived = {} /\ ToSet(snapshot) = {} /\ Lost = {} /\ Unreadable(lines) = {}
  BY <1>0 DEF Hot, Archived, ToSet, Lost, Unreadable
<1>2. TypeOK
  <2>1. cache \in [stat : Nat \X Nat, records : Seq(Event), filled : BOOLEAN] /\ rstat \in Nat \X Nat
    BY <1>0 DEF NoCache
  <2>2. /\ nextId \in 1..(MaxEvents + 1) /\ compactions \in 0..MaxCompactions
        /\ mtime \in Nat /\ corrupted \in Nat
    BY <1>0
  <2>3. /\ lines \in Seq(Event \cup {Corrupt}) /\ snapshot \in Seq(Event)
        /\ archives \in Seq(Seq(Event))
    BY <1>0
  <2> QED BY <1>0, <2>1, <2>2, <2>3 DEF TypeOK
<1>3. StoredInv
  BY <1>0, <1>1 DEF StoredInv
<1>4. OrderInv
  BY <1>0 DEF OrderInv, Ordered, Increasing
<1>5. MoveInv
  BY <1>0, <1>1 DEF MoveInv
<1>6. LossInv
  <2>1. Cardinality(Lost) = 0
    BY <1>1, FS_EmptySet
  <2> QED BY <1>0, <2>1 DEF LossInv
<1>7. UndamagedInv
  BY <1>0, <1>1 DEF UndamagedInv, Below
<1>8. CacheInv
  BY <1>0 DEF CacheInv, NoCache
<1> QED BY <1>2, <1>3, <1>4, <1>5, <1>6, <1>7, <1>8 DEF LedgerInv

\* Nothing the invariant speaks of changes.
LEMMA NothingKeeps == ASSUME LedgerInv, UNCHANGED vars PROVE LedgerInv'
<1>0. /\ TypeOK /\ StoredInv /\ OrderInv /\ MoveInv /\ LossInv /\ UndamagedInv /\ CacheInv
      /\ UNCHANGED <<lines, torn, mtime>>
      /\ UNCHANGED <<nextId, stored, corrupted, exposed>>
      /\ UNCHANGED <<cpc, snapshot, archives, compactions>>
      /\ UNCHANGED fileVars /\ UNCHANGED readVars
  BY DEF LedgerInv, vars, fileVars, writerVars, compVars
<1>1. /\ Hot' = Hot /\ Archived' = Archived /\ ToArchive' = ToArchive /\ Retained' = Retained
      /\ Lost' = Lost /\ Undamaged' = Undamaged
  BY <1>0 DEF Hot, Archived, ToArchive, Retained, Lost, Undamaged
<1>2. TypeOK' /\ StoredInv' /\ OrderInv' /\ MoveInv'
  BY <1>0, <1>1 DEF TypeOK, StoredInv, OrderInv, MoveInv, Below, readVars
<1>3. LossInv' /\ UndamagedInv'
  BY <1>0, <1>1 DEF LossInv, UndamagedInv, Below
<1>4. CacheInv'
  BY <1>0, FileUntouched
<1> QED BY <1>2, <1>3, <1>4 DEF LedgerInv

\* Every step keeps the invariant.
LEMMA LedgerKept == LedgerInv /\ [Next]_vars => LedgerInv'
<1> SUFFICES ASSUME LedgerInv, [Next]_vars PROVE LedgerInv'
  OBVIOUS
<1>1. CASE Append1
  BY <1>1, LedgerAssumption, Append1Keeps
<1>2. CASE ShortWrite
  BY <1>2, LedgerAssumption, ShortWriteKeeps
<1>3. CASE CompactRead
  BY <1>3, LedgerAssumption, CompactReadKeeps
<1>4. CASE CompactArchive
  BY <1>4, LedgerAssumption, CompactArchiveKeeps
<1>5. CASE CompactTruncate
  BY <1>5, LedgerAssumption, CompactTruncateKeeps
<1>6. CASE CompactRewrite
  BY <1>6, LedgerAssumption, CompactRewriteKeeps
<1>7. CASE CompactCrash
  BY <1>7, LedgerAssumption, CompactCrashKeeps
<1>8. CASE CacheStat \/ CacheFill
  BY <1>8, LedgerAssumption, ReaderKeeps
<1>9. CASE UNCHANGED vars
  BY <1>9, NothingKeeps
<1> QED BY <1>1, <1>2, <1>3, <1>4, <1>5, <1>6, <1>7, <1>8, <1>9 DEF Next, Compactor

\* LedgerInv holds whatever shares the file.
THEOREM LedgerInvariant == Spec => []LedgerInv
<1>1. Init => LedgerInv
  BY LedgerAssumption, InitLedgerInv
<1> QED BY <1>1, LedgerKept, PTL DEF Spec

\* The file, the snapshots, the archives and the cache hold events only; the
\* compactor carries no line it could not parse.
THEOREM LedgerTypes == Spec => []TypeOK
<1>1. LedgerInv => TypeOK
  BY DEF LedgerInv
<1> QED BY <1>1, LedgerInvariant, PTL

\* Readers find the events in the order of appending, in the file and in every
\* archive: load_recent and the archives of compact_jsonl_ledger.
THEOREM OrderIsPreserved == Spec => []OrderPreserved
<1>1. LedgerInv => OrderPreserved
  <2> SUFFICES ASSUME LedgerInv PROVE OrderPreserved
    OBVIOUS
  <2>1. lines \in Seq(Nat) /\ Ordered(lines)
    BY DEF LedgerInv, TypeOK, OrderInv, Event, Corrupt
  <2>2. Increasing(Readable(lines))
    BY <2>1, ReadableProperties
  <2> QED BY <2>2 DEF LedgerInv, OrderInv, OrderPreserved
<1> QED BY <1>1, LedgerInvariant, PTL

\* Compaction loses nothing but what was appended during one or died with one,
\* and what a cut line swallowed: compact_jsonl_ledger beside append_event.
THEOREM NothingIsLost == Spec => []NothingLost
<1>1. LedgerInv => NothingLost
  <2> SUFFICES ASSUME LedgerInv PROVE NothingLost
    OBVIOUS
  <2>1. Cardinality(Lost) \in Nat /\ corrupted \in Nat /\ torn \in BOOLEAN
    BY LedgerAssumption, LostIsFinite DEF LedgerInv, TypeOK
  <2>2. Cardinality(Lost) + (IF torn THEN 1 ELSE 0) <= corrupted
    BY DEF LedgerInv, LossInv
  <2>3. Cardinality(Lost) <= corrupted
    BY <2>1, <2>2
  <2> QED BY <2>3 DEF NothingLost, Lost
<1> QED BY <1>1, LedgerInvariant, PTL

\* Between compactions an event is in the file or in one archive, unless a
\* compaction that died held it.
THEOREM EventsAreMoved == Spec => []MovedNotCopied
<1>1. LedgerInv => MovedNotCopied
  BY DEF LedgerInv, MoveInv, MovedNotCopied
<1> QED BY <1>1, LedgerInvariant, PTL

\* A snapshot the cache still trusts is what the file holds, although the stat
\* it is kept under was taken before the file was read: get_records.
THEOREM CacheIsFresh == Spec => []CacheHitIsFresh
<1>1. LedgerInv => CacheHitIsFresh
  BY DEF LedgerInv, CacheInv, CacheHitIsFresh, CacheValid
<1> QED BY <1>1, LedgerInvariant, PTL

----------------------------------------------------------------------------
(* The orders on reflexes *)

Approval(p) == [pattern |-> p, status |-> "active_local"]

\* What a set of orders leaves active: the youngest on a pattern decides.
ActiveOf(S) ==
  {p \in Patterns :
     \E e \in S : order[e] = Approval(p) /\ \A f \in S : f > e => order[f].pattern # p}

\* Only the events that were stored are orders.
OrderTypes ==
  /\ order \in [Event -> [pattern : Patterns \cup {"none"},
                          status : {"active_local", "disabled", "none"}]]
  /\ \A e \in stored : order[e].status # "none"

\* The orders the gate obeys: those of the file, or what the compactor is about
\* to write into it.
InForce == IF cpc = "truncated" THEN ToSet(Retained) ELSE Hot

Shown ==
  IF ~Undamaged THEN {} ELSE IF cpc = "truncated" THEN ActiveIn(Retained) ELSE GetActiveReflexes

\* In lines that stand in the order of appending, the last one is the youngest.
LEMMA ActiveByEvent ==
  ASSUME NEW s \in Seq(Event), Increasing(s)
  PROVE  ActiveIn(s) = ActiveOf(ToSet(s))
<1>1. ToSet(s) = {s[i] : i \in 1..Len(s)} /\ Len(s) \in Nat
  BY DEF ToSet
<1>2. \A i \in 1..Len(s) : s[i] \in Nat
  BY LedgerAssumption DEF LedgerAssumption, Event
<1>3. \A i, j \in 1..Len(s) : s[j] > s[i] <=> j > i
  BY <1>1, <1>2 DEF Increasing
<1>4. \A i \in 1..Len(s) : \A j : j \in (i + 1)..Len(s) <=> j \in 1..Len(s) /\ j > i
  BY <1>1
<1>5. ASSUME NEW p \in Patterns, NEW i \in 1..Len(s)
      PROVE  (\A j \in (i + 1)..Len(s) : order[s[j]].pattern # p)
               <=> (\A f \in ToSet(s) : f > s[i] => order[f].pattern # p)
  BY <1>1, <1>3, <1>4
<1>6. \A p \in Patterns : p \in ActiveIn(s) <=> p \in ActiveOf(ToSet(s))
  <2> TAKE p \in Patterns
  <2>1. p \in ActiveIn(s) <=>
          \E i \in 1..Len(s) : /\ order[s[i]] = Approval(p)
                               /\ \A f \in ToSet(s) : f > s[i] => order[f].pattern # p
    BY <1>5 DEF ActiveIn, Approval
  <2>2. p \in ActiveOf(ToSet(s)) <=>
          \E i \in 1..Len(s) : /\ order[s[i]] = Approval(p)
                               /\ \A f \in ToSet(s) : f > s[i] => order[f].pattern # p
    BY <1>1 DEF ActiveOf
  <2> QED BY <2>1, <2>2
<1> QED BY <1>6 DEF ActiveIn, ActiveOf

\* The gate reads events of the file, in order, and all of them if no line is
\* unreadable.
LEMMA UntilCorruptIsPart ==
  ASSUME LedgerInv
  PROVE  /\ UntilCorrupt(lines) \in Seq(Event)
         /\ Increasing(UntilCorrupt(lines))
         /\ ToSet(UntilCorrupt(lines)) \subseteq Hot
         /\ Unreadable(lines) = {} => ToSet(UntilCorrupt(lines)) = Hot
<1>0. /\ lines \in Seq(Event \cup {Corrupt}) /\ Ordered(lines) /\ Len(lines) \in Nat
      /\ Hot = {lines[i] : i \in {j \in 1..Len(lines) : lines[j] # Corrupt}}
  BY DEF LedgerInv, TypeOK, OrderInv, Hot
<1>1. UntilCorrupt(lines) =
        IF Unreadable(lines) = {} THEN lines ELSE SubSeq(lines, 1, Min(Unreadable(lines)) - 1)
  BY DEF UntilCorrupt, Unreadable
<1>2. CASE Unreadable(lines) = {}
  <2>1. \A i \in 1..Len(lines) : lines[i] # Corrupt /\ lines[i] \in Event
    BY <1>0, <1>2 DEF Unreadable
  <2>2. lines \in Seq(Event)
    BY <1>0, <2>1
  <2>3. ToSet(lines) = Hot
    BY <1>0, <2>1 DEF ToSet
  <2>4. Increasing(lines)
    BY <1>0, <2>1 DEF Increasing, Ordered
  <2> QED BY <1>1, <1>2, <2>2, <2>3, <2>4
<1>3. CASE Unreadable(lines) # {}
  <2> DEFINE m == Min(Unreadable(lines))
             p == SubSeq(lines, 1, m - 1)
  <2>1. Unreadable(lines) \in SUBSET Nat
    BY DEF Unreadable
  <2>2. m \in Unreadable(lines) /\ \A y \in Unreadable(lines) : m <= y
    BY <1>3, <2>1, LeastExists DEF Min
  <2> HIDE DEF m
  <2>3. /\ m - 1 \in Nat /\ m - 1 <= Len(lines) /\ 1 \in Nat
        /\ \A i \in 1..(m - 1) : i \in 1..Len(lines) /\ lines[i] # Corrupt /\ lines[i] \in Event
    <3>1. m \in 1..Len(lines)
      BY <2>2 DEF Unreadable
    <3>2. \A i \in 1..(m - 1) : i \in 1..Len(lines) /\ ~(m <= i)
      BY <1>0, <3>1
    <3> QED BY <1>0, <2>2, <3>1, <3>2 DEF Unreadable
  <2>4. /\ p \in Seq(Event) /\ Len(p) = m - 1
        /\ \A i \in 1..(m - 1) : p[i] = lines[i]
    <3>1. /\ p \in Seq(Event)
          /\ Len(p) = IF 1 <= m - 1 THEN (m - 1) - 1 + 1 ELSE 0
          /\ \A i \in 1..((m - 1) - 1 + 1) : p[i] = lines[1 + i - 1]
      BY <1>0, <2>3, SubSeqProperties
    <3> HIDE DEF p
    <3>2. Len(p) = m - 1 /\ (m - 1) - 1 + 1 = m - 1
      BY <2>3, <3>1
    <3>3. \A i \in 1..(m - 1) : p[i] = lines[i]
      <4> TAKE i \in 1..(m - 1)
      <4>1. 1 + i - 1 = i
        OBVIOUS
      <4> QED BY <3>1, <3>2, <4>1
    <3> QED BY <3>1, <3>2, <3>3
  <2> HIDE DEF p
  <2>5. Increasing(p)
    BY <1>0, <2>3, <2>4 DEF Increasing, Ordered
  <2>6. ToSet(p) \subseteq Hot
    <3>1. ToSet(p) = {p[i] : i \in 1..(m - 1)}
      BY <2>4 DEF ToSet
    <3> QED BY <1>0, <2>3, <2>4, <3>1
  <2>7. UntilCorrupt(lines) = p
    BY <1>1, <1>3 DEF p, m
  <2> QED BY <1>3, <2>4, <2>5, <2>6, <2>7
<1> QED BY <1>2, <1>3

\* What the gate shows, by the events it obeys.
LEMMA ShownIsActive ==
  LedgerInv => /\ GetActiveReflexes = ActiveOf(ToSet(UntilCorrupt(lines)))
               /\ Undamaged /\ cpc # "truncated" => GetActiveReflexes = ActiveOf(Hot)
               /\ Undamaged => Shown = ActiveOf(InForce)
<1> SUFFICES ASSUME LedgerInv
             PROVE  /\ GetActiveReflexes = ActiveOf(ToSet(UntilCorrupt(lines)))
                    /\ Undamaged /\ cpc # "truncated" => GetActiveReflexes = ActiveOf(Hot)
                    /\ Undamaged => Shown = ActiveOf(InForce)
  OBVIOUS
<1>1. GetActiveReflexes = ActiveOf(ToSet(UntilCorrupt(lines)))
  BY UntilCorruptIsPart, ActiveByEvent DEF GetActiveReflexes
<1>2. Undamaged => GetActiveReflexes = ActiveOf(Hot)
  BY <1>1, UntilCorruptIsPart DEF LedgerInv, UndamagedInv
<1>3. cpc = "truncated" => ActiveIn(Retained) = ActiveOf(ToSet(Retained))
  <2> SUFFICES ASSUME cpc = "truncated" PROVE ActiveIn(Retained) = ActiveOf(ToSet(Retained))
    OBVIOUS
  <2>1. Retained \in Seq(Event) /\ Increasing(Retained)
    BY LedgerAssumption, SnapshotIsSplit DEF LedgerInv, TypeOK, StoredInv, OrderInv
  <2> QED BY <2>1, ActiveByEvent
<1> QED BY <1>1, <1>2, <1>3 DEF Shown, InForce

LEMMA ShownIsActiveNext == LedgerInv' /\ Undamaged' => (Shown = ActiveOf(InForce))'
<1>1. LedgerInv /\ Undamaged => Shown = ActiveOf(InForce)
  BY ShownIsActive
<1> QED BY <1>1, PTL

----------------------------------------------------------------------------
(* The invariant of the ledger of orders *)

ReflexInv == LedgerInv /\ OrderTypes

\* A step on the orders is a step of their file.
LEMMA ReflexStepIsFileStep == [ReflexNext]_reflexVars => [Next]_vars
BY DEF ReflexNext, ApprovePromotion, DisableReflex, FailedOrder, Housekeeping, reflexVars, Next,
       Compactor

\* Orders are given to the event that is appended, and never change.
LEMMA OrderTypesKept ==
  ASSUME LedgerInv, OrderTypes, [ReflexNext]_reflexVars
  PROVE  OrderTypes'
<1>0. /\ order \in [Event -> [pattern : Patterns \cup {"none"},
                              status : {"active_local", "disabled", "none"}]]
      /\ \A e \in stored : order[e].status # "none"
      /\ stored \subseteq Event
  BY DEF OrderTypes, LedgerInv, TypeOK
<1>1. ASSUME NEW p \in Patterns, NEW s \in {"active_local", "disabled"}, Append1,
             order' = [order EXCEPT ![nextId] = [pattern |-> p, status |-> s]]
      PROVE  OrderTypes'
  <2>1. stored' = stored \cup {nextId} /\ nextId \in Event
    BY <1>1 DEF Append1, CanWrite, LedgerInv, TypeOK, Event
  <2>2. order' \in [Event -> [pattern : Patterns \cup {"none"},
                              status : {"active_local", "disabled", "none"}]]
    BY <1>0, <1>1
  <2>3. \A e \in stored' : order'[e].status # "none"
    BY <1>0, <1>1, <2>1
  <2> QED BY <2>2, <2>3 DEF OrderTypes
<1>2. ASSUME stored' = stored, order' = order PROVE OrderTypes'
  BY <1>0, <1>2 DEF OrderTypes
<1>3. ASSUME NEW p \in Patterns, ApprovePromotion(p) PROVE OrderTypes'
  BY <1>1, <1>3 DEF ApprovePromotion
<1>4. ASSUME NEW p \in Patterns, DisableReflex(p) PROVE OrderTypes'
  BY <1>1, <1>4 DEF DisableReflex
<1>5. CASE FailedOrder \/ Housekeeping \/ UNCHANGED reflexVars
  <2>1. stored' = stored /\ order' = order
    BY <1>5 DEF FailedOrder, ShortWrite, Housekeeping, Compactor, CompactRead, CompactArchive,
                CompactTruncate, CompactRewrite, CompactCrash, writerVars, reflexVars, vars
  <2> QED BY <1>2, <2>1
<1> QED BY <1>3, <1>4, <1>5 DEF ReflexNext

\* The file's invariant holds of the file of orders, and the orders are typed.
THEOREM ReflexInvariant == ReflexSpec => []ReflexInv
<1>1. ReflexInit => ReflexInv
  <2> SUFFICES ASSUME ReflexInit PROVE ReflexInv
    OBVIOUS
  <2>1. LedgerInv
    BY LedgerAssumption, InitLedgerInv DEF ReflexInit
  <2>2. OrderTypes
    BY DEF ReflexInit, Init, NoOrder, OrderTypes
  <2> QED BY <2>1, <2>2 DEF ReflexInv
<1>2. ReflexInv /\ [ReflexNext]_reflexVars => ReflexInv'
  <2> SUFFICES ASSUME ReflexInv, [ReflexNext]_reflexVars PROVE ReflexInv'
    OBVIOUS
  <2>1. LedgerInv'
    BY ReflexStepIsFileStep, LedgerKept DEF ReflexInv
  <2>2. OrderTypes'
    BY OrderTypesKept DEF ReflexInv
  <2> QED BY <2>1, <2>2 DEF ReflexInv
<1> QED BY <1>1, <1>2, PTL DEF ReflexSpec

\* No reflex is active that the operator never approved, whatever is cut, lost
\* or left by a dead compactor: get_active_reflexes beside approve_promotion.
THEOREM ActivationsWereOrdered == ReflexSpec => []ActivationWasOrdered
<1>1. ReflexInv => ActivationWasOrdered
  <2> SUFFICES ASSUME ReflexInv, NEW p \in GetActiveReflexes
               PROVE  \E e \in OrdersFor(p) : order[e].status = "active_local"
    BY DEF ActivationWasOrdered
  <2>1. p \in ActiveOf(ToSet(UntilCorrupt(lines)))
    BY ShownIsActive DEF ReflexInv
  <2>2. PICK e \in ToSet(UntilCorrupt(lines)) : order[e] = Approval(p)
    BY <2>1 DEF ActiveOf
  <2>3. e \in stored
    BY UntilCorruptIsPart DEF ReflexInv, LedgerInv, StoredInv
  <2>4. order[e].pattern = p /\ order[e].status = "active_local"
    BY <2>2 DEF Approval
  <2> QED BY <2>3, <2>4 DEF OrdersFor
<1> QED BY <1>1, ReflexInvariant, PTL

\* Until it is damaged, every stored order is in the file or in an archive, and
\* what is archived only is older than the file.
LEMMA OrdersAreKept ==
  ASSUME LedgerInv, Undamaged, cpc # "truncated"
  PROVE  stored \subseteq Hot \cup Archived /\ Below(Archived \ Hot, Hot)
<1>1. Lost = {}
  <2>1. Cardinality(Lost) + (IF torn THEN 1 ELSE 0) <= 0 /\ torn \in BOOLEAN
    BY DEF LedgerInv, LossInv, Undamaged, TypeOK
  <2>2. IsFiniteSet(Lost) /\ Cardinality(Lost) \in Nat
    BY LedgerAssumption, LostIsFinite DEF LedgerInv
  <2>3. Cardinality(Lost) = 0
    BY <2>1, <2>2
  <2> QED BY <2>2, <2>3, FS_EmptySet
<1>2. ToSet(snapshot) \subseteq Hot
  <2>1. CASE cpc = "idle"
    <3>1. snapshot = <<>>
      BY <2>1 DEF LedgerInv, StoredInv
    <3> QED BY <3>1 DEF ToSet
  <2>2. CASE cpc \in {"read", "archived"}
    BY <2>2 DEF LedgerInv, UndamagedInv
  <2> QED BY <2>1, <2>2 DEF LedgerInv, TypeOK
<1>3. stored \subseteq Hot \cup Archived
  BY <1>1, <1>2 DEF Lost, Undamaged
<1>4. Below(Archived \ Hot, Hot)
  BY DEF LedgerInv, UndamagedInv, TypeOK, Below
<1> QED BY <1>3, <1>4

\* Among the orders on a pattern there is a last one.
LEMMA LastOrderIsLast ==
  ASSUME LedgerInv, NEW p \in Patterns, OrdersFor(p) # {}
  PROVE  LastOrder(p) \in OrdersFor(p) /\ \A f \in OrdersFor(p) : f <= LastOrder(p)
<1>1. OrdersFor(p) \in SUBSET (0..MaxEvents) /\ MaxEvents \in Nat
  <2>1. OrdersFor(p) \subseteq Event
    BY DEF LedgerInv, TypeOK, OrdersFor
  <2> QED BY <2>1, LedgerAssumption DEF LedgerAssumption, Event
<1>2. \E e \in OrdersFor(p) : \A f \in OrdersFor(p) : f <= e
  BY <1>1, GreatestExists
<1> QED BY <1>2 DEF LastOrder

\* Until the file is damaged, the last order on a reflex decides, although the
\* compactor moves orders out of the file that the gate reads.
THEOREM LastOrderDecides == ReflexSpec => []LastOrderWins
<1>1. ReflexInv => LastOrderWins
  <2> SUFFICES ASSUME ReflexInv, Undamaged, cpc # "truncated",
                      NEW p \in Patterns, OrdersFor(p) # {}
               PROVE  /\ Disabled(p) => p \notin GetActiveReflexes
                      /\ ~Disabled(p) /\ LastOrder(p) \in Hot => p \in GetActiveReflexes
    BY DEF LastOrderWins, Disabled
  <2> DEFINE last == LastOrder(p)
  <2>0. LedgerInv /\ OrderTypes /\ GetActiveReflexes = ActiveOf(Hot)
    BY ShownIsActive DEF ReflexInv
  <2>1. last \in OrdersFor(p) /\ \A f \in OrdersFor(p) : f <= last
    BY <2>0, LastOrderIsLast
  <2>2. stored \subseteq Hot \cup Archived /\ Below(Archived \ Hot, Hot)
    BY <2>0, OrdersAreKept
  <2>3. Hot \subseteq stored /\ stored \subseteq Event
    BY <2>0 DEF LedgerInv, StoredInv, TypeOK
  <2>4. last \in stored /\ order[last].pattern = p /\ last \in Event
    BY <2>1, <2>3 DEF OrdersFor
  <2>5. Event \subseteq Nat
    BY DEF Event
  <2> HIDE DEF last
  <2>6. ASSUME Disabled(p), p \in GetActiveReflexes PROVE FALSE
    <3>1. PICK e \in Hot : order[e] = Approval(p) /\ \A f \in Hot : f > e => order[f].pattern # p
      BY <2>0, <2>6 DEF ActiveOf
    <3>2. e \in OrdersFor(p) /\ order[e].status = "active_local"
      BY <2>3, <3>1 DEF OrdersFor, Approval
    <3>3. order[last].status = "disabled"
      BY <2>6 DEF Disabled, last
    <3>4. last > e
      <4>1. e <= last /\ e # last
        BY <2>1, <3>2, <3>3
      <4> QED BY <2>3, <2>4, <2>5, <4>1
    <3>5. last \notin Hot
      BY <2>4, <3>1, <3>4
    <3>6. last < e
      BY <2>2, <2>4, <3>5 DEF Below
    <3> QED BY <2>3, <2>4, <2>5, <3>4, <3>6
  <2>7. ASSUME ~Disabled(p), last \in Hot PROVE p \in GetActiveReflexes
    <3>1. order[last].status = "active_local"
      <4>1. order[last].status # "disabled"
        BY <2>7 DEF Disabled, last
      <4> QED BY <2>0, <2>4, <4>1 DEF OrderTypes
    <3>2. order[last] = Approval(p)
      BY <2>0, <2>4, <3>1 DEF OrderTypes, Approval
    <3>3. \A f \in Hot : f > last => order[f].pattern # p
      <4> SUFFICES ASSUME NEW f \in Hot, f > last, order[f].pattern = p PROVE FALSE
        OBVIOUS
      <4>1. f <= last
        BY <2>1, <2>3 DEF OrdersFor
      <4> QED BY <2>3, <2>4, <2>5, <4>1
    <3> QED BY <2>0, <2>7, <3>2, <3>3 DEF ActiveOf
  <2> QED BY <2>6, <2>7 DEF last
<1> QED BY <1>1, ReflexInvariant, PTL

----------------------------------------------------------------------------
(* The refinement of the registry of active reflexes *)

\* Damage is for ever.
LEMMA DamageRemains ==
  ASSUME LedgerInv, [ReflexNext]_reflexVars, Undamaged'
  PROVE  Undamaged
<1>1. [Next]_vars
  BY ReflexStepIsFileStep
<1>2. corrupted \in Nat /\ (corrupted' = corrupted \/ corrupted' = corrupted + 1)
  BY <1>1 DEF LedgerInv, TypeOK, Next, Append1, ShortWrite, Compactor, CompactRead, CompactArchive,
              CompactTruncate, CompactRewrite, CompactCrash, CacheStat, CacheFill, writerVars, vars
<1>3. exposed \subseteq exposed'
  BY <1>1 DEF Next, Append1, ShortWrite, Compactor, CompactRead, CompactArchive,
              CompactTruncate, CompactRewrite, CompactCrash, CacheStat, CacheFill, writerVars, vars
<1>4. corrupted' = 0 /\ exposed' = {}
  BY DEF Undamaged
<1>5. corrupted = 0
  BY <1>2, <1>4
<1> QED BY <1>3, <1>4, <1>5 DEF Undamaged

\* An order that leaves the file undamaged adds itself to those in force, where
\* it is the youngest.
LEMMA OrderIsYoungest ==
  ASSUME LedgerInv, Undamaged, Undamaged', Append1
  PROVE  /\ InForce' = InForce \cup {nextId}
         /\ \A e \in InForce : e # nextId /\ nextId > e /\ ~(e > nextId)
         /\ nextId \in Event /\ ~(nextId > nextId)
<1>1. nextId \in Event /\ nextId \in Nat /\ nextId # Corrupt
  BY DEF LedgerInv, TypeOK, Append1, CanWrite, Event, Corrupt
<1>2. cpc = "idle" /\ cpc' = "idle" /\ ~torn
  BY DEF Append1, Undamaged, compVars, LedgerInv, UndamagedInv
<1>3. \A e \in Hot : e \in Nat /\ e < nextId
  BY <1>1 DEF LedgerInv, StoredInv
<1>4. /\ lines' = Append(lines, nextId)
      /\ EventsOf(Append(lines, nextId)) = Hot \cup ({nextId} \ {Corrupt})
  <2>1. lines' = Append(lines, nextId)
    BY <1>2 DEF Append1
  <2> QED BY <1>1, <1>3, <2>1, LineAppended DEF LedgerInv, TypeOK, OrderInv
<1>5. Hot' = Hot \cup {nextId}
  BY <1>1, <1>4 DEF Hot, EventsOf
<1>6. InForce = Hot /\ InForce' = Hot'
  BY <1>2 DEF InForce
<1> QED BY <1>1, <1>3, <1>5, <1>6

\* An order on p, as the gate will read it.
LEMMA OrderChangesOne ==
  ASSUME LedgerInv, OrderTypes, Undamaged, Undamaged', Append1,
         NEW p \in Patterns, NEW s \in {"active_local", "disabled"},
         order' = [order EXCEPT ![nextId] = [pattern |-> p, status |-> s]]
  PROVE  ActiveOf(InForce)' =
           IF s = "active_local" THEN ActiveOf(InForce) \cup {p} ELSE ActiveOf(InForce) \ {p}
<1> DEFINE now == InForce
           given == now \cup {nextId}
           new == [order EXCEPT ![nextId] = [pattern |-> p, status |-> s]]
<1>1. /\ InForce' = given
      /\ \A e \in now : e # nextId /\ nextId > e /\ ~(e > nextId)
      /\ nextId \in Event /\ ~(nextId > nextId)
  BY OrderIsYoungest
<1>2. now \subseteq Event
  <2>1. CASE cpc = "truncated"
    <3>1. Retained \in Seq(Event)
      BY <2>1, LedgerAssumption, SnapshotIsSplit DEF LedgerInv, TypeOK, StoredInv, OrderInv
    <3> QED BY <2>1, <3>1 DEF InForce, ToSet
  <2>2. CASE cpc # "truncated"
    BY <2>2 DEF InForce, LedgerInv, StoredInv, TypeOK
  <2> QED BY <2>1, <2>2
<1> HIDE DEF now
<1>3. /\ new[nextId] = [pattern |-> p, status |-> s]
      /\ \A e \in now : new[e] = order[e]
  BY <1>1, <1>2 DEF OrderTypes
<1> HIDE DEF new
<1>4. ActiveOf(InForce)' =
        {q \in Patterns : \E e \in given :
           new[e] = Approval(q) /\ \A f \in given : f > e => new[f].pattern # q}
  BY <1>1 DEF ActiveOf, Approval, new
<1>5. ActiveOf(InForce) =
        {q \in Patterns : \E e \in now :
           order[e] = Approval(q) /\ \A f \in now : f > e => order[f].pattern # q}
  BY DEF ActiveOf, now
<1>6. ASSUME NEW q \in Patterns, q # p
      PROVE  (\E e \in given : new[e] = Approval(q) /\ \A f \in given : f > e => new[f].pattern # q)
               <=> (\E e \in now : order[e] = Approval(q) /\ \A f \in now : f > e => order[f].pattern # q)
  BY <1>1, <1>3, <1>6 DEF Approval
<1>7. (\E e \in given : new[e] = Approval(p) /\ \A f \in given : f > e => new[f].pattern # p)
        <=> s = "active_local"
  BY <1>1, <1>3 DEF Approval
<1> HIDE DEF given
<1>8. CASE s = "active_local"
  BY <1>4, <1>5, <1>6, <1>7, <1>8
<1>9. CASE s = "disabled"
  BY <1>4, <1>5, <1>6, <1>7, <1>9
<1> QED BY <1>8, <1>9

\* The compactor only forgets, and forgets the oldest orders: what it retains
\* decides on fewer reflexes, in the same way.
LEMMA HousekeepingForgets ==
  ASSUME LedgerInv, LedgerInv', Undamaged, Undamaged', Housekeeping
  PROVE  ActiveOf(InForce)' \subseteq ActiveOf(InForce)
<1>1. order' = order
  BY DEF Housekeeping
<1>2. ASSUME InForce' = InForce PROVE ActiveOf(InForce)' \subseteq ActiveOf(InForce)
  BY <1>1, <1>2 DEF ActiveOf
<1>3. CASE CompactRead \/ CompactArchive
  <2>1. Hot' = Hot /\ cpc # "truncated" /\ cpc' # "truncated"
    BY <1>3 DEF CompactRead, CompactArchive, fileVars, Hot
  <2> QED BY <1>2, <2>1 DEF InForce
<1>4. CASE CompactTruncate
  <2>1. cpc = "archived" /\ cpc' = "truncated" /\ snapshot' = snapshot
    BY <1>4 DEF CompactTruncate
  <2>2. /\ ToSet(snapshot) = ToSet(ToArchive) \cup ToSet(Retained)
        /\ Below(ToSet(ToArchive), ToSet(Retained))
        /\ Retained \in Seq(Event) /\ ToArchive \in Seq(Event)
    BY <2>1, LedgerAssumption, SnapshotIsSplit DEF LedgerInv, TypeOK, StoredInv, OrderInv
  <2>3. InForce = ToSet(snapshot) /\ InForce' = ToSet(Retained)
    BY <2>1 DEF InForce, LedgerInv, UndamagedInv, Retained
  <2> DEFINE kept == ToSet(Retained)
             old == ToSet(ToArchive)
  <2>4. \A e \in kept, f \in old : ~(f > e)
    <3>1. kept \subseteq Nat /\ old \subseteq Nat
      BY <2>2, LedgerAssumption DEF ToSet, Event, LedgerAssumption
    <3> QED BY <2>2, <3>1 DEF Below
  <2> HIDE DEF kept, old
  <2>5. ActiveOf(kept) \subseteq ActiveOf(kept \cup old)
    BY <2>4 DEF ActiveOf
  <2>6. ActiveOf(InForce)' = ActiveOf(kept)
    BY <1>1, <2>3 DEF ActiveOf, kept
  <2> QED BY <2>2, <2>3, <2>5, <2>6 DEF kept, old
<1>5. CASE CompactRewrite
  <2>1. cpc = "truncated" /\ cpc' = "idle" /\ lines' \in WriteOver(Retained)
    BY <1>5 DEF CompactRewrite
  <2>2. Retained \in Seq(Event) /\ Increasing(Retained)
    BY <2>1, LedgerAssumption, SnapshotIsSplit DEF LedgerInv, TypeOK, StoredInv, OrderInv
  <2>3. lines = <<>>
    BY <2>1 DEF LedgerInv, UndamagedInv
  <2>4. lines' = Retained
    <3>1. Below(ToSet(Retained), Hot)
      BY <2>3 DEF Below, Hot
    <3>2. PICK t \in WriteOver(Retained) : lines' = t
      BY <2>1
    <3> QED BY <2>2, <2>3, <3>1, <3>2, WriteOverKeeps DEF LedgerInv, TypeOK, OrderInv
  <2>5. Hot' = ToSet(Retained)
    <3> DEFINE kept == Retained
    <3>1. kept \in Seq(Event) /\ ToSet(kept) = {kept[i] : i \in 1..Len(kept)}
      BY <2>2 DEF ToSet
    <3>2. Corrupt \notin Event
      BY DEF Event, Corrupt
    <3>3. lines' = kept
      BY <2>4
    <3> HIDE DEF kept
    <3>4. \A i \in 1..Len(kept) : kept[i] # Corrupt
      BY <3>1, <3>2
    <3>5. {kept[i] : i \in {j \in 1..Len(kept) : kept[j] # Corrupt}} = ToSet(kept)
      BY <3>1, <3>4
    <3>6. Hot' = ToSet(kept)
      BY <3>3, <3>5 DEF Hot
    <3> QED BY <3>6 DEF kept
  <2> QED BY <1>2, <2>1, <2>5 DEF InForce
<1>6. CASE CompactCrash
  <2>1. cpc # "idle" /\ exposed' = exposed \cup ToSet(snapshot)
    BY <1>6 DEF CompactCrash
  <2>2. Len(snapshot) \in Nat /\ Len(snapshot) > 0 /\ snapshot \in Seq(Event)
    <3>1. KeepRecent \in Nat /\ snapshot \in Seq(Event) /\ Len(snapshot) > KeepRecent
      BY <2>1, LedgerAssumption DEF LedgerAssumption, LedgerInv, TypeOK, StoredInv
    <3> QED BY <3>1
  <2>3. snapshot[1] \in ToSet(snapshot)
    BY <2>2 DEF ToSet
  <2> QED BY <2>1, <2>3 DEF Undamaged
<1> QED BY <1>3, <1>4, <1>5, <1>6 DEF Housekeeping, Compactor

\* The gate's reading of the file implements the registry: each step of the
\* operator, of the disk and of the compactor approves one reflex, disables one
\* or forgets some.
THEOREM GateImplementsRegistry == ReflexSpec => ImplementsRegistry
<1>1. ReflexInit => Registry!RegistryInit
  <2> SUFFICES ASSUME ReflexInit PROVE Shown = {}
    BY DEF Registry!RegistryInit, Shown
  <2>1. LedgerInv
    BY LedgerAssumption, InitLedgerInv DEF ReflexInit
  <2>2. lines = <<>> /\ Undamaged /\ cpc = "idle"
    BY DEF ReflexInit, Init, Undamaged
  <2>3. Hot = {}
    BY <2>2 DEF Hot
  <2>4. Shown = ActiveOf({})
    BY <2>1, <2>2, <2>3, ShownIsActive DEF InForce
  <2> QED BY <2>4 DEF ActiveOf
<1>2. ReflexInv /\ ReflexInv' /\ [ReflexNext]_reflexVars => [Registry!RegistryNext]_Shown
  <2> SUFFICES ASSUME ReflexInv, ReflexInv', [ReflexNext]_reflexVars
               PROVE  [Registry!RegistryNext]_Shown
    OBVIOUS
  <2>0. LedgerInv /\ OrderTypes /\ LedgerInv'
    BY DEF ReflexInv
  <2>1. ASSUME Shown' \subseteq Shown PROVE [Registry!RegistryNext]_Shown
    BY <2>1 DEF Registry!RegistryNext, Registry!Forget, Shown
  <2>2. CASE ~Undamaged'
    <3>1. Shown' = {}
      BY <2>2 DEF Shown
    <3> QED BY <2>1, <3>1
  <2>3. CASE Undamaged'
    <3>1. Undamaged
      BY <2>0, <2>3, DamageRemains
    <3>2. Shown = ActiveOf(InForce) /\ Shown' = ActiveOf(InForce)'
      BY <2>0, <2>3, <3>1, ShownIsActive, ShownIsActiveNext
    <3>3. ASSUME NEW p \in Patterns, ApprovePromotion(p) PROVE [Registry!RegistryNext]_Shown
      <4>1. Append1 /\ order' = [order EXCEPT ![nextId] = [pattern |-> p, status |-> "active_local"]]
        BY <3>3 DEF ApprovePromotion
      <4>2. Shown' = Shown \cup {p}
        BY <2>0, <2>3, <3>1, <3>2, <4>1, OrderChangesOne
      <4> QED BY <4>2 DEF Registry!RegistryNext, Registry!Approve, Shown
    <3>4. ASSUME NEW p \in Patterns, DisableReflex(p) PROVE [Registry!RegistryNext]_Shown
      <4>1. Append1 /\ order' = [order EXCEPT ![nextId] = [pattern |-> p, status |-> "disabled"]]
        BY <3>4 DEF DisableReflex
      <4>2. Shown' = Shown \ {p}
        BY <2>0, <2>3, <3>1, <3>2, <4>1, OrderChangesOne
      <4> QED BY <4>2 DEF Registry!RegistryNext, Registry!Disable, Shown
    <3>5. CASE FailedOrder
      <4>1. corrupted' = corrupted + 1 /\ corrupted \in Nat /\ corrupted' = 0
        BY <2>0, <2>3, <3>5 DEF FailedOrder, ShortWrite, Undamaged, LedgerInv, TypeOK
      <4> QED BY <4>1
    <3>6. CASE Housekeeping
      BY <2>0, <2>1, <2>3, <3>1, <3>2, <3>6, HousekeepingForgets
    <3>7. CASE UNCHANGED reflexVars
      <4>1. lines' = lines /\ cpc' = cpc /\ snapshot' = snapshot /\ order' = order
        BY <3>7 DEF reflexVars, vars, fileVars, compVars
      <4>2. InForce' = InForce
        BY <4>1 DEF InForce, Hot, Retained
      <4>3. ActiveOf(InForce)' = ActiveOf(InForce)
        BY <4>1, <4>2 DEF ActiveOf
      <4> QED BY <2>1, <3>2, <4>3
    <3> QED BY <3>3, <3>4, <3>5, <3>6, <3>7 DEF ReflexNext
  <2> QED BY <2>2, <2>3
<1> QED BY <1>1, <1>2, ReflexInvariant, PTL DEF ReflexSpec, ImplementsRegistry, Registry!RegistrySpec, Shown
=============================================================================
