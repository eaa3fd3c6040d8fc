--------------------------- MODULE SkillPipeline ---------------------------
(***************************************************************************)
(* From a generated candidate to code that runs.  GenesisAnalysis writes a *)
(* candidate into the quarantine directory, from a thread of the executor; *)
(* the operator reviews it (/review), and may repair it by hand; /promote  *)
(* has SkillPromotionGate assess it and SkillExperimentalPromoter copy it  *)
(* to the experimental directory, the shelf, over a backup of what is      *)
(* there; DynamicSkillLoader runs what the shelf holds, from the           *)
(* dispatcher or from another process (--experimental-skill).              *)
(***************************************************************************)
EXTENDS Naturals, Sequences, FiniteSets

CONSTANTS
  Candidates,     \* candidate files, named by intent and hash of the proposal
  Texts,          \* what a candidate file may hold
  CriticalTexts,  \* texts with eval(, exec( or subprocess in them
  Answers,        \* answers of the LLM: whose candidate, fenced or not, and how
                  \* many functions they define (none if they do not parse)
  Proposal,       \* [Candidates -> Texts]: the module the analysis builds
  Repairs,        \* what the operator may write by hand
  Dependent,      \* candidates that need a reviewed dependency (pypdf)
  Tested,         \* candidates with a test file
  Shipped,        \* [Candidates -> ...]: the shelf that earlier sessions left
  AllowList,      \* GREYS_EXPERIMENTAL_SKILL_ALLOWLIST
  Window,         \* limit of load_review_history
  MaxVerdicts,    \* bound: verdicts in the review ledger
  MaxEdits,       \* bound: repairs by hand
  MaxPromotions,  \* bound: promotions that pass the gate
  LastSecond      \* bound: seconds of the clock that names the backups

ASSUME PipelineAssumption ==
  /\ CriticalTexts \subseteq Texts
  /\ {"absent", "cut"} \cap Texts = {} /\ "none" \notin Candidates
  /\ Repairs \subseteq Texts
  /\ Answers \subseteq [candidate : Candidates, fenced : BOOLEAN, functions : Nat]
  /\ Proposal \in [Candidates -> Texts]
  /\ Dependent \subseteq Candidates
  /\ Tested \subseteq Candidates
  /\ Shipped \in [Candidates -> (Texts \ CriticalTexts) \cup {"absent"}]
  /\ AllowList \subseteq Candidates
  /\ Window \in Nat \ {0}
  /\ {MaxVerdicts, MaxEdits, MaxPromotions, LastSecond} \subseteq Nat

VARIABLES
  quarantine,  \* the candidate files
  writing,     \* the candidate whose file the executor's thread is writing
  ledger,      \* the review ledger, in order of writing
  dependency,  \* the last record about the dependency allows and approves it
  edits,       \* repairs made
  shelf,       \* the experimental directory, by candidate
  backups,     \* backup files, named by skill and second
  second,      \* int(time.time())
  promotions,  \* promotions that passed the gate
  promotion,   \* where /promote stands, about which candidate, and the
               \* backup it can fall back on
  scanned,     \* history: the text the assessment under way has seen
  overtaken,   \* history: candidates rewritten between assessment and copy
  good,        \* history: the last whole text a promotion put on the shelf
  unsaved,     \* history: candidates whose backup failed or was overwritten
  ran          \* history: what the loader has executed

filesVars == <<quarantine, writing, edits>>
reviewVars == <<ledger, dependency>>
shelfVars == <<shelf, backups, second, promotions, promotion, unsaved>>
promoteHist == <<scanned, overtaken, good>>
vars == <<filesVars, reviewVars, shelfVars, promoteHist, ran>>

\* No file; a file that was opened for writing and not written to its end.
Absent == "absent"
Cut == "cut"
None == "none"

Content == Texts \cup {Absent, Cut}

Approved == "approved_for_future_promotion"

\* The other verdicts block a promotion alike.
Verdicts == {Approved, "rejected_by_human"}

Verdict == [candidate : Candidates, status : Verdicts]

Backup == [candidate : Candidates, second : 0..LastSecond, text : Texts \cup {Cut}]

Idle == [step |-> "idle", candidate |-> None, backup |-> Absent]

----------------------------------------------------------------------------
PipelineInit ==
  /\ quarantine = [c \in Candidates |-> Absent]
  /\ writing = None
  /\ ledger = <<>>
  /\ dependency = FALSE
  /\ edits = 0
  /\ shelf = Shipped
  /\ backups = {}
  /\ second = 0
  /\ promotions = 0
  /\ promotion = Idle
  /\ scanned = Absent
  /\ overtaken = {}
  /\ good = Shipped
  /\ unsaved = {}
  /\ ran = {}

Tick ==
  /\ second < LastSecond
  /\ second' = second + 1
  /\ UNCHANGED <<filesVars, reviewVars, shelf, backups, promotions, promotion, unsaved, promoteHist, ran>>

----------------------------------------------------------------------------
(* Quarantine *)

\* An answer that cannot be normalised, or split into imports and one function,
\* leaves nothing.
Proposable(a) == ~a.fenced /\ a.functions = 1

\* Whatever the checks of its shape and of its AST reported, the file is opened
\* for writing: a proposal made before is written over.
Analyse(a) ==
  /\ Proposable(a)
  /\ writing = None
  /\ writing' = a.candidate
  /\ quarantine' = [quarantine EXCEPT ![a.candidate] = Cut]
  /\ UNCHANGED <<edits, reviewVars, shelfVars, promoteHist, ran>>

FinishWriting ==
  /\ writing # None
  /\ quarantine' = [quarantine EXCEPT ![writing] = Proposal[writing]]
  /\ writing' = None
  /\ UNCHANGED <<edits, reviewVars, shelfVars, promoteHist, ran>>

\* The disk fills.
FailWriting ==
  /\ writing # None
  /\ writing' = None
  /\ UNCHANGED <<quarantine, edits, reviewVars, shelfVars, promoteHist, ran>>

\* The operator repairs or adds a candidate in place: candidates without a hash
\* in their name were made this way.
EditByHand(c, t) ==
  /\ edits < MaxEdits
  /\ writing # c
  /\ edits' = edits + 1
  /\ quarantine' = [quarantine EXCEPT ![c] = t]
  /\ UNCHANGED <<writing, reviewVars, shelfVars, promoteHist, ran>>

----------------------------------------------------------------------------
(* Review *)

\* The last verdict on a candidate among the records from the oldest on.
LastVerdictIs(c, status, oldest) ==
  \E i \in oldest..Len(ledger) :
    /\ ledger[i] = [candidate |-> c, status |-> status]
    /\ \A j \in (i + 1)..Len(ledger) : ledger[j].candidate # c

OldestRead == IF Len(ledger) > Window THEN Len(ledger) - Window + 1 ELSE 1

\* The first verdict in the window in place of the last.
HumanApprovedFirst(c) ==
  \E i \in OldestRead..Len(ledger) :
    /\ ledger[i] = [candidate |-> c, status |-> Approved]
    /\ \A j \in OldestRead..(i - 1) : ledger[j].candidate # c

\* get_candidate_status
HumanApproved(c) == LastVerdictIs(c, Approved, OldestRead)

\* The console reads its next command.
ConsoleReads == promotion.step = "idle"

\* /review: the verdict is recorded under the file's name.
MarkCandidateStatus(c, status) ==
  /\ ConsoleReads
  /\ Len(ledger) < MaxVerdicts
  /\ quarantine[c] # Absent
  /\ ledger' = Append(ledger, [candidate |-> c, status |-> status])
  /\ UNCHANGED <<dependency, filesVars, shelfVars, promoteHist, ran>>

\* A review of the dependency is appended by hand; the last one counts.
ReviewDependency ==
  /\ dependency' = ~dependency
  /\ UNCHANGED <<ledger, filesVars, shelfVars, promoteHist, ran>>

----------------------------------------------------------------------------
(* Promotion *)

\* list_candidates looks for the calls in the text of the file.
CriticalCallsFound(c) == quarantine[c] \in CriticalTexts

\* The gate without the AST criterion.
CanPromoteUnscanned(c) ==
  /\ quarantine[c] # Absent
  /\ HumanApproved(c)
  /\ c \in Dependent => dependency
  /\ c \in Tested

\* assess_candidate.  Calls of os and sys block only what is not approved, and
\* sandbox_safe is false of no approved candidate, so neither decides here; a
\* file that is being written holds nothing dangerous yet.
CanPromote(c) ==
  /\ quarantine[c] # Absent
  /\ HumanApproved(c)
  /\ ~CriticalCallsFound(c)
  /\ c \in Dependent => dependency
  /\ c \in Tested

\* A blocked promotion changes no file but its log.
Assess(c) ==
  /\ ConsoleReads
  /\ CanPromote(c)
  /\ promotions < MaxPromotions
  /\ promotions' = promotions + 1
  /\ promotion' = [step |-> "assessed", candidate |-> c, backup |-> Absent]
  /\ scanned' = quarantine[c]
  /\ UNCHANGED <<overtaken, good, filesVars, reviewVars, shelf, backups, second, unsaved, ran>>

\* One backup for each skill, whatever the second.
BackupSlotOfSkill(b, c) == b.candidate = c

\* The backup a copy of this second would overwrite.
BackupSlot(b, c) == b.candidate = c /\ b.second = second

CreateBackup ==
  LET c == promotion.candidate
      slot == {b \in backups : BackupSlot(b, c)}
  IN
  /\ promotion.step = "assessed"
  /\ shelf[c] # Absent
  /\ backups' = (backups \ slot) \cup {[candidate |-> c, second |-> second, text |-> shelf[c]]}
  /\ promotion' = [promotion EXCEPT !.step = "ready", !.backup = shelf[c]]
  /\ unsaved' = unsaved \cup {b.candidate : b \in {a \in backups : a.candidate = c /\ a.second = second}}
  /\ UNCHANGED <<shelf, second, promotions, filesVars, reviewVars, promoteHist, ran>>

\* The failure is logged and the promotion goes on without a way back.
BackupFails ==
  LET c == promotion.candidate
      slot == {b \in backups : BackupSlot(b, c)}
  IN
  /\ promotion.step = "assessed"
  /\ shelf[c] # Absent
  /\ backups' \in {backups,
                   (backups \ slot) \cup {[candidate |-> c, second |-> second, text |-> Cut]}}
  /\ promotion' = [promotion EXCEPT !.step = "ready"]
  /\ unsaved' = unsaved \cup {c}
  /\ UNCHANGED <<shelf, second, promotions, filesVars, reviewVars, promoteHist, ran>>

NothingToBackUp ==
  /\ promotion.step = "assessed"
  /\ shelf[promotion.candidate] = Absent
  /\ promotion' = [promotion EXCEPT !.step = "ready"]
  /\ UNCHANGED <<shelf, backups, second, promotions, unsaved, filesVars, reviewVars, promoteHist, ran>>

\* shutil.copy2 reads the candidate again; a failure to log is swallowed.
CopyCandidate ==
  LET c == promotion.candidate
      text == quarantine[c]
  IN
  /\ promotion.step = "ready"
  /\ shelf' = [shelf EXCEPT ![c] = text]
  /\ overtaken' = IF text = scanned THEN overtaken ELSE overtaken \cup {c}
  /\ good' = IF text \in Texts THEN [good EXCEPT ![c] = text] ELSE good
  /\ unsaved' = IF text \in Texts THEN unsaved \ {c} ELSE unsaved
  /\ promotion' = Idle
  /\ scanned' = Absent
  /\ UNCHANGED <<backups, second, promotions, filesVars, reviewVars, ran>>

\* The copy fails before or after the destination was opened.
CopyFails ==
  LET c == promotion.candidate
  IN
  /\ promotion.step = "ready"
  /\ \/ UNCHANGED shelf
     \/ shelf' = [shelf EXCEPT ![c] = Cut]
  /\ scanned' = Absent
  /\ promotion' = IF promotion.backup = Absent
                  THEN Idle ELSE [promotion EXCEPT !.step = "failed"]
  /\ UNCHANGED <<backups, second, promotions, unsaved, overtaken, good, filesVars, reviewVars, ran>>

Rollback ==
  LET c == promotion.candidate
  IN
  /\ promotion.step = "failed"
  /\ \/ shelf' = [shelf EXCEPT ![c] = promotion.backup]
     \/ shelf' = [shelf EXCEPT ![c] = Cut]
     \/ UNCHANGED shelf
  /\ promotion' = Idle
  /\ scanned' = Absent
  /\ UNCHANGED <<backups, second, promotions, unsaved, overtaken, good, filesVars, reviewVars, ran>>

\* The process dies in the middle of a promotion or of a write.
Crash ==
  /\ promotion.step # "idle" \/ writing # None
  /\ \/ UNCHANGED shelf
     \/ /\ promotion.step \in {"ready", "failed"}
        /\ shelf' = [shelf EXCEPT ![promotion.candidate] = Cut]
  /\ promotion' = Idle
  /\ scanned' = Absent
  /\ writing' = None
  /\ UNCHANGED <<quarantine, edits, reviewVars, backups, second, promotions, unsaved, overtaken, good, ran>>

----------------------------------------------------------------------------
(* Execution *)

\* execute_skill reads the file anew; one that is cut does not load, since the
\* entrypoint is the last thing it defines.
ExecuteSkill(c) ==
  /\ c \in AllowList
  /\ shelf[c] \in Texts
  /\ ran' = ran \cup {<<c, shelf[c]>>}
  /\ UNCHANGED <<filesVars, reviewVars, shelfVars, promoteHist>>

PipelineNext ==
  \/ Tick
  \/ \E a \in Answers : Analyse(a)
  \/ FinishWriting
  \/ FailWriting
  \/ \E c \in Candidates, t \in Repairs : EditByHand(c, t)
  \/ \E c \in Candidates, s \in Verdicts : MarkCandidateStatus(c, s)
  \/ ReviewDependency
  \/ \E c \in Candidates : Assess(c)
  \/ CreateBackup
  \/ BackupFails
  \/ NothingToBackUp
  \/ CopyCandidate
  \/ CopyFails
  \/ Rollback
  \/ Crash
  \/ \E c \in Candidates : ExecuteSkill(c)

PipelineSpec == PipelineInit /\ [][PipelineNext]_vars

----------------------------------------------------------------------------
(* Properties *)

(* A candidate under promotion is named, and its backup is remembered, only   *)
(* between the assessment and the end of the command.                        *)
PipeTypeOK ==
  /\ quarantine \in [Candidates -> Content]
  /\ writing \in Candidates \cup {None}
  /\ ledger \in Seq(Verdict)
  /\ dependency \in BOOLEAN
  /\ edits \in 0..MaxEdits
  /\ promotions \in 0..MaxPromotions
  /\ shelf \in [Candidates -> Content]
  /\ backups \subseteq Backup
  /\ second \in 0..LastSecond
  /\ promotion \in {Idle} \cup
       [step : {"assessed", "ready", "failed"}, candidate : Candidates, backup : Content]
  /\ scanned \in Content
  /\ overtaken \subseteq Candidates
  /\ good \in [Candidates -> Texts \cup {Absent}]
  /\ unsaved \subseteq Candidates
  /\ ran \subseteq Candidates \X Texts

(* A skill's file changes only while the last verdict ever given on its       *)
(* candidate is an approval: forgetting the verdicts beyond the window can    *)
(* withdraw an approval but revives none, and copies, failures, rollbacks and *)
(* crashes stay within the promotion that was approved.                      *)
ShelfNeedsApproval ==
  [][\A c \in Candidates :
       shelf'[c] # shelf[c] => LastVerdictIs(c, Approved, 1)]_vars

(* Code with a critical call is executed only if the candidate was rewritten  *)
(* between the scan and the copy of its promotion; approval alone, a restored *)
(* backup or an edit after the promotion do not get it to run.               *)
CriticalCodeOvertook ==
  \A r \in ran : r[2] \in CriticalTexts => r[1] \in overtaken

(* The last whole version of a skill survives on the shelf or in a backup,    *)
(* through failed copies, failed rollbacks, crashes and any number of         *)
(* retries, unless its backup failed or a second one in the same second       *)
(* replaced it.                                                              *)
VersionRecoverable ==
  \A c \in Candidates :
    \/ good[c] = Absent
    \/ shelf[c] = good[c]
    \/ \E b \in backups : b.candidate = c /\ b.text = good[c]
    \/ c \in unsaved
============================================================================
