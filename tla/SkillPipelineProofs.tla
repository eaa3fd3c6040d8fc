------------------------ MODULE SkillPipelineProofs ------------------------
(* Theorems about SkillPipeline, for any candidates, texts, windows and      *)
(* bounds: what changes the shelf, what gets to run, and what survives.      *)
EXTENDS SkillPipeline, TLAPS

\* The verdict a promotion relies on cannot change under it: the console is busy.
ApprovalInv ==
  promotion.step # "idle" => LastVerdictIs(promotion.candidate, Approved, 1)

\* Neither the shelf nor what a rollback would put back holds a critical call
\* that no overtaking accounts for.
CriticalInv ==
  /\ \A c \in Candidates : shelf[c] \in CriticalTexts => c \in overtaken
  /\ promotion.step # "idle" =>
       /\ scanned \notin CriticalTexts
       /\ promotion.backup \in CriticalTexts => promotion.candidate \in overtaken
  /\ CriticalCodeOvertook

\* The last whole version can be done without on the shelf.
Saved(c) ==
  \/ good[c] = Absent
  \/ \E b \in backups : b.candidate = c /\ b.text = good[c]
  \/ c \in unsaved

\* It is, once the shelf may be written to.
SavedInv ==
  /\ promotion.step \in {"ready", "failed"} => Saved(promotion.candidate)
  /\ \A c \in Candidates : shelf[c] = good[c] \/ Saved(c)

PipelineInv == PipeTypeOK /\ ApprovalInv /\ CriticalInv /\ SavedInv

\* What leaves the shelf, its backups and the promotion alone.
Aside ==
  \/ Tick \/ FinishWriting \/ FailWriting \/ ReviewDependency
  \/ \E a \in Answers : Analyse(a)
  \/ \E c \in Candidates, t \in Repairs : EditByHand(c, t)
  \/ \E c \in Candidates, s \in Verdicts : MarkCandidateStatus(c, s)
  \/ \E c \in Candidates : ExecuteSkill(c)

Promote ==
  \/ \E c \in Candidates : Assess(c)
  \/ CreateBackup \/ BackupFails \/ NothingToBackUp
  \/ CopyCandidate \/ CopyFails \/ Rollback \/ Crash

LEMMA NextIsSplit == PipelineNext => Aside \/ Promote
  BY DEF PipelineNext, Aside, Promote

----------------------------------------------------------------------------
LEMMA CandidateUnderPromotion ==
  ASSUME PipeTypeOK, promotion.step # "idle"
  PROVE  /\ promotion \in [step : {"assessed", "ready", "failed"}, candidate : Candidates,
                           backup : Content]
         /\ promotion.candidate \in Candidates /\ promotion.backup \in Content
  BY DEF PipeTypeOK, Idle

LEMMA InitPipelineInv ==
  ASSUME PipelineInit
  PROVE  PipelineInv
<1>1. Shipped \in [Candidates -> Texts \cup {Absent}] /\ Shipped \in [Candidates -> Content]
  BY PipelineAssumption DEF Absent, Content
<1>2. PipeTypeOK
  <2>1. quarantine \in [Candidates -> Content]
    BY DEF PipelineInit, Content
  <2>2. dependency \in BOOLEAN
    BY DEF PipelineInit
  <2>3. edits \in 0..MaxEdits /\ promotions \in 0..MaxPromotions /\ second \in 0..LastSecond
    BY PipelineAssumption DEF PipelineInit
  <2>4. ledger \in Seq(Verdict)
    BY DEF PipelineInit
  <2>5. QED
    BY <1>1, <2>1, <2>2, <2>3, <2>4 DEF PipelineInit, PipeTypeOK, Content
<1>3. ApprovalInv /\ SavedInv
  BY DEF PipelineInit, ApprovalInv, SavedInv, Idle
<1>4. CriticalInv
  BY PipelineAssumption DEF PipelineInit, CriticalInv, CriticalCodeOvertook, Idle
<1>5. QED
  BY <1>2, <1>3, <1>4 DEF PipelineInv

----------------------------------------------------------------------------
(* Types *)

LEMMA AsideKeepsTypes ==
  ASSUME PipeTypeOK, Aside
  PROVE  PipeTypeOK'
<1>. USE PipelineAssumption
<1>1. CASE Tick
  BY <1>1 DEF Tick, PipeTypeOK, filesVars, reviewVars, promoteHist
<1>2. CASE FinishWriting \/ FailWriting
  BY <1>2 DEF FinishWriting, FailWriting, PipeTypeOK, filesVars, reviewVars, shelfVars,
              promoteHist, Content, None
<1>3. CASE ReviewDependency
  <2>1. dependency' \in BOOLEAN
    BY <1>3, Zenon DEF ReviewDependency, PipeTypeOK
  <2>2. QED
    BY <1>3, <2>1 DEF ReviewDependency, PipeTypeOK, filesVars, shelfVars, promoteHist
<1>4. ASSUME NEW a \in Answers, Analyse(a)
      PROVE  PipeTypeOK'
  BY <1>4 DEF Analyse, PipeTypeOK, reviewVars, shelfVars, promoteHist, Content
<1>5. ASSUME NEW c \in Candidates, NEW t \in Repairs, EditByHand(c, t)
      PROVE  PipeTypeOK'
  BY <1>5 DEF EditByHand, PipeTypeOK, reviewVars, shelfVars, promoteHist, Content
<1>6. ASSUME NEW c \in Candidates, NEW s \in Verdicts, MarkCandidateStatus(c, s)
      PROVE  PipeTypeOK'
  <2>1. ledger' \in Seq(Verdict)
    BY <1>6 DEF MarkCandidateStatus, PipeTypeOK, Verdict
  <2>2. QED
    BY <1>6, <2>1 DEF MarkCandidateStatus, PipeTypeOK, filesVars, shelfVars, promoteHist
<1>7. ASSUME NEW c \in Candidates, ExecuteSkill(c)
      PROVE  PipeTypeOK'
  BY <1>7 DEF ExecuteSkill, PipeTypeOK, filesVars, reviewVars, shelfVars, promoteHist
<1>8. QED
  BY <1>1, <1>2, <1>3, <1>4, <1>5, <1>6, <1>7 DEF Aside

LEMMA PromoteKeepsTypes ==
  ASSUME PipeTypeOK, Promote
  PROVE  PipeTypeOK'
<1>. USE PipelineAssumption DEF PipeTypeOK, filesVars, reviewVars, Content
<1>1. ASSUME NEW c \in Candidates, Assess(c)
      PROVE  PipeTypeOK'
  BY <1>1 DEF Assess, CanPromote
<1>2. CASE CreateBackup
  <2>1. promotion' \in [step : {"assessed", "ready", "failed"}, candidate : Candidates, backup : Content]
    BY <1>2, CandidateUnderPromotion DEF CreateBackup
  <2>2. backups' \subseteq Backup
    BY <1>2, CandidateUnderPromotion DEF CreateBackup, Backup
  <2>3. unsaved' \subseteq Candidates
    BY <1>2 DEF CreateBackup, Backup
  <2>4. QED
    BY <1>2, <2>1, <2>2, <2>3 DEF CreateBackup, promoteHist
<1>3. CASE BackupFails
  <2>1. promotion' \in [step : {"assessed", "ready", "failed"}, candidate : Candidates, backup : Content]
    BY <1>3, CandidateUnderPromotion DEF BackupFails
  <2>2. backups' \subseteq Backup
    BY <1>3, CandidateUnderPromotion DEF BackupFails, Backup
  <2>3. unsaved' \subseteq Candidates
    BY <1>3, CandidateUnderPromotion DEF BackupFails
  <2>4. QED
    BY <1>3, <2>1, <2>2, <2>3 DEF BackupFails, promoteHist
<1>4. CASE NothingToBackUp
  <2>1. promotion' \in [step : {"assessed", "ready", "failed"}, candidate : Candidates, backup : Content]
    BY <1>4, CandidateUnderPromotion DEF NothingToBackUp
  <2>2. QED
    BY <1>4, <2>1 DEF NothingToBackUp, promoteHist
<1>5. CASE CopyCandidate
  BY <1>5, CandidateUnderPromotion DEF CopyCandidate
<1>6. CASE CopyFails
  <2>1. promotion' \in {Idle} \cup
          [step : {"assessed", "ready", "failed"}, candidate : Candidates, backup : Content]
    BY <1>6, CandidateUnderPromotion DEF CopyFails
  <2>2. shelf' \in [Candidates -> Content]
    BY <1>6, CandidateUnderPromotion DEF CopyFails
  <2>3. QED
    BY <1>6, <2>1, <2>2 DEF CopyFails
<1>7. CASE Rollback
  <2>1. shelf' \in [Candidates -> Content]
    BY <1>7, CandidateUnderPromotion DEF Rollback
  <2>2. QED
    BY <1>7, <2>1 DEF Rollback
<1>8. CASE Crash
  <2>1. shelf' \in [Candidates -> Content]
    BY <1>8, CandidateUnderPromotion DEF Crash
  <2>2. QED
    BY <1>8, <2>1 DEF Crash
<1>9. QED
  BY <1>1, <1>2, <1>3, <1>4, <1>5, <1>6, <1>7, <1>8 DEF Promote

----------------------------------------------------------------------------
(* Approval *)

\* What the window holds is the end of the ledger.
LEMMA WindowForgetsOnly ==
  ASSUME PipeTypeOK, NEW c \in Candidates, HumanApproved(c)
  PROVE  LastVerdictIs(c, Approved, 1)
<1>1. OldestRead \in Nat /\ OldestRead >= 1
  BY PipelineAssumption DEF OldestRead, PipeTypeOK
<1>2. QED
  BY <1>1 DEF HumanApproved, LastVerdictIs, PipeTypeOK

LEMMA ApprovalKept ==
  ASSUME PipeTypeOK, ApprovalInv, Aside \/ Promote
  PROVE  ApprovalInv'
<1>1. ASSUME NEW c \in Candidates, Assess(c)
      PROVE  ApprovalInv'
  BY <1>1, WindowForgetsOnly DEF Assess, CanPromote, ApprovalInv, reviewVars, LastVerdictIs
<1>2. CASE CreateBackup \/ BackupFails \/ NothingToBackUp
  <2>1. ledger' = ledger /\ promotion'.candidate = promotion.candidate /\ promotion.step = "assessed"
    BY <1>2, CandidateUnderPromotion DEF CreateBackup, BackupFails, NothingToBackUp, reviewVars
  <2>2. QED
    BY <2>1 DEF ApprovalInv, LastVerdictIs
<1>3. CASE CopyCandidate \/ CopyFails \/ Rollback \/ Crash
  <2>1. ledger' = ledger
    BY <1>3 DEF CopyCandidate, CopyFails, Rollback, Crash, reviewVars
  <2>2. promotion'.step = "idle" \/
          (promotion.step # "idle" /\ promotion'.candidate = promotion.candidate)
    BY <1>3, CandidateUnderPromotion DEF CopyCandidate, CopyFails, Rollback, Crash, Idle
  <2>3. QED
    BY <2>1, <2>2 DEF ApprovalInv, LastVerdictIs
<1>4. CASE Aside
  <2>1. promotion' = promotion
    BY <1>4 DEF Aside, Tick, FinishWriting, FailWriting, ReviewDependency, Analyse, EditByHand,
                MarkCandidateStatus, ExecuteSkill, shelfVars
  <2>2. ledger' = ledger \/ promotion.step = "idle"
    BY <1>4 DEF Aside, Tick, FinishWriting, FailWriting, ReviewDependency, Analyse, EditByHand,
                MarkCandidateStatus, ConsoleReads, ExecuteSkill, reviewVars
  <2>3. QED
    BY <2>1, <2>2 DEF ApprovalInv, LastVerdictIs
<1>5. QED
  BY <1>1, <1>2, <1>3, <1>4 DEF Promote

----------------------------------------------------------------------------
(* Critical calls *)

LEMMA CutIsNotCritical == Cut \notin CriticalTexts /\ Absent \notin CriticalTexts
  BY PipelineAssumption DEF Cut, Absent

LEMMA CriticalKept ==
  ASSUME PipeTypeOK, CriticalInv, Aside \/ Promote
  PROVE  CriticalInv'
<1>1. ASSUME NEW c \in Candidates, Assess(c)
      PROVE  CriticalInv'
  BY <1>1, CutIsNotCritical
     DEF Assess, CanPromote, CriticalCallsFound, CriticalInv, CriticalCodeOvertook
<1>2. CASE CreateBackup \/ BackupFails \/ NothingToBackUp
  <2>1. promotion.step = "assessed" /\ promotion.candidate \in Candidates
    BY <1>2, CandidateUnderPromotion DEF CreateBackup, BackupFails, NothingToBackUp
  <2>2. /\ promotion'.candidate = promotion.candidate
        /\ promotion'.backup \in {promotion.backup, shelf[promotion.candidate]}
        /\ UNCHANGED <<shelf, promoteHist, ran>>
    BY <1>2, <2>1, CandidateUnderPromotion DEF CreateBackup, BackupFails, NothingToBackUp
  <2>3. QED
    BY <2>1, <2>2 DEF CriticalInv, CriticalCodeOvertook, promoteHist
<1>3. CASE CopyCandidate
  <2>1. promotion.step = "ready" /\ promotion.candidate \in Candidates
    BY <1>3, CandidateUnderPromotion DEF CopyCandidate
  <2>2. overtaken \subseteq overtaken'
    BY <1>3 DEF CopyCandidate
  <2>3. \A c \in Candidates : shelf'[c] \in CriticalTexts => c \in overtaken'
    BY <1>3, <2>1, <2>2 DEF CopyCandidate, CriticalInv, PipeTypeOK
  <2>4. QED
    BY <1>3, <2>2, <2>3 DEF CopyCandidate, CriticalInv, CriticalCodeOvertook, Idle
<1>4. CASE CopyFails \/ Rollback \/ Crash
  <2>1. UNCHANGED <<overtaken, ran>> /\ scanned' = Absent
    BY <1>4 DEF CopyFails, Rollback, Crash
  <2>2. \A c \in Candidates :
          \/ shelf'[c] \in {shelf[c], Cut}
          \/ promotion.step # "idle" /\ c = promotion.candidate /\ shelf'[c] = promotion.backup
    BY <1>4, CandidateUnderPromotion DEF CopyFails, Rollback, Crash, PipeTypeOK
  <2>3. promotion' = Idle \/ (/\ promotion.step # "idle"
                              /\ promotion'.candidate = promotion.candidate
                              /\ promotion'.backup = promotion.backup)
    BY <1>4, CandidateUnderPromotion DEF CopyFails, Rollback, Crash
  <2>4. QED
    BY <2>1, <2>2, <2>3, CutIsNotCritical DEF CriticalInv, CriticalCodeOvertook, Idle
<1>5. CASE Aside
  <2>1. UNCHANGED <<shelf, promotion, scanned, overtaken>>
    BY <1>5 DEF Aside, Tick, FinishWriting, FailWriting, ReviewDependency, Analyse, EditByHand,
                MarkCandidateStatus, ExecuteSkill, shelfVars, promoteHist
  <2>2. ran' = ran \/ \E c \in Candidates : ran' = ran \cup {<<c, shelf[c]>>}
    BY <1>5 DEF Aside, Tick, FinishWriting, FailWriting, ReviewDependency, Analyse, EditByHand,
                MarkCandidateStatus, ExecuteSkill
  <2>3. QED
    BY <2>1, <2>2 DEF CriticalInv, CriticalCodeOvertook
<1>6. QED
  BY <1>1, <1>2, <1>3, <1>4, <1>5 DEF Promote

----------------------------------------------------------------------------
(* Versions *)

LEMMA SavedKept ==
  ASSUME PipeTypeOK, SavedInv, Aside \/ Promote
  PROVE  SavedInv'
<1>1. ASSUME NEW c \in Candidates, Assess(c)
      PROVE  SavedInv'
  BY <1>1 DEF Assess, SavedInv, Saved
<1>2. CASE CreateBackup
  <2>1. PICK c \in Candidates : c = promotion.candidate
    BY <1>2, CandidateUnderPromotion DEF CreateBackup
  <2>2. /\ promotion'.candidate = c
        /\ [candidate |-> c, second |-> second, text |-> shelf[c]] \in backups'
        /\ \A b \in backups : b.candidate = c /\ b.second = second => c \in unsaved'
        /\ \A b \in backups : b \in backups' \/ (b.candidate = c /\ b.second = second)
        /\ unsaved \subseteq unsaved' /\ UNCHANGED <<shelf, good>>
    BY <1>2, <2>1, CandidateUnderPromotion DEF CreateBackup, BackupSlot, promoteHist
  <2>3. \A d \in Candidates : Saved(d) => Saved(d)'
    BY <2>2 DEF Saved
  <2>4. shelf[c] = good[c] => Saved(c)'
    BY <2>2 DEF Saved
  <2>5. QED
    BY <2>1, <2>2, <2>3, <2>4 DEF SavedInv, Saved
<1>3. CASE BackupFails
  <2>1. PICK c \in Candidates : c = promotion.candidate
    BY <1>3, CandidateUnderPromotion DEF BackupFails
  <2>2. /\ promotion'.candidate = c
        /\ \A b \in backups : b \in backups' \/ b.candidate = c
        /\ c \in unsaved' /\ unsaved \subseteq unsaved' /\ UNCHANGED <<shelf, good>>
    BY <1>3, <2>1, CandidateUnderPromotion DEF BackupFails, BackupSlot, promoteHist
  <2>3. \A d \in Candidates : Saved(d) => Saved(d)'
    BY <2>2 DEF Saved
  <2>4. QED
    BY <2>1, <2>2, <2>3 DEF SavedInv, Saved
<1>4. CASE NothingToBackUp
  <2>1. promotion.candidate \in Candidates /\ promotion'.candidate = promotion.candidate
    BY <1>4, CandidateUnderPromotion DEF NothingToBackUp
  <2>2. QED
    BY <1>4, <2>1 DEF NothingToBackUp, SavedInv, Saved, promoteHist
<1>5. CASE CopyCandidate
  <2>1. promotion.step = "ready" /\ promotion.candidate \in Candidates
    BY <1>5, CandidateUnderPromotion DEF CopyCandidate
  <2>2. ASSUME NEW d \in Candidates
        PROVE  (shelf[d] = good[d] \/ Saved(d))'
    <3>1. CASE d # promotion.candidate
      BY <1>5, <2>1, <3>1 DEF CopyCandidate, SavedInv, Saved, PipeTypeOK
    <3>2. CASE d = promotion.candidate /\ quarantine[d] \in Texts
      BY <1>5, <2>1, <3>2 DEF CopyCandidate, PipeTypeOK
    <3>3. CASE d = promotion.candidate /\ quarantine[d] \notin Texts
      BY <1>5, <2>1, <3>3 DEF CopyCandidate, SavedInv, Saved
    <3>4. QED
      BY <3>1, <3>2, <3>3
  <2>3. QED
    BY <1>5, <2>2 DEF CopyCandidate, SavedInv, Idle
<1>6. CASE CopyFails \/ Rollback \/ Crash
  <2>1. UNCHANGED <<good, backups, unsaved>>
    BY <1>6 DEF CopyFails, Rollback, Crash
  <2>2. \A d \in Candidates :
          shelf'[d] = shelf[d]
            \/ (promotion.step \in {"ready", "failed"} /\ d = promotion.candidate)
    BY <1>6, CandidateUnderPromotion DEF CopyFails, Rollback, Crash, PipeTypeOK
  <2>3. promotion' = Idle \/ (/\ promotion.step = "ready"
                              /\ promotion'.candidate = promotion.candidate)
    BY <1>6, CandidateUnderPromotion DEF CopyFails, Rollback, Crash
  <2>4. QED
    BY <2>1, <2>2, <2>3 DEF SavedInv, Saved, Idle
<1>7. CASE Aside
  <2>1. UNCHANGED <<shelf, backups, promotion, unsaved, good>>
    BY <1>7 DEF Aside, Tick, FinishWriting, FailWriting, ReviewDependency, Analyse, EditByHand,
                MarkCandidateStatus, ExecuteSkill, shelfVars, promoteHist
  <2>2. QED
    BY <2>1 DEF SavedInv, Saved
<1>8. QED
  BY <1>1, <1>2, <1>3, <1>4, <1>5, <1>6, <1>7 DEF Promote

----------------------------------------------------------------------------
LEMMA StepKeepsPipelineInv ==
  ASSUME PipelineInv, [PipelineNext]_vars
  PROVE  PipelineInv'
<1>1. CASE UNCHANGED vars
  BY <1>1 DEF vars, filesVars, reviewVars, shelfVars, promoteHist, PipelineInv, PipeTypeOK,
              ApprovalInv, LastVerdictIs, CriticalInv, CriticalCodeOvertook, SavedInv, Saved
<1>2. CASE PipelineNext
  BY <1>2, NextIsSplit, AsideKeepsTypes, PromoteKeepsTypes, ApprovalKept, CriticalKept, SavedKept
     DEF PipelineInv
<1>3. QED
  BY <1>1, <1>2

(* The invariant holds in every state of the pipeline.                       *)
THEOREM PipelineInvariant == PipelineSpec => []PipelineInv
  BY InitPipelineInv, StepKeepsPipelineInv, PTL DEF PipelineSpec

(* Code with a critical call runs only if its candidate was rewritten between *)
(* the scan and the copy (CriticalCodeOvertook).                             *)
THEOREM CriticalOnlyIfOvertaken == PipelineSpec => []CriticalCodeOvertook
<1>1. PipelineInv => CriticalCodeOvertook
  BY DEF PipelineInv, CriticalInv
<1>2. QED
  BY <1>1, PipelineInvariant, PTL

(* The last whole version of a skill is on the shelf, in a backup, or its     *)
(* backup failed or was replaced (VersionRecoverable).                       *)
THEOREM VersionsAreRecoverable == PipelineSpec => []VersionRecoverable
<1>1. PipelineInv => VersionRecoverable
  BY DEF PipelineInv, SavedInv, Saved, VersionRecoverable
<1>2. QED
  BY <1>1, PipelineInvariant, PTL

\* Files of the shelf are written by the last steps of a promotion only.
LEMMA ShelfChangesApproved ==
  ASSUME PipelineInv, [PipelineNext]_vars, NEW c \in Candidates, shelf'[c] # shelf[c]
  PROVE  LastVerdictIs(c, Approved, 1)
<1>1. CopyCandidate \/ CopyFails \/ Rollback \/ Crash
  BY NextIsSplit DEF vars, Aside, Promote, Tick, FinishWriting, FailWriting, ReviewDependency,
     Analyse, EditByHand, MarkCandidateStatus, ExecuteSkill, shelfVars, Assess, CreateBackup,
     BackupFails, NothingToBackUp
<1>2. promotion.step # "idle" /\ c = promotion.candidate
  BY <1>1, CandidateUnderPromotion DEF CopyCandidate, CopyFails, Rollback, Crash, PipelineInv,
     PipeTypeOK
<1>3. QED
  BY <1>2 DEF PipelineInv, ApprovalInv

(* A skill's file changes only under an approval (ShelfNeedsApproval).       *)
THEOREM ShelfIsApproved == PipelineSpec => ShelfNeedsApproval
<1>1. PipelineInv /\ [PipelineNext]_vars =>
        [\A c \in Candidates : shelf'[c] # shelf[c] => LastVerdictIs(c, Approved, 1)]_vars
  BY ShelfChangesApproved
<1>2. QED
  BY <1>1, PipelineInvariant, PTL DEF PipelineSpec, ShelfNeedsApproval
============================================================================
