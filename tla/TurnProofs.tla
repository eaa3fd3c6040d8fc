----------------------------- MODULE TurnProofs -----------------------------
(* Theorems about Turn, for any answers of the LLM, approved reflexes and    *)
(* allowlist: what is done is on the record, and what is stored without a    *)
(* record is reported as a failure.                                          *)
EXTENDS Turn, TLAPS, FiniteSetTheorems

\* Before the dispatch is recorded the turn has left no record but its input's.
Unrecorded == {"document", "text", "fast", "local", "dispatch"}

Recorded == {"answer", "execute", "doubt", "dialog", "chosen"}

\* What each stage can rely on, because of the appends that came before it.
StageInv ==
  /\ pc # "done" => outcome = "none"
  /\ pc \in Unrecorded => decided = {} /\ offered = {} /\ chosen = {} /\ written = 0
  /\ pc \in {"fast", "local", "dispatch"} \cup Recorded => accepted
  /\ pc = "dispatch" => plan \in Plans
  /\ pc \in Recorded => plan \in Plans /\ decided = {plan}
  /\ pc \in {"answer", "execute"} => Status(plan) = "executed"
  /\ pc \in {"doubt", "dialog", "chosen"} => Status(plan) # "executed"
  /\ pc \in {"dialog", "chosen"} => offered # {}
  /\ pc \in Recorded \ {"chosen"} => chosen = {}
  /\ pc = "chosen" => chosen # {}
  /\ chosen \subseteq offered \cup {"abort"}

TurnInv == TurnTypeOK /\ StageInv /\ EffectsAccounted /\ ActsOnRecord

----------------------------------------------------------------------------
(* Plans *)

LEMMA PlansHaveFields ==
  ASSUME NEW p \in Plans
  PROVE  p.via = "fast" => p = FastPlan
  BY DEF Plans, FastPlan, LocalPlan, PlanOf

\* The nominal friction of a local decision is far above the threshold.
LEMMA FastPlanExecutes == Status(FastPlan) = "executed" /\ ~Stores(FastPlan)
<1>1. IafaScore(FastPlan) = 10000
  BY DEF IafaScore, Entropy, FastPlan, LocalPlan
<1>2. FastPlan.action = "respond"
  BY DEF FastPlan, LocalPlan
<1>3. QED
  BY <1>1, <1>2 DEF Status, Stores, Supported

LEMMA LocalPlansArePlans ==
  ASSUME NEW i
  PROVE  LocalPlans(i) \subseteq Plans
  BY DEF LocalPlans, Plans

LEMMA ValidAnswersArePlans ==
  ASSUME NEW a \in Answers, ValidDecision(a)
  PROVE  PlanOf(a) \in Plans
  BY DEF Plans

LEMMA StoredOnce ==
  ASSUME NEW p
  PROVE  Cardinality({q \in {p} : Stores(q)}) = IF Stores(p) THEN 1 ELSE 0
<1>1. CASE Stores(p)
  <2>1. {q \in {p} : Stores(q)} = {p}
    BY <1>1
  <2>2. QED
    BY <1>1, <2>1, FS_Singleton
<1>2. CASE ~Stores(p)
  <2>1. {q \in {p} : Stores(q)} = {}
    BY <1>2
  <2>2. QED
    BY <1>2, <2>1, FS_EmptySet
<1>3. QED
  BY <1>1, <1>2

LEMMA NothingStored ==
  ASSUME decided = {}
  PROVE  Cardinality({q \in decided : Stores(q)}) = 0
<1>1. {q \in decided : Stores(q)} = {}
  OBVIOUS
<1>2. QED
  BY <1>1, FS_EmptySet

----------------------------------------------------------------------------
LEMMA InitTurnInv ==
  ASSUME TurnInit
  PROVE  TurnInv
<1>1. TurnTypeOK
  <2>1. input \in [source : FileKinds \cup {"console"}, trigger : Triggers]
    BY DEF TurnInit, Envelope, Triggers
  <2>2. accepted \in BOOLEAN /\ failed \in BOOLEAN /\ writable \in BOOLEAN
    BY DEF TurnInit
  <2>3. QED
    BY <2>1, <2>2 DEF TurnInit, TurnTypeOK
<1>2. StageInv /\ ActsOnRecord
  BY DEF TurnInit, StageInv, Unrecorded, Recorded, ActsOnRecord
<1>3. EffectsAccounted
  BY NothingStored DEF TurnInit, EffectsAccounted
<1>4. QED
  BY <1>1, <1>2, <1>3 DEF TurnInv

\* A new turn, with its envelope in the audit log or not yet.
LEMMA NewTurnKeeps ==
  ASSUME NEW i \in [source : FileKinds \cup {"console"}, trigger : Triggers],
         NEW audited \in BOOLEAN, NewTurn(i, audited),
         pc' \in {"text", "document", "local", "escaped"}, pc' = "local" => audited
  PROVE  TurnInv'
<1>1. TurnTypeOK'
  <2>1. accepted' \in BOOLEAN /\ failed' \in BOOLEAN /\ writable' \in BOOLEAN
    BY DEF NewTurn
  <2>2. QED
    BY <2>1 DEF NewTurn, TurnTypeOK
<1>2. StageInv'
  BY DEF NewTurn, StageInv, Unrecorded, Recorded
<1>3. ActsOnRecord'
  BY DEF NewTurn, ActsOnRecord
<1>4. EffectsAccounted'
  <2>1. Cardinality({q \in decided' : Stores(q)}) = 0
    <3>1. {q \in decided' : Stores(q)} = {}
      BY DEF NewTurn
    <3>2. QED
      BY <3>1, FS_EmptySet
  <2>2. QED
    BY <2>1 DEF NewTurn, EffectsAccounted
<1>5. QED
  BY <1>1, <1>2, <1>3, <1>4 DEF TurnInv

LEMMA IngestionKeeps ==
  ASSUME ReadLine \/ FileRefused \/ PdfDetected \/ FileAccepted
  PROVE  TurnInv'
<1>1. CASE ReadLine
  BY <1>1, NewTurnKeeps DEF ReadLine, Envelope
<1>2. CASE FileRefused
  BY <1>2, NewTurnKeeps DEF FileRefused, Envelope, Triggers
<1>3. CASE PdfDetected
  BY <1>3, NewTurnKeeps DEF PdfDetected, Envelope, Triggers, FileKinds
<1>4. CASE FileAccepted
  BY <1>4, NewTurnKeeps DEF FileAccepted, Envelope
<1>5. QED
  BY <1>1, <1>2, <1>3, <1>4

\* A step between two records leaves the effects and their records alone.
LEMMA EffectsStay ==
  ASSUME EffectsAccounted, StageInv, UNCHANGED <<decided, written>>,
         pc \notin {"done", "failed", "escaped"}
  PROVE  EffectsAccounted'
<1>1. outcome = "none"
  BY DEF StageInv
<1>2. written = Cardinality({p \in decided : Stores(p)})
  BY <1>1 DEF EffectsAccounted
<1>3. decided' = decided /\ written' = written
  OBVIOUS
<1>4. QED
  BY <1>2, <1>3 DEF EffectsAccounted

LEMMA StoppingKeepsEffects ==
  ASSUME EffectsAccounted, UNCHANGED <<decided, written>>,
         pc' \in {"failed", "escaped"} \/ outcome' \in {"error", "bootstrap_failed"}
  PROVE  EffectsAccounted'
  BY DEF EffectsAccounted

----------------------------------------------------------------------------
LEMMA RoutingKeeps ==
  ASSUME TurnInv,
         \/ TextExtracted \/ TextAccepted \/ CheckFastPath \/ RouteLocally
         \/ \E a \in Answers : PlannerAccepts(a)
  PROVE  TurnInv'
<1>. USE DEF TurnInv
<1>1. CASE TextExtracted
  <2>1. EffectsAccounted'
    BY <1>1, EffectsStay DEF TextExtracted, auditVars
  <2>2. QED
    BY <1>1, <2>1 DEF TextExtracted, TurnTypeOK, StageInv, ActsOnRecord, auditVars, ledgerVars,
                      Unrecorded, Recorded
<1>2. CASE TextAccepted
  <2>1. EffectsAccounted'
    BY <1>2, EffectsStay DEF TextAccepted
  <2>2. QED
    BY <1>2, <2>1 DEF TextAccepted, TurnTypeOK, StageInv, ActsOnRecord, ledgerVars,
                      Unrecorded, Recorded
<1>3. CASE CheckFastPath
  <2>1. EffectsAccounted'
    BY <1>3, EffectsStay DEF CheckFastPath, auditVars
  <2>2. FastPlan \in Plans
    BY DEF Plans
  <2>3. QED
    BY <1>3, <2>1, <2>2 DEF CheckFastPath, TurnTypeOK, StageInv, ActsOnRecord, auditVars,
                            ledgerVars, Unrecorded, Recorded
<1>4. CASE RouteLocally
  <2>1. EffectsAccounted'
    BY <1>4, EffectsStay DEF RouteLocally, auditVars
  <2>2. plan' \in Plans
    BY <1>4, LocalPlansArePlans DEF RouteLocally
  <2>3. QED
    BY <1>4, <2>1, <2>2 DEF RouteLocally, TurnTypeOK, StageInv, ActsOnRecord, auditVars,
                            ledgerVars, Unrecorded, Recorded
<1>5. ASSUME NEW a \in Answers, PlannerAccepts(a)
      PROVE  TurnInv'
  <2>1. EffectsAccounted'
    BY <1>5, EffectsStay DEF PlannerAccepts, auditVars
  <2>2. plan' \in Plans
    BY <1>5, ValidAnswersArePlans DEF PlannerAccepts
  <2>3. TurnTypeOK'
    BY <1>5, <2>2 DEF PlannerAccepts, TurnTypeOK, auditVars, ledgerVars, Did
  <2>4. StageInv'
    BY <1>5, <2>2 DEF PlannerAccepts, StageInv, auditVars, Unrecorded, Recorded
  <2>5. ActsOnRecord'
    BY <1>5 DEF PlannerAccepts, ActsOnRecord, StageInv, auditVars, ledgerVars, Did, Unrecorded
  <2>6. QED
    BY <2>1, <2>3, <2>4, <2>5
<1>6. QED
  BY <1>1, <1>2, <1>3, <1>4, <1>5

LEMMA DispatchKeeps ==
  ASSUME TurnInv, Dispatch \/ DispatchNotAudited
  PROVE  TurnInv'
<1>. USE DEF TurnInv
<1>0. plan \in Plans /\ decided = {} /\ written = 0 /\ accepted
  BY DEF Dispatch, DispatchNotAudited, StageInv, Unrecorded
<1>1. CASE Dispatch
  <2>1. decided' = {plan} /\ plan' = plan /\ written' = IF Stores(plan) THEN 1 ELSE 0
    BY <1>0, <1>1 DEF Dispatch
  <2>2. EffectsAccounted'
    <3>1. written' = Cardinality({q \in {plan} : Stores(q)})
      BY <2>1, StoredOnce
    <3>2. QED
      BY <2>1, <3>1 DEF EffectsAccounted
  <2>3. pc' = "answer" => Status(plan) = "executed"
    BY <1>0, <1>1, PlansHaveFields, FastPlanExecutes DEF Dispatch, NeedsFallback
  <2>4. TurnTypeOK'
    BY <1>0, <1>1, <2>1 DEF Dispatch, TurnTypeOK, Note
  <2>5. StageInv'
    BY <1>0, <1>1, <2>1, <2>3 DEF Dispatch, StageInv, NeedsFallback, Unrecorded, Recorded
  <2>6. ActsOnRecord'
    BY <1>0, <1>1, <2>1 DEF Dispatch, ActsOnRecord, StageInv, Note
  <2>7. QED
    BY <2>2, <2>4, <2>5, <2>6
<1>2. CASE DispatchNotAudited
  <2>1. CASE plan.via = "fast"
    <3>1. pc' = "local" /\ written' = written
      BY <1>0, <1>2, <2>1, PlansHaveFields, FastPlanExecutes DEF DispatchNotAudited, AfterFailedRecord
    <3>2. EffectsAccounted'
      BY <1>2, <3>1, EffectsStay DEF DispatchNotAudited, auditVars
    <3>3. QED
      BY <1>0, <1>2, <3>1, <3>2 DEF DispatchNotAudited, TurnTypeOK, StageInv, ActsOnRecord,
                                    auditVars, ledgerVars, Unrecorded, Recorded
  <2>2. CASE plan.via # "fast"
    <3>1. pc' = "failed" /\ written' \in 0..1
      BY <1>0, <1>2, <2>2 DEF DispatchNotAudited, AfterFailedRecord
    <3>2. EffectsAccounted'
      BY <3>1 DEF EffectsAccounted
    <3>3. QED
      BY <1>0, <1>2, <3>1, <3>2 DEF DispatchNotAudited, TurnTypeOK, StageInv, ActsOnRecord,
                                    auditVars, ledgerVars, Unrecorded, Recorded
  <2>3. QED
    BY <2>1, <2>2
<1>3. QED
  BY <1>1, <1>2

----------------------------------------------------------------------------
LEMMA ExecutionKeeps ==
  ASSUME TurnInv, AnswerFast \/ Respond \/ ReportStored \/ RunSkill \/ SkillRefused
  PROVE  TurnInv'
<1>. USE DEF TurnInv
<1>1. /\ pc' = "done" /\ outcome' \in {"completed", "executed"}
      /\ UNCHANGED <<input, plan, auditVars, written, failed, writable>>
      /\ acts' \subseteq acts \cup {[kind |-> k, plan |-> plan] : k \in {"respond", "skill"}}
      /\ tension' \subseteq tension \cup {"experimental_iafa_evaluated",
                              "experimental_skill_invoked", "experimental_skill_failed"}
  BY DEF AnswerFast, Respond, ReportStored, RunSkill, SkillRefused, GenerateResponse, Did, Note,
         ledgerVars
<1>2. pc \in {"answer", "execute"}
  BY DEF AnswerFast, Respond, ReportStored, RunSkill, SkillRefused
<1>3. plan \in Plans /\ decided = {plan} /\ Status(plan) = "executed"
  BY <1>2 DEF StageInv, Recorded
<1>4. EffectsAccounted'
  BY <1>1, <1>2, EffectsStay DEF auditVars
<1>5. TurnTypeOK'
  BY <1>1, <1>3 DEF TurnTypeOK, auditVars
<1>6. StageInv'
  BY <1>1 DEF StageInv, auditVars, Unrecorded, Recorded
<1>7. ActsOnRecord'
  BY <1>1, <1>3 DEF ActsOnRecord, auditVars
<1>8. QED
  BY <1>4, <1>5, <1>6, <1>7

LEMMA DoubtKeeps ==
  ASSUME TurnInv, OfferHypotheses \/ Select \/ EndDialog \/ AnalyseCapability
  PROVE  TurnInv'
<1>. USE DEF TurnInv
<1>1. pc \in {"doubt", "dialog", "chosen"}
  BY DEF OfferHypotheses, Select, EndDialog, AnalyseCapability
<1>2. plan \in Plans /\ decided = {plan} /\ Status(plan) # "executed" /\ accepted /\ outcome = "none"
  BY <1>1 DEF StageInv, Recorded
<1>3. EffectsAccounted'
  BY <1>1, EffectsStay DEF OfferHypotheses, Select, EndDialog, AnalyseCapability, auditVars
<1>4. CASE OfferHypotheses
  <2>1. offered' # {} /\ offered' \subseteq ActionTypes /\ chosen = {} /\ chosen' = {}
    BY <1>4 DEF OfferHypotheses, Hypotheses, StageInv, Recorded
  <2>2. TurnTypeOK'
    <3>1. acts' = acts \cup {[kind |-> "query", plan |-> plan], [kind |-> "dialog", plan |-> plan]}
      <4>1. {[kind |-> k, plan |-> plan] : k \in {"query", "dialog"}}
              = {[kind |-> "query", plan |-> plan], [kind |-> "dialog", plan |-> plan]}
        OBVIOUS
      <4>2. QED
        BY <1>4, <4>1 DEF OfferHypotheses
    <3>2. acts' \subseteq [kind : {"query", "respond", "skill", "dialog", "analysis"},
                           plan : Plans \cup {NoPlan}]
      BY <1>2, <3>1 DEF TurnTypeOK
    <3>3. QED
      BY <1>2, <1>4, <2>1, <3>2 DEF OfferHypotheses, TurnTypeOK, ledgerVars
  <2>3. StageInv'
    BY <1>2, <1>4, <2>1 DEF OfferHypotheses, StageInv, Unrecorded, Recorded
  <2>4. ActsOnRecord'
    BY <1>2, <1>4, <2>1 DEF OfferHypotheses, ActsOnRecord, ledgerVars
  <2>5. QED
    BY <1>3, <2>2, <2>3, <2>4
<1>5. CASE Select
  <2>1. PICK a \in offered \cup {"abort"} : chosen' = chosen \cup {a}
    BY <1>5 DEF Select, Selectable
  <2>2. TurnTypeOK'
    BY <1>5, <2>1 DEF Select, TurnTypeOK, ledgerVars, ActionTypes
  <2>3. StageInv'
    BY <1>2, <1>5, <2>1 DEF Select, StageInv, Unrecorded, Recorded
  <2>4. ActsOnRecord'
    BY <1>2, <1>5, <2>1 DEF Select, ActsOnRecord, ledgerVars
  <2>5. QED
    BY <1>3, <2>2, <2>3, <2>4
<1>6. CASE EndDialog
  <2>1. /\ pc = "chosen" /\ pc' = "done"
        /\ outcome' \in {"aborted", "awaiting_human_feedback"}
        /\ UNCHANGED <<input, plan, auditVars, written, acts, failed, writable>>
        /\ tension' \subseteq tension \cup {"outcome_update"}
    BY <1>6 DEF EndDialog, Note
  <2>2. TurnTypeOK'
    BY <2>1 DEF TurnTypeOK, auditVars
  <2>3. StageInv'
    BY <2>1 DEF StageInv, auditVars, Unrecorded, Recorded
  <2>4. ActsOnRecord'
    BY <1>2, <2>1 DEF ActsOnRecord, StageInv, auditVars
  <2>5. QED
    BY <1>3, <2>2, <2>3, <2>4
<1>7. CASE AnalyseCapability
  <2>1. /\ pc = "chosen" /\ "sandbox_code" \in chosen /\ pc' = "done" /\ outcome' = "analysis"
        /\ UNCHANGED <<input, plan, auditVars, written, failed, writable>>
        /\ acts' = acts \cup {[kind |-> "analysis", plan |-> plan]}
        /\ tension' \subseteq tension \cup {"outcome_update", "genesis_sandbox_analysis"}
    BY <1>7 DEF AnalyseCapability, Did, Note
  <2>2. "sandbox_code" \in chosen \cap offered
    BY <2>1 DEF StageInv
  <2>3. TurnTypeOK'
    BY <1>2, <2>1 DEF TurnTypeOK, auditVars
  <2>4. StageInv'
    BY <2>1 DEF StageInv, auditVars, Unrecorded, Recorded
  <2>5. ActsOnRecord'
    BY <1>2, <2>1, <2>2 DEF ActsOnRecord, StageInv, auditVars
  <2>6. QED
    BY <1>3, <2>3, <2>4, <2>5
<1>8. QED
  BY <1>4, <1>5, <1>6, <1>7

LEMMA FailureKeeps ==
  ASSUME TurnInv,
         \/ ExtractionFails \/ TextNotAudited \/ PlannerFails \/ HypothesesFail
         \/ SelectionNotAudited \/ AnalysisFails
         \/ ErrorResult \/ ErrorResultRaises \/ BootstrapFails
  PROVE  TurnInv'
<1>. USE DEF TurnInv
<1>1. CASE ExtractionFails \/ TextNotAudited \/ SelectionNotAudited \/ ErrorResultRaises
  <2>1. /\ pc # "done" /\ pc' \in {"failed", "escaped"}
        /\ UNCHANGED <<input, plan, auditVars, written, acts, ledgerVars, outcome>>
    BY <1>1 DEF ExtractionFails, TextNotAudited, SelectionNotAudited, ErrorResultRaises
  <2>2. EffectsAccounted'
    BY <2>1, StoppingKeepsEffects DEF auditVars
  <2>3. QED
    BY <2>1, <2>2 DEF TurnTypeOK, StageInv, ActsOnRecord, auditVars, ledgerVars, Unrecorded, Recorded
<1>2. CASE PlannerFails \/ HypothesesFail
  <2>1. /\ pc \in {"local", "doubt"} /\ pc' = "failed"
        /\ UNCHANGED <<input, plan, auditVars, written, ledgerVars, outcome>>
        /\ acts' = acts \cup {[kind |-> "query", plan |-> plan]}
    BY <1>2 DEF PlannerFails, HypothesesFail, Did
  <2>2. accepted
    BY <2>1 DEF StageInv, Recorded
  <2>3. EffectsAccounted'
    BY <2>1, StoppingKeepsEffects DEF auditVars
  <2>4. TurnTypeOK'
    BY <2>1 DEF TurnTypeOK, auditVars, ledgerVars
  <2>5. StageInv'
    BY <2>1 DEF StageInv, auditVars, Unrecorded, Recorded
  <2>6. ActsOnRecord'
    BY <2>1, <2>2 DEF ActsOnRecord, auditVars, ledgerVars
  <2>7. QED
    BY <2>3, <2>4, <2>5, <2>6
<1>3. CASE AnalysisFails
  <2>1. /\ pc = "chosen" /\ "sandbox_code" \in chosen /\ pc' = "failed"
        /\ UNCHANGED <<input, plan, auditVars, written, failed, writable, outcome>>
        /\ acts' = acts \cup {[kind |-> "analysis", plan |-> plan]}
        /\ tension' \subseteq tension \cup {"outcome_update"}
    BY <1>3 DEF AnalysisFails, Did, Note
  <2>2. "sandbox_code" \in chosen \cap offered /\ decided = {plan} /\ plan \in Plans
    BY <2>1 DEF StageInv, Recorded
  <2>3. EffectsAccounted'
    BY <2>1, StoppingKeepsEffects DEF auditVars
  <2>4. TurnTypeOK'
    BY <2>1, <2>2 DEF TurnTypeOK, auditVars
  <2>5. StageInv'
    BY <2>1 DEF StageInv, auditVars, Unrecorded, Recorded
  <2>6. ActsOnRecord'
    BY <2>1, <2>2 DEF ActsOnRecord, auditVars
  <2>7. QED
    BY <2>3, <2>4, <2>5, <2>6
<1>4. CASE ErrorResult \/ BootstrapFails
  <2>1. /\ pc' = "done" /\ outcome' \in {"error", "bootstrap_failed"}
        /\ UNCHANGED <<input, plan, auditVars, written, acts, writable>>
        /\ failed' \in {failed, writable} /\ tension' \subseteq tension \cup {"error"}
    BY <1>4 DEF ErrorResult, BootstrapFails, RegisterFailure, Note, ledgerVars
  <2>2. EffectsAccounted'
    BY <2>1, StoppingKeepsEffects DEF auditVars
  <2>3. TurnTypeOK'
    BY <2>1 DEF TurnTypeOK, auditVars
  <2>4. StageInv'
    BY <2>1 DEF StageInv, auditVars, Unrecorded, Recorded
  <2>5. ActsOnRecord'
    BY <2>1 DEF ActsOnRecord, auditVars
  <2>6. QED
    BY <2>2, <2>3, <2>4, <2>5
<1>5. QED
  BY <1>1, <1>2, <1>3, <1>4

LEMMA StepKeepsTurnInv ==
  ASSUME TurnInv, [TurnNext]_vars
  PROVE  TurnInv'
<1>1. CASE UNCHANGED vars
  BY <1>1 DEF vars, auditVars, ledgerVars, TurnInv, TurnTypeOK, StageInv, EffectsAccounted,
              ActsOnRecord
<1>2. CASE TurnNext
  BY <1>2, IngestionKeeps, RoutingKeeps, DispatchKeeps, ExecutionKeeps, DoubtKeeps, FailureKeeps
     DEF TurnNext
<1>3. QED
  BY <1>1, <1>2

----------------------------------------------------------------------------
(* Theorems *)

(* The invariant holds in every state of every turn.                         *)
THEOREM TurnInvariant == TurnSpec => []TurnInv
  BY InitTurnInv, StepKeepsTurnInv, PTL DEF TurnSpec

(* Plans are well formed and a turn stores at most once, also when it is      *)
(* dispatched twice (TurnTypeOK).                                            *)
THEOREM TurnTypes == TurnSpec => []TurnTypeOK
<1>1. TurnInv => TurnTypeOK
  BY DEF TurnInv
<1>2. QED
  BY <1>1, TurnInvariant, PTL

(* What a turn does has its reasons in the audit log, whichever appends fail  *)
(* (ActsOnRecord).                                                           *)
THEOREM TurnActsOnRecord == TurnSpec => []ActsOnRecord
<1>1. TurnInv => ActsOnRecord
  BY DEF TurnInv
<1>2. QED
  BY <1>1, TurnInvariant, PTL

(* What is stored without a record belongs to a turn that fails               *)
(* (EffectsAccounted).                                                       *)
THEOREM TurnEffectsAccounted == TurnSpec => []EffectsAccounted
<1>1. TurnInv => EffectsAccounted
  BY DEF TurnInv
<1>2. QED
  BY <1>1, TurnInvariant, PTL
=============================================================================
