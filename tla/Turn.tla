-------------------------------- MODULE Turn --------------------------------
(***************************************************************************)
(* One turn of MainOrchestrator after another: a line of the console or a  *)
(* file is taken in by IngestionRouter, routed locally or planned by the   *)
(* LLM, decided by ActionDispatcher, carried out, and answered.  Every     *)
(* stage appends to the audit log and waits for it; the append may fail,   *)
(* which is the fault this module is about.  The channel to the LLM, the   *)
(* dialog and the reflexes have modules of their own and are reduced here  *)
(* to what they answer.                                                    *)
(***************************************************************************)
EXTENDS Integers, FiniteSets

CONSTANTS
  Answers,       \* decisions the LLM may answer with
  ReflexActions, \* actions that approved reflexes without a certificate recommend
  AllowList      \* GREYS_EXPERIMENTAL_SKILL_ALLOWLIST

\* An answer of the LLM, as far as the planner looks at it: whether it is one
\* object with the expected keys, its estimates in hundredths, and its path.
ASSUME TurnAssumption ==
  /\ \A a \in Answers :
       /\ a.keys \in {"exact", "other"}
       /\ {a.R, a.I, a.N} \subseteq Int
       /\ a.path \in {"relative", "absolute", "parent"}
       /\ a.intentIsAction \in BOOLEAN
  /\ {a.action : a \in Answers} \cup ReflexActions \subseteq STRING
  /\ AllowList \subseteq STRING

VARIABLES
  pc,        \* where the turn stands
  input,     \* where it came from, and what the local router knows of it
  plan,      \* the decision under way
  accepted,  \* the envelope being processed is in the audit log
  decided,   \* plans of this turn whose dispatch is in the audit log
  offered,   \* options of the dialog, once they are in the audit log
  chosen,    \* selections of the human in the audit log
  written,   \* records this turn added to the semantic memory
  acts,      \* history: what the turn did, and for which plan
  tension,   \* events of this turn in the tension ledger
  failed,    \* this turn is in the failure ledger
  writable,  \* the ledgers can be appended to; if not they swallow the error
  outcome    \* what the turn reported

auditVars == <<accepted, decided, offered, chosen>>
ledgerVars == <<tension, failed, writable>>
vars == <<pc, input, plan, auditVars, written, acts, ledgerVars, outcome>>

----------------------------------------------------------------------------
(* Plans *)

Dynamic == {"consultor_tiempo_local", "pdf_reader", "pdf_reader_basic", "docx_reader"}

Supported == {"store_in_semantic_memory", "respond"} \cup Dynamic

\* A local decision, with its nominal friction; its category is not its action.
LocalPlan(via, action) ==
  [via |-> via, action |-> action, R |-> 1, I |-> 1, N |-> 1, intentIsAction |-> FALSE]

NoPlan == LocalPlan("none", "none")

ProbabilityOK(x) == x \in 0..100

PathOK(path) == path = "relative"

\* parse_response: the last object of the answer, its keys, and its decision.
ValidDecision(a) ==
  /\ a.keys = "exact"
  /\ ProbabilityOK(a.R) /\ ProbabilityOK(a.I) /\ ProbabilityOK(a.N)
  /\ PathOK(a.path)

PlanOf(a) ==
  [via |-> "llm", action |-> a.action, R |-> a.R, I |-> a.I, N |-> a.N,
   intentIsAction |-> a.intentIsAction]

FastPlan == LocalPlan("fast", "respond")

\* A certified reflex that another process disabled between the two matches
\* leaves its greeting to the keywords.
LocalPlans(i) ==
  CASE i.trigger = "certified" -> {LocalPlan("reflex", "respond"), LocalPlan("keyword", "respond")}
    [] i.trigger = "approved" -> {LocalPlan("reflex", a) : a \in ReflexActions}
    [] i.trigger = "keyword" -> {LocalPlan("keyword", "respond")}
    [] i.source = "pdf" -> {LocalPlan("pdf", "respond")}
                             \cup {LocalPlan("pdf", a) : a \in AllowList \cap {"pdf_reader_basic"}}
    [] OTHER -> {}

Plans ==
  {FastPlan} \cup {PlanOf(a) : a \in {b \in Answers : ValidDecision(b)}}
    \cup {LocalPlan("reflex", a) : a \in ReflexActions \cup {"respond"}}
    \cup {LocalPlan("keyword", "respond")}
    \cup {LocalPlan("pdf", a) : a \in {"respond", "pdf_reader_basic"}}

----------------------------------------------------------------------------
(* ActionDispatcher *)

\* The score in ten-thousandths, with the weights, the internal context and the
\* rate that main.py gives; two different intents have one bit of entropy.
Entropy(p) == IF p.intentIsAction THEN 0 ELSE 1

IafaScore(p) ==
  LET score == 16400 - (40 * p.R + 30 * p.I + 20 * p.N) - 3000 * Entropy(p)
  IN IF score > 10000 THEN 10000 ELSE score

Status(p) ==
  IF IafaScore(p) < 7000 THEN "blocked_fallback"
  ELSE IF p.action \in Supported THEN "executed" ELSE "unsupported_fallback"

Stores(p) == Status(p) = "executed" /\ p.action = "store_in_semantic_memory"

NeedsFallback(p) == Status(p) # "executed"

----------------------------------------------------------------------------
(* Ledgers *)

\* _register_tension_event; a failure to append is swallowed.
Note(events) == tension' = IF writable THEN tension \cup events ELSE tension

RegisterFailure == failed' = writable

Did(kind) == acts' = acts \cup {[kind |-> kind, plan |-> plan]}

\* The text of the response is left out.
GenerateResponse == Did("respond")

\* What the rest of the turn looks at: the source, and what a reflex or a
\* keyword finds in the first hundred characters.
Envelope(source, trigger) == [source |-> source, trigger |-> trigger]

\* A PDF is not embedded in its envelope.
HasValue(envelope) == envelope.source # "pdf"

TurnInit ==
  /\ pc = "done"
  /\ input = Envelope("console", "none")
  /\ plan = NoPlan
  /\ accepted = FALSE
  /\ decided = {}
  /\ offered = {}
  /\ chosen = {}
  /\ written = 0
  /\ acts = {}
  /\ tension = {}
  /\ failed = FALSE
  /\ writable = TRUE
  /\ outcome = "none"

NewTurn(i, audited) ==
  /\ pc = "done"
  /\ input' = i
  /\ plan' = NoPlan
  /\ accepted' = audited
  /\ decided' = {} /\ offered' = {} /\ chosen' = {}
  /\ written' = 0
  /\ acts' = {}
  /\ tension' = {} /\ failed' = FALSE /\ writable' \in BOOLEAN
  /\ outcome' = "none"

----------------------------------------------------------------------------
(* Ingestion *)

Triggers == {"certified", "approved", "keyword", "none"}

FileKinds == {"text_file", "docx", "pdf"}

\* A line of the console; commands and blank lines are no turns.
ReadLine ==
  \E t \in Triggers : NewTurn(Envelope("console", t), FALSE) /\ pc' = "text"

\* --file: not a file, of no supported kind, too large, or not audited.
FileRefused ==
  \E s \in FileKinds :
    NewTurn(Envelope(s, "none"), FALSE) /\ pc' = "escaped"

\* A PDF is not read; its envelope has no value and goes to process_envelope.
\* Reflexes match it by its MIME type or by its intent.
PdfDetected ==
  \E t \in {"approved", "none"} :
    NewTurn(Envelope("pdf", t), TRUE) /\ pc' = "local"

\* The raw file is in the audit log; its text is not.
FileAccepted ==
  \E s \in FileKinds \ {"pdf"}, t \in Triggers :
    NewTurn(Envelope(s, t), FALSE) /\ pc' = "document"

\* It decodes, its digest and its structure are right, and it is audited.
TextExtracted ==
  /\ pc = "document"
  /\ pc' = "text"
  /\ UNCHANGED <<input, plan, auditVars, written, acts, ledgerVars, outcome>>

\* Among the failures: a text that process_input refuses because it is blank.
ExtractionFails ==
  /\ pc = "document"
  /\ pc' = "escaped"
  /\ UNCHANGED <<input, plan, auditVars, written, acts, ledgerVars, outcome>>

\* process_input makes an envelope of any text, also of one from a file.
TextAccepted ==
  /\ pc = "text"
  /\ accepted' = TRUE
  /\ pc' = IF input.trigger = "certified" THEN "fast" ELSE "local"
  /\ UNCHANGED <<input, plan, decided, offered, chosen, written, acts, ledgerVars, outcome>>

TextNotAudited ==
  /\ pc = "text"
  /\ pc' = "failed"
  /\ UNCHANGED <<input, plan, auditVars, written, acts, ledgerVars, outcome>>

----------------------------------------------------------------------------
(* Routing and planning *)

CheckFastPath ==
  /\ pc = "fast"
  /\ plan' = FastPlan
  /\ pc' = "dispatch"
  /\ UNCHANGED <<input, auditVars, written, acts, ledgerVars, outcome>>

RouteLocally ==
  /\ pc = "local"
  /\ plan' \in LocalPlans(input)
  /\ pc' = "dispatch"
  /\ UNCHANGED <<input, auditVars, written, acts, ledgerVars, outcome>>

\* The LLM answers; a rejected answer fails the turn whether or not it is audited.
PlannerAccepts(a) ==
  /\ pc = "local"
  /\ LocalPlans(input) = {}
  /\ ValidDecision(a)
  /\ plan' = PlanOf(a)
  /\ pc' = "dispatch"
  /\ Did("query")
  /\ UNCHANGED <<input, auditVars, written, ledgerVars, outcome>>

\* No answer, an answer that is not valid, or a plan that is not audited.
PlannerFails ==
  /\ pc = "local"
  /\ LocalPlans(input) = {}
  /\ pc' = "failed"
  /\ Did("query")
  /\ UNCHANGED <<input, plan, auditVars, written, ledgerVars, outcome>>

----------------------------------------------------------------------------
(* Dispatch *)

\* The effect comes first, then its record.
Dispatch ==
  /\ pc = "dispatch"
  /\ decided' = decided \cup {plan}
  /\ written' = IF Stores(plan) THEN written + 1 ELSE written
  /\ Note({"dispatch"})
  /\ pc' = IF plan.via = "fast" THEN "answer"
           ELSE IF NeedsFallback(plan) THEN "doubt" ELSE "execute"
  /\ UNCHANGED <<input, plan, accepted, offered, chosen, acts, failed, writable, outcome>>

\* A dispatch that is not recorded is tried again.
AfterFailedRecordRetried(p) == "dispatch"

\* As if an append to the audit log swallowed its error, like the ledgers do.
AfterFailedRecordSwallowed(p) ==
  IF p.via = "fast" THEN "answer" ELSE IF NeedsFallback(p) THEN "doubt" ELSE "execute"

\* A fast-path turn swallows the exception and is routed again.
AfterFailedRecord(p) == IF p.via = "fast" THEN "local" ELSE "failed"

DispatchNotAudited ==
  /\ pc = "dispatch"
  /\ written' = IF Stores(plan) THEN written + 1 ELSE written
  /\ pc' = AfterFailedRecord(plan)
  /\ UNCHANGED <<input, plan, auditVars, acts, ledgerVars, outcome>>

\* The fast path responds and is completed.
AnswerFast ==
  /\ pc = "answer"
  /\ GenerateResponse
  /\ outcome' = "completed"
  /\ pc' = "done"
  /\ UNCHANGED <<input, plan, auditVars, written, ledgerVars>>

Respond ==
  /\ pc = "execute"
  /\ plan.action = "respond"
  /\ GenerateResponse
  /\ outcome' = "executed"
  /\ pc' = "done"
  /\ UNCHANGED <<input, plan, auditVars, written, ledgerVars>>

ReportStored ==
  /\ pc = "execute"
  /\ plan.action = "store_in_semantic_memory"
  /\ outcome' = "executed"
  /\ pc' = "done"
  /\ UNCHANGED <<input, plan, auditVars, written, acts, ledgerVars>>

\* The skill runs, to its end or not; a failure is told in the response and
\* leaves the status of the dispatch.
RunSkill ==
  /\ pc = "execute"
  /\ plan.action \in Dynamic \cap AllowList
  /\ Did("skill")
  /\ \E end \in {"experimental_skill_invoked", "experimental_skill_failed"} :
       Note({"experimental_iafa_evaluated", end})
  /\ outcome' = "executed"
  /\ pc' = "done"
  /\ UNCHANGED <<input, plan, auditVars, written, failed, writable>>

\* Not in the allowlist, not on disk, or it does not load.
SkillRefused ==
  /\ pc = "execute"
  /\ plan.action \in Dynamic
  /\ Note({"experimental_iafa_evaluated", "experimental_skill_failed"})
  /\ outcome' = "executed"
  /\ pc' = "done"
  /\ UNCHANGED <<input, plan, auditVars, written, acts, failed, writable>>

----------------------------------------------------------------------------
(* Evolutionary doubt *)

ActionTypes == {"ask_human", "sandbox_code", "abort"}

\* Three hypotheses of any types, or the default of aborting.
Hypotheses == (SUBSET ActionTypes) \ {{}}

\* They are audited before the dialog opens.
OfferHypotheses ==
  /\ pc = "doubt"
  /\ offered' \in Hypotheses
  /\ acts' = acts \cup {[kind |-> k, plan |-> plan] : k \in {"query", "dialog"}}
  /\ pc' = "dialog"
  /\ UNCHANGED <<input, plan, accepted, decided, chosen, written, ledgerVars, outcome>>

\* The LLM does not answer, or the options are not audited.
HypothesesFail ==
  /\ pc = "doubt"
  /\ Did("query")
  /\ pc' = "failed"
  /\ UNCHANGED <<input, plan, auditVars, written, ledgerVars, outcome>>

SelectableAny == ActionTypes

\* A button of the dialog; closing it aborts.
Selectable == offered \cup {"abort"}

Select ==
  /\ pc = "dialog"
  /\ \E a \in Selectable : chosen' = chosen \cup {a}
  /\ pc' = "chosen"
  /\ UNCHANGED <<input, plan, accepted, decided, offered, written, acts, ledgerVars, outcome>>

SelectionNotAudited ==
  /\ pc = "dialog"
  /\ pc' = "failed"
  /\ UNCHANGED <<input, plan, auditVars, written, acts, ledgerVars, outcome>>

EndDialog ==
  /\ pc = "chosen"
  /\ \/ "abort" \in chosen /\ outcome' = "aborted"
     \/ "ask_human" \in chosen /\ outcome' = "awaiting_human_feedback"
  /\ Note({"outcome_update"})
  /\ pc' = "done"
  /\ UNCHANGED <<input, plan, auditVars, written, acts, failed, writable>>

\* A candidate is generated, or reported as failed.
AnalyseCapability ==
  /\ pc = "chosen"
  /\ "sandbox_code" \in chosen
  /\ Did("analysis")
  /\ Note({"outcome_update", "genesis_sandbox_analysis"})
  /\ outcome' = "analysis"
  /\ pc' = "done"
  /\ UNCHANGED <<input, plan, auditVars, written, failed, writable>>

\* The sandbox's record or the candidate's file cannot be written.
AnalysisFails ==
  /\ pc = "chosen"
  /\ "sandbox_code" \in chosen
  /\ Did("analysis")
  /\ Note({"outcome_update"})
  /\ pc' = "failed"
  /\ UNCHANGED <<input, plan, auditVars, written, failed, writable, outcome>>

----------------------------------------------------------------------------
(* Failures *)

\* _error_result hashes the value of the envelope: that of a PDF is None, and
\* the exception escapes from process_envelope.
ErrorResult ==
  /\ pc = "failed"
  /\ HasValue(input)
  /\ Note({"error"})
  /\ RegisterFailure
  /\ outcome' = "error"
  /\ pc' = "done"
  /\ UNCHANGED <<input, plan, auditVars, written, acts, writable>>

ErrorResultRaises ==
  /\ pc = "failed"
  /\ ~HasValue(input)
  /\ pc' = "escaped"
  /\ UNCHANGED <<input, plan, auditVars, written, acts, ledgerVars, outcome>>

\* bootstrap awaits append_failure with arguments it does not take: the
\* TypeError ends the program and nothing is registered.
BootstrapFails ==
  /\ pc = "escaped"
  /\ outcome' = "bootstrap_failed"
  /\ pc' = "done"
  /\ UNCHANGED <<input, plan, auditVars, written, acts, ledgerVars>>

TurnNext ==
  \/ ReadLine \/ FileRefused \/ PdfDetected \/ FileAccepted
  \/ TextExtracted \/ ExtractionFails \/ TextAccepted \/ TextNotAudited
  \/ CheckFastPath \/ RouteLocally
  \/ \E a \in Answers : PlannerAccepts(a)
  \/ PlannerFails
  \/ Dispatch \/ DispatchNotAudited
  \/ AnswerFast \/ Respond \/ ReportStored \/ RunSkill \/ SkillRefused
  \/ OfferHypotheses \/ HypothesesFail \/ Select \/ SelectionNotAudited
  \/ EndDialog \/ AnalyseCapability \/ AnalysisFails
  \/ ErrorResult \/ ErrorResultRaises \/ BootstrapFails

TurnSpec == TurnInit /\ [][TurnNext]_vars

----------------------------------------------------------------------------
(* Properties *)

(* What the planner accepts and the router makes is a plan the dispatcher can *)
(* score, and a turn writes to the semantic memory at most once, also when it *)
(* is dispatched twice.                                                      *)
TurnTypeOK ==
  /\ pc \in {"done", "document", "text", "fast", "local", "dispatch", "answer", "execute",
             "doubt", "dialog", "chosen", "failed", "escaped"}
  /\ input \in [source : FileKinds \cup {"console"}, trigger : Triggers]
  /\ plan \in Plans \cup {NoPlan}
  /\ accepted \in BOOLEAN
  /\ decided \subseteq Plans
  /\ offered \subseteq ActionTypes
  /\ chosen \subseteq ActionTypes
  /\ written \in 0..1
  /\ acts \subseteq [kind : {"query", "respond", "skill", "dialog", "analysis"},
                     plan : Plans \cup {NoPlan}]
  /\ tension \subseteq {"dispatch", "experimental_iafa_evaluated", "experimental_skill_invoked",
                        "experimental_skill_failed", "outcome_update",
                        "genesis_sandbox_analysis", "error"}
  /\ failed \in BOOLEAN
  /\ writable \in BOOLEAN
  /\ outcome \in {"none", "completed", "executed", "aborted", "awaiting_human_feedback",
                  "analysis", "error", "bootstrap_failed"}

(* What a turn does has its reasons in the audit log already, whichever       *)
(* append failed and however often the turn was dispatched: the LLM is asked  *)
(* about an envelope the log has; a response or a skill follows a recorded    *)
(* execution of that plan, a dialog a recorded refusal of it, and an analysis *)
(* a recorded choice of an option that was offered on the record.  A turn     *)
(* that reports no error reports what the record says.                       *)
ActsOnRecord ==
  /\ \A a \in acts :
       /\ a.kind = "query" => accepted
       /\ a.kind \in {"respond", "skill"} => a.plan \in decided /\ Status(a.plan) = "executed"
       /\ a.kind = "dialog" => a.plan \in decided /\ Status(a.plan) # "executed" /\ offered # {}
       /\ a.kind = "analysis" => a.plan \in decided /\ "sandbox_code" \in chosen \cap offered
  /\ "dispatch" \in tension => decided # {}
  /\ outcome \in {"completed", "executed"} => plan \in decided /\ Status(plan) = "executed"
  /\ outcome \in {"aborted", "awaiting_human_feedback", "analysis"} =>
       plan \in decided /\ chosen # {} /\ chosen \subseteq offered \cup {"abort"}

(* What is in the semantic memory without a record of its approval belongs to *)
(* a turn that is failing or reported as failed; nothing is written twice for *)
(* one record.                                                               *)
EffectsAccounted ==
  \/ written = Cardinality({p \in decided : Stores(p)})
  \/ pc \in {"failed", "escaped"}
  \/ outcome \in {"error", "bootstrap_failed"}

(* "Registramos el fallo de forma segura": a turn that failed is in the       *)
(* failure ledger, if that can be written.                                   *)
FailureRegistered ==
  outcome \in {"error", "bootstrap_failed"} /\ writable => failed
=============================================================================
