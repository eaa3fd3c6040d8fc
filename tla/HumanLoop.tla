----------------------------- MODULE HumanLoop -----------------------------
(***************************************************************************)
(* The human in the loop of the interactive process.  Two asyncio tasks ask *)
(* the user through an EvolutionDialog: the console, whose turn was blocked *)
(* by the dispatcher (CognitiveOrchestrator.handle_fallback_cycle), and     *)
(* SparkEngine, whose pulse has a doubt (handle_evolutionary_doubt).  Both  *)
(* route the answer through MainOrchestrator, which the next line typed at *)
(* the console and the semantic tension ledger then depend on.  Each action *)
(* is the code a task runs between two awaits.                              *)
(***************************************************************************)
EXTENDS Naturals, FiniteSets

CONSTANTS
  Cooldown,     \* GREYS_SPARK_COOLDOWN, in ticks
  DamageLimit,  \* damage that suppresses a proposal: a doubt counts 1, a veto 3
  MaxTurns,     \* bound: lines typed at the console
  MaxDoubts     \* bound: pulses of Spark that lead to a doubt

ASSUME HumanAssumption ==
  /\ {Cooldown, MaxTurns, MaxDoubts} \subseteq Nat
  /\ DamageLimit \in Nat \ {0}

Askers == {"console", "spark"}

Turns == 1..MaxTurns

\* What a doubt of Spark is about: a plan of the LLM on the audited failures, or
\* a capability missing three times.
Doubts == {"reflection", "missing_capability"}

\* The actions offered by a dialog; closing it means abort.
Choices == {"abort", "ask_human", "sandbox_code"}

Answers == Choices \cup {"none"}

Outcomes == (Answers \ {"abort"}) \cup {"rejected"}

VARIABLES
  uiEnabled,     \* GREYS_EVOLUTION_UI_ENABLED
  pc,            \* where each task stands
  dialog,        \* the open dialog of each task and its future
  selected,      \* the selection each task is routing
  awaiting,      \* awaiting_human_feedback
  turn,          \* number of the console's turn
  outcome,       \* tension ledger: user_outcome recorded for each turn's doubt
  doubt,         \* the doubt Spark is handling
  doubts,        \* doubts of Spark so far
  damage,        \* tension ledger: damage recorded for each kind of doubt
  sinceProposal, \* time since _last_proposal_time, saturating at Cooldown
  stressed,      \* the host is under stress
  stopping,      \* Spark's task has been cancelled
  firstSignal,   \* history: first signal of the dialog each task showed last
  requested,     \* history: times the user chose to be asked
  fedBack,       \* history: lines taken for that feedback
  sinceShown     \* history: time since Spark last opened a dialog

ledgerVars == <<outcome, damage>>
sparkVars == <<doubt, doubts, sinceProposal, stopping>>
historyVars == <<firstSignal, requested, fedBack, sinceShown>>
loopVars == <<pc, dialog, selected, awaiting, turn, ledgerVars, sparkVars, stressed,
              historyVars, uiEnabled>>

NoDialog == [shown |-> FALSE, answer |-> "none"]

ConsoleStates == {"reading", "turn", "hypotheses", "dialog", "auditing", "analysis",
                  "stopping", "closed"}

SparkStates == {"sleeping", "planning", "announcing", "dialog", "auditing", "analysis",
                "stopped"}

----------------------------------------------------------------------------
(* SemanticFatiguePolicy.evaluate, within one half-life: no decay.  Nothing in  *)
(* the code records a dismissal of a doubt, so that only the damage counts.    *)

Suppressed(d) == damage[d] >= DamageLimit

Harm(d, amount) ==
  damage' = [damage EXCEPT ![d] = IF @ + amount > DamageLimit THEN DamageLimit ELSE @ + amount]

----------------------------------------------------------------------------
(* CognitiveOrchestrator._await_dialog_selection and the dialog *)

OpenDialog(a) ==
  /\ dialog' = [dialog EXCEPT ![a] = [shown |-> TRUE, answer |-> "none"]]
  /\ firstSignal' = [firstSignal EXCEPT ![a] = "none"]

CloseDialog(a) == dialog' = [dialog EXCEPT ![a] = NoDialog]

CompleteLast(a, c) == dialog' = [dialog EXCEPT ![a].answer = c]

\* complete and complete_as_abort: `if not future.done()`.
Complete(a, c) ==
  dialog' = [dialog EXCEPT ![a].answer = IF @ = "none" THEN c ELSE @]

UserChoosesRaw(a, c) ==
  /\ dialog[a].shown
  /\ firstSignal[a] = "none"
  /\ Complete(a, IF c = "abort" THEN "rejected" ELSE c)
  /\ firstSignal' = [firstSignal EXCEPT ![a] = c]
  /\ UNCHANGED <<pc, selected, awaiting, turn, ledgerVars, sparkVars, stressed, requested,
                 fedBack, sinceShown>>

\* The user clicks an option or closes the window.
UserChooses(a, c) ==
  /\ dialog[a].shown
  /\ firstSignal[a] = "none"
  /\ Complete(a, c)
  /\ firstSignal' = [firstSignal EXCEPT ![a] = c]
  /\ UNCHANGED <<pc, selected, awaiting, turn, ledgerVars, sparkVars, stressed, requested,
                 fedBack, sinceShown>>

\* A clicked dialog hides and deletes itself: "destroyed" arrives, as an abort.
DialogDestroyed(a) ==
  /\ dialog[a].shown
  /\ firstSignal[a] # "none"
  /\ Complete(a, "abort")
  /\ UNCHANGED <<pc, selected, awaiting, turn, ledgerVars, sparkVars, stressed, historyVars>>

\* The task resumes with the answer, disposes of the dialog and audits.
TakeAnswer(a) ==
  /\ pc[a] = "dialog"
  /\ dialog[a].answer # "none"
  /\ selected' = [selected EXCEPT ![a] = dialog[a].answer]
  /\ CloseDialog(a)
  /\ pc' = [pc EXCEPT ![a] = "auditing"]
  /\ requested' = IF dialog[a].answer = "ask_human" THEN requested + 1 ELSE requested
  /\ UNCHANGED <<awaiting, turn, ledgerVars, sparkVars, stressed, firstSignal, fedBack, sinceShown>>

----------------------------------------------------------------------------
LoopInit ==
  /\ uiEnabled \in BOOLEAN
  /\ pc = [a \in Askers |-> IF a = "console" THEN "reading" ELSE "sleeping"]
  /\ dialog = [a \in Askers |-> NoDialog]
  /\ selected = [a \in Askers |-> "none"]
  /\ awaiting = FALSE
  /\ turn = 0
  /\ outcome = [t \in Turns |-> "none"]
  /\ doubt = "none"
  /\ doubts = 0
  /\ damage = [d \in Doubts |-> 0]
  /\ sinceProposal = Cooldown
  /\ stressed \in BOOLEAN
  /\ stopping = FALSE
  /\ firstSignal = [a \in Askers |-> "none"]
  /\ requested = 0
  /\ fedBack = 0
  /\ sinceShown = Cooldown

(* The console: run_interactive, process_input, process_envelope *)

ReadLineKeepsFlag ==
  /\ pc["console"] = "reading"
  /\ turn < MaxTurns
  /\ turn' = turn + 1
  /\ fedBack' = IF awaiting THEN fedBack + 1 ELSE fedBack
  /\ pc' = [pc EXCEPT !["console"] = "turn"]
  /\ UNCHANGED <<dialog, selected, awaiting, ledgerVars, sparkVars, stressed, firstSignal,
                 requested, sinceShown>>

\* The line is declared human_feedback if a request is pending, which is
\* forgotten at once, whatever becomes of the turn.
ReadLine ==
  /\ pc["console"] = "reading"
  /\ turn < MaxTurns
  /\ turn' = turn + 1
  /\ fedBack' = IF awaiting THEN fedBack + 1 ELSE fedBack
  /\ awaiting' = FALSE
  /\ pc' = [pc EXCEPT !["console"] = "turn"]
  /\ UNCHANGED <<dialog, selected, ledgerVars, sparkVars, stressed, firstSignal, requested,
                 sinceShown>>

\* The turn is dispatched, or fails; or the generation of hypotheses fails.
EndTurn ==
  /\ pc["console"] \in {"turn", "hypotheses"}
  /\ pc' = [pc EXCEPT !["console"] = "reading"]
  /\ UNCHANGED <<dialog, selected, awaiting, turn, ledgerVars, sparkVars, stressed, historyVars>>

\* The dispatch needs a fallback: the LLM is asked for hypotheses.
NeedFallback ==
  /\ pc["console"] = "turn"
  /\ pc' = [pc EXCEPT !["console"] = "hypotheses"]
  /\ UNCHANGED <<dialog, selected, awaiting, turn, ledgerVars, sparkVars, stressed, historyVars>>

ShowHypotheses ==
  /\ pc["console"] = "hypotheses"
  /\ OpenDialog("console")
  /\ pc' = [pc EXCEPT !["console"] = "dialog"]
  /\ UNCHANGED <<selected, awaiting, turn, ledgerVars, sparkVars, stressed, requested, fedBack,
                 sinceShown>>

\* _handle_fallback_selection.
RouteConsoleSelection ==
  /\ pc["console"] = "auditing"
  /\ outcome' = [outcome EXCEPT ![turn] =
                   IF selected["console"] = "abort" THEN "rejected" ELSE selected["console"]]
  /\ awaiting' = (awaiting \/ selected["console"] = "ask_human")
  /\ pc' = [pc EXCEPT !["console"] =
              IF selected["console"] = "sandbox_code" THEN "analysis" ELSE "reading"]
  /\ selected' = [selected EXCEPT !["console"] = "none"]
  /\ UNCHANGED <<dialog, turn, damage, sparkVars, stressed, historyVars>>

\* The audit log cannot be written: the turn ends in an error result, and a
\* request to be asked is dropped with it.
ConsoleAuditFails ==
  /\ pc["console"] = "auditing"
  /\ pc' = [pc EXCEPT !["console"] = "reading"]
  /\ selected' = [selected EXCEPT !["console"] = "none"]
  /\ UNCHANGED <<dialog, awaiting, turn, ledgerVars, sparkVars, stressed, historyVars>>

EndAnalysis ==
  /\ pc["console"] = "analysis"
  /\ pc' = [pc EXCEPT !["console"] = "reading"]
  /\ UNCHANGED <<dialog, selected, awaiting, turn, ledgerVars, sparkVars, stressed, historyVars>>

\* /quit or the end of the input: bootstrap awaits spark.stop().
Quit ==
  /\ pc["console"] = "reading"
  /\ pc' = [pc EXCEPT !["console"] = "stopping"]
  /\ stopping' = TRUE
  /\ UNCHANGED <<dialog, selected, awaiting, turn, ledgerVars, doubt, doubts, sinceProposal,
                 stressed, historyVars>>

Close ==
  /\ pc["console"] = "stopping"
  /\ pc["spark"] = "stopped"
  /\ pc' = [pc EXCEPT !["console"] = "closed"]
  /\ UNCHANGED <<dialog, selected, awaiting, turn, ledgerVars, sparkVars, stressed, historyVars>>

----------------------------------------------------------------------------
(* SparkEngine.pulse; the idle probe of bootstrap always says yes *)

PulseDueAtOnce == pc["spark"] = "sleeping" /\ ~stopping /\ ~stressed /\ doubts < MaxDoubts

PulseDue ==
  /\ pc["spark"] = "sleeping"
  /\ ~stopping
  /\ ~stressed
  /\ sinceProposal = Cooldown
  /\ doubts < MaxDoubts

\* A capability has failed three times.  The ledger is asked about
\* "skill_needed:...", under which nothing is ever recorded, and the doubt is
\* recorded, as 3 of damage, under another signature.
PulseOnMissingCapability ==
  /\ PulseDue
  /\ Harm("missing_capability", 3)
  /\ doubt' = "missing_capability"
  /\ doubts' = doubts + 1
  /\ pc' = [pc EXCEPT !["spark"] = "announcing"]
  /\ UNCHANGED <<dialog, selected, awaiting, turn, outcome, sinceProposal, stopping,
                 stressed, historyVars>>

\* The audit log shows rejected plans: the planner is asked for a reflection.
PulseOnSignals ==
  /\ PulseDue
  /\ doubt' = "reflection"
  /\ doubts' = doubts + 1
  /\ pc' = [pc EXCEPT !["spark"] = "planning"]
  /\ UNCHANGED <<dialog, selected, awaiting, turn, ledgerVars, sinceProposal, stopping, stressed,
                 historyVars>>

\* No plan, a plan the fatigue policy suppresses, or one IAFA vetoes.
DropPlan ==
  /\ pc["spark"] = "planning"
  /\ ~stopping
  /\ \/ UNCHANGED damage
     \/ ~Suppressed(doubt) /\ Harm(doubt, 3)
  /\ doubt' = "none"
  /\ pc' = [pc EXCEPT !["spark"] = "sleeping"]
  /\ UNCHANGED <<dialog, selected, awaiting, turn, outcome, doubts, sinceProposal,
                 stopping, stressed, historyVars>>

AnnouncePlan ==
  /\ pc["spark"] = "planning"
  /\ ~stopping
  /\ ~Suppressed(doubt)
  /\ pc' = [pc EXCEPT !["spark"] = "announcing"]
  /\ UNCHANGED <<dialog, selected, awaiting, turn, ledgerVars, sparkVars, stressed, historyVars>>

\* The pulse is over: a reflection is recorded, and the cooldown starts.
EndDoubt ==
  /\ IF doubt = "reflection" THEN Harm(doubt, 1) ELSE UNCHANGED damage
  /\ sinceProposal' = 0
  /\ doubt' = "none"
  /\ pc' = [pc EXCEPT !["spark"] = "sleeping"]

\* handle_evolutionary_doubt: the doubt is audited, then shown if the UI is on.
ShowDoubt ==
  /\ pc["spark"] = "announcing"
  /\ ~stopping
  /\ uiEnabled
  /\ OpenDialog("spark")
  /\ sinceShown' = 0
  /\ pc' = [pc EXCEPT !["spark"] = "dialog"]
  /\ UNCHANGED <<selected, awaiting, turn, ledgerVars, sparkVars, stressed, requested, fedBack>>

SkipDoubt ==
  /\ pc["spark"] = "announcing"
  /\ ~stopping
  /\ ~uiEnabled
  /\ EndDoubt
  /\ UNCHANGED <<dialog, selected, awaiting, turn, outcome, doubts, stopping, stressed,
                 historyVars>>

\* The doubt cannot be audited: a reflection ends here, while the error of a
\* missing capability ends the pulse without a cooldown.
DoubtAuditFails ==
  /\ pc["spark"] = "announcing"
  /\ ~stopping
  /\ IF doubt = "reflection" THEN EndDoubt
     ELSE /\ doubt' = "none"
          /\ pc' = [pc EXCEPT !["spark"] = "sleeping"]
          /\ UNCHANGED <<damage, sinceProposal>>
  /\ UNCHANGED <<dialog, selected, awaiting, turn, outcome, doubts, stopping, stressed,
                 historyVars>>

\* The selection is routed.  A dismissal is logged only; the outcome of the
\* others is recorded under "unknown:unknown", which no proposal has.
RouteSparkSelection ==
  /\ pc["spark"] = "auditing"
  /\ ~stopping
  /\ awaiting' = (awaiting \/ selected["spark"] = "ask_human")
  /\ selected' = [selected EXCEPT !["spark"] = "none"]
  /\ IF selected["spark"] = "sandbox_code"
     THEN /\ pc' = [pc EXCEPT !["spark"] = "analysis"]
          /\ UNCHANGED <<damage, sinceProposal, doubt>>
     ELSE EndDoubt
  /\ UNCHANGED <<dialog, turn, outcome, doubts, stopping, stressed, historyVars>>

\* The failure to audit the selection is logged, and the selection dropped.
SparkAuditFails ==
  /\ pc["spark"] = "auditing"
  /\ ~stopping
  /\ EndDoubt
  /\ selected' = [selected EXCEPT !["spark"] = "none"]
  /\ UNCHANGED <<dialog, awaiting, turn, outcome, doubts, stopping, stressed, historyVars>>

EndSparkAnalysis ==
  /\ pc["spark"] = "analysis"
  /\ ~stopping
  /\ EndDoubt
  /\ UNCHANGED <<dialog, selected, awaiting, turn, outcome, doubts, stopping, stressed,
                 historyVars>>

SparkCancelledInPlace ==
  /\ stopping
  /\ pc["spark"] # "stopped"
  /\ pc' = [pc EXCEPT !["spark"] = "stopped"]
  /\ selected' = [selected EXCEPT !["spark"] = "none"]
  /\ UNCHANGED <<dialog, awaiting, turn, ledgerVars, sparkVars, stressed, historyVars>>

SparkCancelledAsleep ==
  /\ stopping
  /\ pc["spark"] = "sleeping"
  /\ pc' = [pc EXCEPT !["spark"] = "stopped"]
  /\ selected' = [selected EXCEPT !["spark"] = "none"]
  /\ CloseDialog("spark")
  /\ UNCHANGED <<awaiting, turn, ledgerVars, sparkVars, stressed, historyVars>>

\* CancelledError at whatever Spark awaits; the finally of the dialog runs.
SparkCancelled ==
  /\ stopping
  /\ pc["spark"] # "stopped"
  /\ pc' = [pc EXCEPT !["spark"] = "stopped"]
  /\ selected' = [selected EXCEPT !["spark"] = "none"]
  /\ CloseDialog("spark")
  /\ UNCHANGED <<awaiting, turn, ledgerVars, sparkVars, stressed, historyVars>>

Tick ==
  /\ sinceProposal < Cooldown \/ sinceShown < Cooldown
  /\ sinceProposal' = IF sinceProposal < Cooldown THEN sinceProposal + 1 ELSE sinceProposal
  /\ sinceShown' = IF sinceShown < Cooldown THEN sinceShown + 1 ELSE sinceShown
  /\ UNCHANGED <<pc, dialog, selected, awaiting, turn, ledgerVars, doubt, doubts, stopping, stressed,
                 firstSignal, requested, fedBack>>

HostLoad ==
  /\ stressed' = ~stressed
  /\ UNCHANGED <<pc, dialog, selected, awaiting, turn, ledgerVars, sparkVars, historyVars>>

ConsoleStep ==
  \/ ReadLine \/ EndTurn \/ NeedFallback \/ ShowHypotheses
  \/ TakeAnswer("console") \/ RouteConsoleSelection \/ ConsoleAuditFails \/ EndAnalysis
  \/ Quit \/ Close

SparkStep ==
  \/ PulseOnMissingCapability \/ PulseOnSignals \/ DropPlan \/ AnnouncePlan
  \/ ShowDoubt \/ SkipDoubt \/ DoubtAuditFails
  \/ ~stopping /\ TakeAnswer("spark")
  \/ RouteSparkSelection \/ SparkAuditFails \/ EndSparkAnalysis \/ SparkCancelled

User ==
  \E a \in Askers :
    (\E c \in Choices : UserChooses(a, c)) \/ DialogDestroyed(a)

LoopNext == (ConsoleStep \/ SparkStep \/ User \/ Tick \/ HostLoad) /\ UNCHANGED uiEnabled

\* The event loop delivers the cancellation and resumes bootstrap; nothing is
\* assumed of the user.
LoopSpec ==
  LoopInit /\ [][LoopNext]_loopVars
    /\ WF_loopVars(SparkCancelled /\ UNCHANGED uiEnabled)
    /\ WF_loopVars(Close /\ UNCHANGED uiEnabled)

----------------------------------------------------------------------------
(* Properties *)

(* The tasks, dialogs and counters keep their types; in particular a turn     *)
(* that is being routed exists, and so does the doubt Spark is handling.     *)
LoopTypeOK ==
  /\ uiEnabled \in BOOLEAN
  /\ pc["console"] \in ConsoleStates /\ pc["spark"] \in SparkStates
  /\ dialog \in [Askers -> [shown : BOOLEAN, answer : Answers]]
  /\ selected \in [Askers -> Answers]
  /\ awaiting \in BOOLEAN
  /\ turn \in 0..MaxTurns
  /\ pc["console"] \in {"turn", "hypotheses", "dialog", "auditing", "analysis"} => turn \in Turns
  /\ outcome \in [Turns -> Outcomes]
  /\ doubt \in Doubts \cup {"none"}
  /\ pc["spark"] \notin {"sleeping", "stopped"} => doubt \in Doubts
  /\ doubts \in 0..MaxDoubts
  /\ damage \in [Doubts -> 0..DamageLimit]
  /\ sinceProposal \in 0..Cooldown /\ sinceShown \in 0..Cooldown
  /\ stressed \in BOOLEAN /\ stopping \in BOOLEAN
  /\ firstSignal \in [Askers -> Answers]
  /\ requested \in Nat /\ fedBack \in Nat

(* A dialog is on the screen exactly while its task waits for it: none is     *)
(* left behind when the answer, or the cancellation of Spark, arrives, and a  *)
(* task never waits for a dialog that is gone.                               *)
DialogAwaited == \A a \in Askers : dialog[a].shown <=> pc[a] = "dialog"

(* What is routed is what the user did first: the "destroyed" signal that     *)
(* follows every click, and is connected to abort, never replaces the answer. *)
FirstSignalWins ==
  \A a \in Askers : pc[a] = "auditing" => selected[a] = firstSignal[a]

(* A line is taken for human feedback only if the user asked to be asked, and *)
(* once per request, although two dialogs may raise requests while the        *)
(* console is in the middle of a turn.                                       *)
FeedbackWasRequested == fedBack + (IF awaiting THEN 1 ELSE 0) <= requested

(* Spark interrupts the user at most once per cooldown, however long the user *)
(* takes to answer and whatever fails in between.                            *)
DoubtsSpaced ==
  [][(pc["spark"] # "dialog" /\ pc'["spark"] = "dialog") => sinceShown = Cooldown]_loopVars

(* Quitting ends the process, even with a doubt on the screen that nobody     *)
(* answers: spark.stop() does not wait for the user.                         *)
ShutdownCompletes == (pc["console"] = "stopping") ~> (pc["console"] = "closed")

(* "Si una firma de propuesta ha acumulado un dano superior al umbral          *)
(* configurado, la propuesta se suprime silenciosamente": a pulse announces no *)
(* doubt whose damage had reached the limit when it began.                   *)
FatigueSuppresses ==
  [][(pc["spark"] # "announcing" /\ pc'["spark"] = "announcing")
       => damage[doubt'] < DamageLimit]_loopVars
=============================================================================
