-------------------------- MODULE HumanLoopProofs --------------------------
(* Theorems about HumanLoop, for any cooldown, damage limit and bounds: the  *)
(* types, the dialogs, the answers taken from them, the feedback requests    *)
(* and the spacing of Spark's doubts.  Each invariant has a part of its own, *)
(* over few variables, and one lemma that every step keeps it.               *)
EXTENDS HumanLoop, TLAPS

\* What the other parts need of the types.
ShapeInv ==
  /\ pc \in [Askers -> ConsoleStates \cup SparkStates]
  /\ dialog \in [Askers -> [shown : BOOLEAN, answer : Answers]]
  /\ selected \in [Askers -> Answers]
  /\ firstSignal \in [Askers -> Answers]

\* The future of an open dialog holds the user's first signal.
AnswerInv == \A a \in Askers : dialog[a].shown => dialog[a].answer = firstSignal[a]

DialogInv == ShapeInv /\ DialogAwaited /\ AnswerInv /\ FirstSignalWins

\* A request taken from a dialog that still has to be routed.
Pending(a) == IF pc[a] = "auditing" /\ selected[a] = "ask_human" THEN 1 ELSE 0

FeedbackInv ==
  /\ awaiting \in BOOLEAN
  /\ requested \in Nat /\ fedBack \in Nat
  /\ fedBack + (IF awaiting THEN 1 ELSE 0) + Pending("console") + Pending("spark") <= requested

\* Between two doubts, no dialog was shown since the last one ended; a pulse
\* under way began after the cooldown.
SpacingInv ==
  /\ sinceProposal \in 0..Cooldown /\ sinceShown \in 0..Cooldown
  /\ pc["spark"] \in {"sleeping", "planning", "announcing"} => sinceProposal <= sinceShown
  /\ pc["spark"] \in {"planning", "announcing"} => sinceProposal = Cooldown

\* Where the two tasks stand, and what they work on there.
PlaceInv ==
  /\ pc["console"] \in ConsoleStates /\ pc["spark"] \in SparkStates
  /\ turn \in 0..MaxTurns
  /\ pc["console"] \in {"turn", "hypotheses", "dialog", "auditing", "analysis"} => turn \in Turns
  /\ doubt \in Doubts \cup {"none"}
  /\ pc["spark"] \notin {"sleeping", "stopped"} => doubt \in Doubts
  /\ doubts \in 0..MaxDoubts

RecordsInv ==
  /\ outcome \in [Turns -> Outcomes]
  /\ damage \in [Doubts -> 0..DamageLimit]

FlagsInv == uiEnabled \in BOOLEAN /\ stressed \in BOOLEAN /\ stopping \in BOOLEAN

LoopInv == DialogInv /\ FeedbackInv /\ SpacingInv /\ PlaceInv /\ RecordsInv /\ FlagsInv

----------------------------------------------------------------------------
(* Dialogs and answers *)

\* A step that opens no dialog, takes no answer and hears no signal.
QuietStep ==
  /\ UNCHANGED <<dialog, firstSignal>>
  /\ \/ UNCHANGED <<pc, selected>>
     \/ \E a \in Askers, s \in (ConsoleStates \cup SparkStates) \ {"dialog", "auditing"} :
          /\ pc[a] # "dialog"
          /\ pc' = [pc EXCEPT ![a] = s]
          /\ selected' \in {selected, [selected EXCEPT ![a] = "none"]}

LEMMA QuietKeepsDialogs ==
  ASSUME DialogInv, QuietStep
  PROVE  DialogInv'
  BY DEF DialogInv, ShapeInv, DialogAwaited, AnswerInv, FirstSignalWins, QuietStep, Answers,
         Choices

LEMMA OpenKeepsDialogs ==
  ASSUME DialogInv, NEW a \in Askers, OpenDialog(a), pc' = [pc EXCEPT ![a] = "dialog"],
         UNCHANGED selected, pc[a] # "auditing"
  PROVE  DialogInv'
  BY DEF DialogInv, ShapeInv, DialogAwaited, AnswerInv, FirstSignalWins, OpenDialog, Answers,
         Choices, ConsoleStates, SparkStates

LEMMA UserKeepsDialogs ==
  ASSUME DialogInv, User
  PROVE  DialogInv'
<1>1. ASSUME NEW a \in Askers, NEW c \in Choices, UserChooses(a, c) PROVE DialogInv'
  BY <1>1 DEF DialogInv, ShapeInv, DialogAwaited, AnswerInv, FirstSignalWins, UserChooses,
              Complete, Answers, Choices
<1>2. ASSUME NEW a \in Askers, DialogDestroyed(a) PROVE DialogInv'
  <2>1. dialog' = dialog
    BY <1>2 DEF DialogDestroyed, Complete, DialogInv, ShapeInv, AnswerInv
  <2>2. QED
    BY <1>2, <2>1 DEF DialogDestroyed, historyVars, DialogInv, ShapeInv, DialogAwaited,
                      AnswerInv, FirstSignalWins
<1>3. QED
  BY <1>1, <1>2 DEF User

LEMMA TakeAnswerKeepsDialogs ==
  ASSUME DialogInv, NEW a \in Askers, TakeAnswer(a)
  PROVE  DialogInv'
  BY DEF DialogInv, ShapeInv, DialogAwaited, AnswerInv, FirstSignalWins, TakeAnswer, CloseDialog,
         NoDialog, Answers, ConsoleStates, SparkStates

LEMMA CancelKeepsDialogs ==
  ASSUME DialogInv, SparkCancelled
  PROVE  DialogInv'
  BY DEF DialogInv, ShapeInv, DialogAwaited, AnswerInv, FirstSignalWins, SparkCancelled,
         CloseDialog, NoDialog, Answers, Askers, SparkStates, historyVars

LEMMA DialogsKept ==
  ASSUME DialogInv, [LoopNext]_loopVars
  PROVE  DialogInv'
<1>1. CASE UNCHANGED loopVars
  BY <1>1, QuietKeepsDialogs DEF loopVars, historyVars, QuietStep
<1>2. CASE ConsoleStep
  <2>1. CASE ReadLine \/ EndTurn \/ NeedFallback \/ RouteConsoleSelection \/ ConsoleAuditFails
             \/ EndAnalysis \/ Quit \/ Close
    <3>1. QuietStep
      BY <2>1 DEF ReadLine, EndTurn, NeedFallback, RouteConsoleSelection, ConsoleAuditFails,
                  EndAnalysis, Quit, Close, QuietStep, historyVars, Askers, ConsoleStates
    <3>2. QED
      BY <3>1, QuietKeepsDialogs
  <2>2. CASE ShowHypotheses
    BY <2>2, OpenKeepsDialogs DEF ShowHypotheses, Askers
  <2>3. CASE TakeAnswer("console")
    BY <2>3, TakeAnswerKeepsDialogs DEF Askers
  <2>4. QED
    BY <1>2, <2>1, <2>2, <2>3 DEF ConsoleStep
<1>3. CASE SparkStep
  <2>1. CASE PulseOnMissingCapability \/ PulseOnSignals \/ DropPlan \/ AnnouncePlan \/ SkipDoubt
             \/ DoubtAuditFails \/ RouteSparkSelection \/ SparkAuditFails \/ EndSparkAnalysis
    <3>1. QuietStep
      BY <2>1 DEF PulseOnMissingCapability, PulseOnSignals, PulseDue, DropPlan, AnnouncePlan,
                  SkipDoubt, DoubtAuditFails, RouteSparkSelection, SparkAuditFails,
                  EndSparkAnalysis, EndDoubt, QuietStep, historyVars, Askers, SparkStates
    <3>2. QED
      BY <3>1, QuietKeepsDialogs
  <2>2. CASE ShowDoubt
    BY <2>2, OpenKeepsDialogs DEF ShowDoubt, Askers
  <2>3. CASE TakeAnswer("spark")
    BY <2>3, TakeAnswerKeepsDialogs DEF Askers
  <2>4. CASE SparkCancelled
    BY <2>4, CancelKeepsDialogs
  <2>5. QED
    BY <1>3, <2>1, <2>2, <2>3, <2>4 DEF SparkStep
<1>4. CASE User
  BY <1>4, UserKeepsDialogs
<1>5. CASE Tick \/ HostLoad
  <2>1. QuietStep
    BY <1>5 DEF Tick, HostLoad, QuietStep, historyVars
  <2>2. QED
    BY <2>1, QuietKeepsDialogs
<1>6. QED
  BY <1>1, <1>2, <1>3, <1>4, <1>5 DEF LoopNext

----------------------------------------------------------------------------
(* Requests for feedback *)

\* A step that takes no answer and routes none: what is asked of the console
\* can only be dropped.
RoutesNothing ==
  /\ UNCHANGED <<awaiting, requested, fedBack>>
  /\ \A a \in Askers : Pending(a)' <= Pending(a)

LEMMA RoutingNothingKeepsFeedback ==
  ASSUME FeedbackInv, RoutesNothing
  PROVE  FeedbackInv'
<1>1. /\ Pending("console") \in {0, 1} /\ Pending("spark") \in {0, 1}
      /\ Pending("console")' \in {0, 1} /\ Pending("spark")' \in {0, 1}
  BY DEF Pending
<1>2. Pending("console")' <= Pending("console") /\ Pending("spark")' <= Pending("spark")
  BY DEF RoutesNothing, Askers
<1>3. QED
  BY <1>1, <1>2 DEF RoutesNothing, FeedbackInv

LEMMA FeedbackKept ==
  ASSUME ShapeInv, FeedbackInv, [LoopNext]_loopVars
  PROVE  FeedbackInv'
<1>1. CASE UNCHANGED loopVars
  BY <1>1, RoutingNothingKeepsFeedback DEF loopVars, historyVars, RoutesNothing, Pending
<1>2. CASE ConsoleStep
  <2>1. CASE ReadLine
    <3>1. Pending("console")' = Pending("console") /\ Pending("spark")' = Pending("spark")
      BY <2>1 DEF ReadLine, ShapeInv, Pending, Askers
    <3>2. Pending("console") \in {0, 1} /\ Pending("spark") \in {0, 1}
      BY DEF Pending
    <3>3. ~awaiting' /\ awaiting' \in BOOLEAN
      BY <2>1, Zenon DEF ReadLine
    <3>4. requested' = requested /\ fedBack' = IF awaiting THEN fedBack + 1 ELSE fedBack
      BY <2>1 DEF ReadLine
    <3>5. (IF awaiting' THEN 1 ELSE 0) = 0
      BY <3>3
    <3>6. QED
      BY <3>1, <3>2, <3>3, <3>4, <3>5 DEF FeedbackInv
  <2>2. CASE EndTurn \/ NeedFallback \/ ShowHypotheses \/ ConsoleAuditFails \/ EndAnalysis
             \/ Quit \/ Close
    <3>1. RoutesNothing
      BY <2>2 DEF EndTurn, NeedFallback, ShowHypotheses, ConsoleAuditFails, EndAnalysis, Quit,
                  Close, historyVars, RoutesNothing, Pending, ShapeInv, Askers
    <3>2. QED
      BY <3>1, RoutingNothingKeepsFeedback
  <2>3. CASE TakeAnswer("console")
    BY <2>3 DEF TakeAnswer, ShapeInv, FeedbackInv, Pending, Askers
  <2>4. CASE RouteConsoleSelection
    BY <2>4 DEF RouteConsoleSelection, historyVars, ShapeInv, FeedbackInv, Pending, Askers
  <2>5. QED
    BY <1>2, <2>1, <2>2, <2>3, <2>4 DEF ConsoleStep
<1>3. CASE SparkStep
  <2>1. CASE PulseOnMissingCapability \/ PulseOnSignals \/ DropPlan \/ AnnouncePlan \/ ShowDoubt
             \/ SkipDoubt \/ DoubtAuditFails \/ SparkAuditFails \/ EndSparkAnalysis
             \/ SparkCancelled
    <3>1. RoutesNothing
      BY <2>1 DEF PulseOnMissingCapability, PulseOnSignals, PulseDue, DropPlan, AnnouncePlan,
                  ShowDoubt, SkipDoubt, DoubtAuditFails, SparkAuditFails, EndSparkAnalysis,
                  SparkCancelled, EndDoubt, historyVars, RoutesNothing, Pending, ShapeInv, Askers
    <3>2. QED
      BY <3>1, RoutingNothingKeepsFeedback
  <2>2. CASE TakeAnswer("spark")
    BY <2>2 DEF TakeAnswer, ShapeInv, FeedbackInv, Pending, Askers
  <2>3. CASE RouteSparkSelection
    BY <2>3 DEF RouteSparkSelection, EndDoubt, historyVars, ShapeInv, FeedbackInv, Pending, Askers
  <2>4. QED
    BY <1>3, <2>1, <2>2, <2>3 DEF SparkStep
<1>4. CASE User \/ Tick \/ HostLoad
  <2>1. RoutesNothing
    BY <1>4 DEF User, UserChooses, DialogDestroyed, Tick, HostLoad, historyVars, RoutesNothing,
                Pending
  <2>2. QED
    BY <2>1, RoutingNothingKeepsFeedback
<1>5. QED
  BY <1>1, <1>2, <1>3, <1>4 DEF LoopNext

----------------------------------------------------------------------------
(* The spacing of Spark's doubts *)

LEMMA SpacingKept ==
  ASSUME ShapeInv, SpacingInv, [LoopNext]_loopVars
  PROVE  SpacingInv'
<1> USE HumanAssumption DEF SpacingInv, ShapeInv, Askers
<1>1. CASE UNCHANGED loopVars
  BY <1>1 DEF loopVars, sparkVars, historyVars
<1>2. CASE ConsoleStep
  BY <1>2 DEF ConsoleStep, ReadLine, EndTurn, NeedFallback, ShowHypotheses, TakeAnswer,
              RouteConsoleSelection, ConsoleAuditFails, EndAnalysis, Quit, Close, sparkVars,
              historyVars
<1>3. CASE SparkStep
  <2>1. CASE PulseOnMissingCapability \/ PulseOnSignals
    BY <2>1 DEF PulseOnMissingCapability, PulseOnSignals, PulseDue, historyVars
  <2>2. CASE DropPlan \/ AnnouncePlan
    BY <2>2 DEF DropPlan, AnnouncePlan, sparkVars, historyVars
  <2>3. CASE ShowDoubt
    BY <2>3 DEF ShowDoubt, sparkVars
  <2>4. CASE SkipDoubt \/ DoubtAuditFails
    BY <2>4 DEF SkipDoubt, DoubtAuditFails, EndDoubt, historyVars
  <2>5. CASE TakeAnswer("spark") \/ SparkCancelled
    BY <2>5 DEF TakeAnswer, SparkCancelled, sparkVars, historyVars
  <2>6. CASE RouteSparkSelection \/ SparkAuditFails \/ EndSparkAnalysis
    BY <2>6 DEF RouteSparkSelection, SparkAuditFails, EndSparkAnalysis, EndDoubt, historyVars
  <2>7. QED
    BY <1>3, <2>1, <2>2, <2>3, <2>4, <2>5, <2>6 DEF SparkStep
<1>4. CASE User \/ HostLoad
  BY <1>4 DEF User, UserChooses, DialogDestroyed, HostLoad, sparkVars, historyVars
<1>5. CASE Tick
  BY <1>5 DEF Tick
<1>6. QED
  BY <1>1, <1>2, <1>3, <1>4, <1>5 DEF LoopNext

----------------------------------------------------------------------------
(* The tasks, their counters and what they record *)

\* A task at work has a turn, or a doubt, to work on.
LEMMA PlaceKept ==
  ASSUME ShapeInv, PlaceInv, [LoopNext]_loopVars
  PROVE  PlaceInv'
<1> USE HumanAssumption DEF PlaceInv, ShapeInv, Askers, Turns, Doubts, ConsoleStates, SparkStates
<1>1. CASE UNCHANGED loopVars
  BY <1>1 DEF loopVars, sparkVars
<1>2. CASE ConsoleStep
  <2>1. UNCHANGED <<doubt, doubts>> /\ pc'["spark"] = pc["spark"]
    BY <1>2 DEF ConsoleStep, ReadLine, EndTurn, NeedFallback, ShowHypotheses, TakeAnswer,
                RouteConsoleSelection, ConsoleAuditFails, EndAnalysis, Quit, Close, sparkVars
  <2>2. CASE ReadLine
    BY <2>1, <2>2 DEF ReadLine
  <2>3. CASE EndTurn \/ NeedFallback \/ ShowHypotheses \/ TakeAnswer("console")
    BY <2>1, <2>3 DEF EndTurn, NeedFallback, ShowHypotheses, TakeAnswer
  <2>4. CASE RouteConsoleSelection \/ ConsoleAuditFails \/ EndAnalysis \/ Quit \/ Close
    BY <2>1, <2>4 DEF RouteConsoleSelection, ConsoleAuditFails, EndAnalysis, Quit, Close
  <2>5. QED
    BY <1>2, <2>2, <2>3, <2>4 DEF ConsoleStep
<1>3. CASE SparkStep
  <2>1. UNCHANGED turn /\ pc'["console"] = pc["console"]
    BY <1>3 DEF SparkStep, PulseOnMissingCapability, PulseOnSignals, DropPlan, AnnouncePlan,
                ShowDoubt, SkipDoubt, DoubtAuditFails, TakeAnswer, RouteSparkSelection,
                SparkAuditFails, EndSparkAnalysis, SparkCancelled, EndDoubt
  <2>2. CASE PulseOnMissingCapability \/ PulseOnSignals
    BY <2>1, <2>2 DEF PulseOnMissingCapability, PulseOnSignals, PulseDue
  <2>3. CASE DropPlan \/ AnnouncePlan \/ ShowDoubt \/ SkipDoubt \/ DoubtAuditFails
    BY <2>1, <2>3 DEF DropPlan, AnnouncePlan, ShowDoubt, SkipDoubt, DoubtAuditFails, EndDoubt,
                      sparkVars
  <2>4. CASE TakeAnswer("spark") \/ RouteSparkSelection \/ SparkAuditFails \/ EndSparkAnalysis
             \/ SparkCancelled
    BY <2>1, <2>4 DEF TakeAnswer, RouteSparkSelection, SparkAuditFails, EndSparkAnalysis,
                      SparkCancelled, EndDoubt, sparkVars
  <2>5. QED
    BY <1>3, <2>2, <2>3, <2>4 DEF SparkStep
<1>4. CASE User \/ Tick \/ HostLoad
  BY <1>4 DEF User, UserChooses, DialogDestroyed, Tick, HostLoad, sparkVars
<1>5. QED
  BY <1>1, <1>2, <1>3, <1>4 DEF LoopNext

\* Damage saturates at the limit, whatever doubt it is recorded for.
LEMMA HarmIsBounded ==
  ASSUME damage \in [Doubts -> 0..DamageLimit], NEW d, NEW amount \in Nat, Harm(d, amount)
  PROVE  damage' \in [Doubts -> 0..DamageLimit]
<1> DEFINE Sum(x) == IF x + amount > DamageLimit THEN DamageLimit ELSE x + amount
<1>1. damage' = [damage EXCEPT ![d] = Sum(damage[d])]
  BY DEF Harm
<1>2. \A x \in 0..DamageLimit : Sum(x) \in 0..DamageLimit
  BY HumanAssumption
<1>3. CASE d \in Doubts
  <2>1. Sum(damage[d]) \in 0..DamageLimit
    BY <1>2, <1>3
  <2>2. QED
    BY <1>1, <2>1
<1>4. CASE d \notin Doubts
  BY <1>1, <1>4
<1>5. QED
  BY <1>3, <1>4

\* Only the console's routing records an outcome, and only Spark harms.
LEMMA RecordsKept ==
  ASSUME ShapeInv, RecordsInv, [LoopNext]_loopVars
  PROVE  RecordsInv'
<1> USE DEF RecordsInv
<1>1. CASE UNCHANGED loopVars
  BY <1>1 DEF loopVars, ledgerVars
<1>2. CASE ConsoleStep
  <2>1. damage' = damage
    BY <1>2 DEF ConsoleStep, ReadLine, EndTurn, NeedFallback, ShowHypotheses, TakeAnswer,
                RouteConsoleSelection, ConsoleAuditFails, EndAnalysis, Quit, Close, ledgerVars
  <2>2. CASE RouteConsoleSelection
    <3>1. selected["console"] \in Answers
      BY DEF ShapeInv, Askers
    <3>2. outcome' \in [Turns -> Outcomes]
      BY <2>2, <3>1 DEF RouteConsoleSelection, Outcomes
    <3>3. QED
      BY <2>1, <3>2
  <2>3. CASE ~RouteConsoleSelection
    BY <1>2, <2>1, <2>3 DEF ConsoleStep, ReadLine, EndTurn, NeedFallback, ShowHypotheses,
                TakeAnswer, ConsoleAuditFails, EndAnalysis, Quit, Close, ledgerVars
  <2>4. QED
    BY <2>2, <2>3
<1>3. CASE SparkStep
  <2>1. outcome' = outcome
    BY <1>3 DEF SparkStep, PulseOnMissingCapability, PulseOnSignals, DropPlan, AnnouncePlan,
                ShowDoubt, SkipDoubt, DoubtAuditFails, TakeAnswer, RouteSparkSelection,
                SparkAuditFails, EndSparkAnalysis, SparkCancelled, ledgerVars
  <2>2. damage' = damage \/ \E d \in Doubts \cup {doubt}, n \in {1, 3} : Harm(d, n)
    BY <1>3 DEF SparkStep, PulseOnMissingCapability, PulseOnSignals, DropPlan, AnnouncePlan,
                ShowDoubt, SkipDoubt, DoubtAuditFails, TakeAnswer, RouteSparkSelection,
                SparkAuditFails, EndSparkAnalysis, SparkCancelled, EndDoubt, ledgerVars, Doubts
  <2>3. QED
    BY <2>1, <2>2, HarmIsBounded
<1>4. CASE User \/ Tick \/ HostLoad
  BY <1>4 DEF User, UserChooses, DialogDestroyed, Tick, HostLoad, ledgerVars
<1>5. QED
  BY <1>1, <1>2, <1>3, <1>4 DEF LoopNext

\* The flags of the process, the host and the shutdown.
LEMMA FlagsKept ==
  ASSUME FlagsInv, [LoopNext]_loopVars
  PROVE  FlagsInv'
<1>1. CASE UNCHANGED loopVars
  BY <1>1 DEF FlagsInv, loopVars, sparkVars
<1>2. CASE LoopNext
  <2>1. uiEnabled' = uiEnabled
    BY <1>2 DEF LoopNext
  <2>2. stressed' = stressed \/ stressed' = ~stressed
    BY <1>2 DEF LoopNext, ConsoleStep, SparkStep, User, HostLoad, Tick, ReadLine, EndTurn,
                NeedFallback, ShowHypotheses, TakeAnswer, RouteConsoleSelection,
                ConsoleAuditFails, EndAnalysis, Quit, Close, PulseOnMissingCapability,
                PulseOnSignals, DropPlan, AnnouncePlan, ShowDoubt, SkipDoubt, DoubtAuditFails,
                RouteSparkSelection, SparkAuditFails, EndSparkAnalysis, SparkCancelled,
                UserChooses, DialogDestroyed
  <2>3. stopping' = stopping \/ stopping' = TRUE
    BY <1>2 DEF LoopNext, ConsoleStep, SparkStep, User, HostLoad, Tick, ReadLine, EndTurn,
                NeedFallback, ShowHypotheses, TakeAnswer, RouteConsoleSelection,
                ConsoleAuditFails, EndAnalysis, Quit, Close, PulseOnMissingCapability,
                PulseOnSignals, DropPlan, AnnouncePlan, ShowDoubt, SkipDoubt, DoubtAuditFails,
                RouteSparkSelection, SparkAuditFails, EndSparkAnalysis, SparkCancelled,
                UserChooses, DialogDestroyed, sparkVars
  <2>4. QED
    BY <2>1, <2>2, <2>3 DEF FlagsInv
<1>3. QED
  BY <1>1, <1>2

----------------------------------------------------------------------------
LEMMA LoopStarts == LoopInit => LoopInv
<1>1. LoopInit => DialogInv
  BY DEF LoopInit, DialogInv, ShapeInv, DialogAwaited, AnswerInv, FirstSignalWins, NoDialog,
         Askers, Answers, ConsoleStates, SparkStates
<1>2. LoopInit => FeedbackInv
  <2>1. LoopInit => Pending("console") = 0 /\ Pending("spark") = 0
    BY DEF LoopInit, Pending, Askers
  <2>2. QED
    <3>1. LoopInit => ~awaiting /\ awaiting \in BOOLEAN
      BY Zenon DEF LoopInit
    <3>2. LoopInit => requested = 0 /\ fedBack = 0
      BY DEF LoopInit
    <3>3. LoopInit => (IF awaiting THEN 1 ELSE 0) = 0
      BY <3>1
    <3>4. QED
      BY <2>1, <3>1, <3>2, <3>3 DEF FeedbackInv
<1>3. LoopInit => SpacingInv
  BY HumanAssumption DEF LoopInit, SpacingInv, Askers
<1>4. LoopInit => PlaceInv
  BY HumanAssumption DEF LoopInit, PlaceInv, Askers, ConsoleStates, SparkStates
<1>5. LoopInit => RecordsInv
  BY HumanAssumption DEF LoopInit, RecordsInv, Outcomes, Answers
<1>6. LoopInit => FlagsInv
  BY DEF LoopInit, FlagsInv
<1>7. QED
  BY <1>1, <1>2, <1>3, <1>4, <1>5, <1>6 DEF LoopInv

(* Every reachable state of the loop satisfies the invariant.                *)
THEOREM LoopInvariant == LoopSpec => []LoopInv
<1>1. LoopInv /\ [LoopNext]_loopVars => LoopInv'
  BY DialogsKept, FeedbackKept, SpacingKept, PlaceKept, RecordsKept, FlagsKept
     DEF LoopInv, DialogInv
<1>2. QED
  BY LoopStarts, <1>1, PTL DEF LoopSpec

(* The tasks, dialogs, counters and records keep their types; the turn that   *)
(* is routed and the doubt Spark handles exist.                              *)
THEOREM LoopTypes == LoopSpec => []LoopTypeOK
<1>1. LoopInv => LoopTypeOK
  BY DEF LoopInv, DialogInv, ShapeInv, FeedbackInv, SpacingInv, PlaceInv, RecordsInv, FlagsInv,
         LoopTypeOK
<1>2. QED
  BY LoopInvariant, <1>1, PTL

(* A dialog is open exactly while its task awaits it: _await_dialog_selection *)
(* leaves none behind, whether it is answered or Spark is cancelled.         *)
THEOREM DialogsAreAwaited == LoopSpec => []DialogAwaited
<1>1. LoopInv => DialogAwaited
  BY DEF LoopInv, DialogInv
<1>2. QED
  BY LoopInvariant, <1>1, PTL

(* The selection that is routed is the user's first signal, whatever the      *)
(* dialog emits when it is destroyed.                                        *)
THEOREM FirstSignalIsRouted == LoopSpec => []FirstSignalWins
<1>1. LoopInv => FirstSignalWins
  BY DEF LoopInv, DialogInv
<1>2. QED
  BY LoopInvariant, <1>1, PTL

(* Each line taken for human feedback answers a request of its own.          *)
THEOREM FeedbackIsRequested == LoopSpec => []FeedbackWasRequested
<1>1. FeedbackInv => FeedbackWasRequested
  <2>1. Pending("console") \in {0, 1} /\ Pending("spark") \in {0, 1}
    BY DEF Pending
  <2>2. QED
    BY <2>1 DEF FeedbackInv, FeedbackWasRequested
<1>2. LoopInv => FeedbackWasRequested
  BY <1>1 DEF LoopInv
<1>3. QED
  BY LoopInvariant, <1>2, PTL

(* Spark opens a dialog only when a whole cooldown has passed since it opened *)
(* the previous one: the pulse checks the time since that dialog was over.   *)
THEOREM DoubtsAreSpaced == LoopSpec => DoubtsSpaced
<1>1. ASSUME ShapeInv, SpacingInv, [LoopNext]_loopVars, pc["spark"] # "dialog",
             pc'["spark"] = "dialog"
      PROVE  sinceShown = Cooldown
  <2>1. CASE ShowDoubt
    BY <2>1, <1>1, HumanAssumption DEF ShowDoubt, SpacingInv
  <2>2. CASE ConsoleStep
    BY <2>2, <1>1 DEF ConsoleStep, ReadLine, EndTurn, NeedFallback, ShowHypotheses, TakeAnswer,
                      RouteConsoleSelection, ConsoleAuditFails, EndAnalysis, Quit, Close, ShapeInv,
                      Askers
  <2>3. CASE SparkStep /\ ~ShowDoubt
    BY <2>3, <1>1 DEF SparkStep, PulseOnMissingCapability, PulseOnSignals, PulseDue, DropPlan,
                      AnnouncePlan, SkipDoubt, DoubtAuditFails, TakeAnswer, RouteSparkSelection,
                      SparkAuditFails, EndSparkAnalysis, SparkCancelled, EndDoubt, ShapeInv, Askers
  <2>4. CASE User \/ Tick \/ HostLoad \/ UNCHANGED loopVars
    BY <2>4, <1>1 DEF User, UserChooses, DialogDestroyed, Tick, HostLoad, loopVars
  <2>5. QED
    BY <1>1, <2>1, <2>2, <2>3, <2>4 DEF LoopNext
<1>2. LoopInv /\ [LoopNext]_loopVars
        => [(pc["spark"] # "dialog" /\ pc'["spark"] = "dialog") => sinceShown = Cooldown]_loopVars
  BY <1>1 DEF LoopInv, DialogInv
<1>3. QED
  BY LoopInvariant, <1>2, PTL DEF LoopSpec, DoubtsSpaced
=============================================================================
