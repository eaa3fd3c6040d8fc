---------------------------- MODULE DreamSession ----------------------------
(***************************************************************************)
(* Dream Mode: DreamMode.run_session and run_once, on top of the LLM       *)
(* channel, which in the --dream process has this one caller.  A cycle asks *)
(* the LLM the question its topic has reached on the depth ladder, or      *)
(* derives options from the ledgers alone (local-only).  The ledger of     *)
(* questions and the option queue are files: they outlive the process,     *)
(* which may be interrupted anywhere and started again under other         *)
(* settings; an append to them may fail, and the compactor shortens them.  *)
(***************************************************************************)
EXTENDS LlmChannel, SequencesExt

CONSTANTS
  Dreamer,         \* the task of the session
  Evidence,        \* what the failure and tension ledgers may show
  AutoTopic,       \* topic of an unfocused cycle, by evidence
  LocalOptions,    \* options a local-only reflection derives, by evidence
  FocusRing,       \* the foci select_next_dream_focus rotates through
  FileFoci,        \* foci that a focus file may set
  FlagChoices,     \* settings of the environment to consider
  MaxCycles,       \* GREYS_DREAM_MAX_CYCLES
  MaxLlmFailures,  \* GREYS_DREAM_MAX_LLM_FAILURES, at least 1
  MaxRepetitions,  \* largest GREYS_DREAM_MAX_REPETITIONS_PER_SIGNATURE of any session
  MaxOptions,      \* GREYS_DREAM_MAX_OPTIONS_PER_CYCLE, at least 1
  MaxDepth,        \* last rung of DEPTH_LADDER
  KeepRecent,      \* keep_recent of the compactor
  MaxSessions      \* bound: processes started

NoFocus == "auto"

Topics == ToSet(FocusRing) \cup FileFoci \cup {AutoTopic[e] : e \in Evidence}

\* The GREYS_DREAM_* settings that meet the ledgers of other sessions.  They are
\* variables of the environment, which nothing changes while a process runs.
Flags == [llmEnabled : BOOLEAN, preflight : BOOLEAN, localOnlyOnFailure : BOOLEAN,
          continueOnSuppress : BOOLEAN, continueOnNoEvidence : BOOLEAN,
          maxRepetitions : 1..MaxRepetitions]

ASSUME DreamAssumption ==
  /\ Callers = {Dreamer}
  /\ Dreamer \in PreflightCallers
  /\ FlagChoices \subseteq Flags
  /\ NoFocus \notin Topics
  /\ FocusRing \in Seq(ToSet(FocusRing))
  /\ Len(FocusRing) > 0
  /\ {MaxCycles, MaxLlmFailures, MaxRepetitions, MaxOptions, MaxSessions} \subseteq Nat \ {0}
  /\ {MaxDepth, KeepRecent} \subseteq Nat

VARIABLES
  flags,       \* the settings of the running process
  stage,       \* where run_session stands
  cycle,       \* number of the cycle
  focus,       \* current_focus
  llmFailures, \* _llm_failure_count
  offReason,   \* why the LLM is disabled for the session, "none" while it is not
  question,    \* what the cycle in progress asks
  repetition,  \* its repetition_count, read before it is asked
  entries,     \* dream question ledger
  archived,    \* history: rungs understood in entries that were archived
  queued,      \* keys of the local options in the evolution option queue
  evidence,    \* what the other ledgers show now
  sessions     \* processes started

sessionVars == <<stage, cycle, focus, llmFailures, offReason, question, repetition>>
fileVars == <<entries, archived, queued>>
worldVars == <<flags, evidence, sessions>>
dreamVars == <<vars, sessionVars, fileVars, worldVars>>

Stages == {"off", "preflight", "cycle", "asking", "sleeping", "ended"}

OffReasons == {"none", "preflight_failed", "llm_failure_threshold", "llm_circuit_open"}

TimeoutActions == {"local_only_after_timeout", "defer_due_to_llm_timeout"}

NoQuestion == [topic |-> NoFocus, depth |-> 0, evidence |-> CHOOSE e \in Evidence : TRUE]

----------------------------------------------------------------------------
(* DreamQuestionLedger *)

AskedBefore(q) == {i \in 1..Len(entries) : entries[i].question = q}

LastEntry(q) == entries[CHOOSE i \in AskedBefore(q) : \A j \in AskedBefore(q) : j <= i]

RepetitionsIgnoringFailures(q) ==
  IF AskedBefore(q) = {} \/ LastEntry(q).action \in TimeoutActions THEN 1
  ELSE LastEntry(q).repetition + 1

\* One more than the repetition_count of the last entry with this signature.
Repetitions(q) == IF AskedBefore(q) = {} THEN 1 ELSE LastEntry(q).repetition + 1

LastTimedOut(q) == AskedBefore(q) # {} /\ LastEntry(q).action \in TimeoutActions

NextDepthOfAnyEntry(topic) ==
  LET reached == {entries[i].question.depth :
                    i \in {j \in 1..Len(entries) : entries[j].question.topic = topic}}
      next == IF reached = {} THEN 0 ELSE Max(reached) + 1
  IN  IF next > MaxDepth THEN MaxDepth ELSE next

\* get_max_depth_for_topic, plus one, within the ladder.
NextDepth(topic) ==
  LET understood == {entries[i].question.depth :
                       i \in {j \in 1..Len(entries) :
                                entries[j].question.topic = topic /\ entries[j].understood}}
      next == IF understood = {} THEN 0 ELSE Max(understood) + 1
  IN  IF next > MaxDepth THEN MaxDepth ELSE next

\* The topic, rung and evidence whose hash is the semantic signature.
CurrentQuestion ==
  LET topic == IF focus = NoFocus THEN AutoTopic[evidence] ELSE focus
  IN  [topic |-> topic, depth |-> NextDepth(topic), evidence |-> evidence]

\* guarded is a history: the session degrades to local-only on a failure.
Entry(q, n, action, understood) ==
  [question |-> q, repetition |-> n, action |-> action, understood |-> understood,
   guarded |-> flags.localOnlyOnFailure]

\* append_entry swallows the errors of its write.
Record(entry) == entries' \in {entries, Append(entries, entry)} /\ UNCHANGED archived

Rung(q) == [topic |-> q.topic, depth |-> q.depth]

----------------------------------------------------------------------------
(* Helpers of run_once and run_session *)

LlmEnabled == flags.llmEnabled /\ offReason = "none"

UseLocalOnlyThisSession(q) ==
  ~LlmEnabled \/ (flags.localOnlyOnFailure /\ llmFailures >= MaxLlmFailures)

\* _should_use_local_only
UseLocalOnly(q) ==
  \/ ~LlmEnabled
  \/ flags.localOnlyOnFailure /\ (llmFailures >= MaxLlmFailures \/ LastTimedOut(q))

LocalOnlyReason(q) ==
  CASE offReason # "none" -> offReason
    [] offReason = "none" /\ LastTimedOut(q) -> "previous_llm_timeout"
    [] offReason = "none" /\ ~LastTimedOut(q) -> "llm_disabled"

EndsSession(reason) ==
  reason \in {"previous_llm_timeout", "llm_failure_threshold", "preflight_failed"}

\* The options of _run_local_only_reflection that are not queued yet; of the
\* first MaxOptions, those are queued whose append does not fail.
NewOptions(e) == LocalOptions[e] \ queued

LocalReflection(e) ==
  \E written \in SUBSET NewOptions(e) :
    Cardinality(written) <= MaxOptions /\ queued' = queued \cup written

NextFocus(f) ==
  LET at == {i \in 1..Len(FocusRing) : FocusRing[i] = f}
  IN  IF at = {} THEN FocusRing[1] ELSE FocusRing[(Max(at) % Len(FocusRing)) + 1]

\* The cycle returns next_action; the session stops, rotates its focus, sleeps,
\* or goes on at once after a timeout.
EndCycle(action, timedOut) ==
  LET rotate == \/ action = "suppress" /\ flags.continueOnSuppress
                \/ action = "no_new_evidence" /\ flags.continueOnNoEvidence
      stop == action \in {"suppress", "no_new_evidence", "local_only_complete"} /\ ~rotate
  IN  /\ focus' = IF rotate THEN NextFocus(focus) ELSE focus
      /\ stage' = CASE stop \/ cycle = MaxCycles -> "ended"
                    [] ~stop /\ cycle < MaxCycles /\ timedOut -> "cycle"
                    [] OTHER -> "sleeping"
      /\ cycle' = IF stop \/ cycle = MaxCycles THEN cycle ELSE cycle + 1
      /\ question' = NoQuestion
      /\ repetition' = 0

\* After a local-only reflection on e.
LocalAction(e, otherwise) == IF NewOptions(e) = {} THEN "no_new_evidence" ELSE otherwise

----------------------------------------------------------------------------
DreamInit ==
  /\ Init
  /\ flags \in FlagChoices
  /\ stage = "off"
  /\ cycle = 1
  /\ focus = NoFocus
  /\ llmFailures = 0
  /\ offReason = "none"
  /\ question = NoQuestion
  /\ repetition = 0
  /\ entries = <<>>
  /\ archived = {}
  /\ queued = {}
  /\ evidence \in Evidence
  /\ sessions = 1

\* run_session up to its first await: the focus is loaded and, with the
\* preflight switched on, the LLM host is probed; a refusal counts as success.
StartSession ==
  /\ stage = "off"
  /\ focus' \in FileFoci \cup {NoFocus}
  /\ \/ /\ ~(LlmEnabled /\ flags.preflight)
        /\ stage' = "cycle"
        /\ UNCHANGED vars
     \/ /\ LlmEnabled /\ flags.preflight
        /\ PreflightSkip(Dreamer)
        /\ stage' = "cycle"
     \/ /\ LlmEnabled /\ flags.preflight
        /\ PreflightSend(Dreamer)
        /\ stage' = "preflight"
  /\ UNCHANGED <<cycle, llmFailures, offReason, question, repetition, fileVars, worldVars>>

\* _preflight_ollama returns; its failure uses up the failures of the session.
EndPreflight ==
  /\ stage = "preflight"
  /\ PreflightEnd(Dreamer)
  /\ IF result'[Dreamer] = "ok"
     THEN UNCHANGED <<llmFailures, offReason>>
     ELSE /\ llmFailures' = MaxLlmFailures
          /\ offReason' = "preflight_failed"
  /\ stage' = "cycle"
  /\ UNCHANGED <<cycle, focus, question, repetition, fileVars, worldVars>>

StopOnStress ==
  /\ stage = "cycle"
  /\ stressed
  /\ stage' = "ended"
  /\ UNCHANGED <<vars, cycle, focus, llmFailures, offReason, question, repetition,
                 fileVars, worldVars>>

\* The signature has been dealt with often enough.
SuppressCycle ==
  /\ stage = "cycle"
  /\ ~stressed
  /\ Repetitions(CurrentQuestion) > flags.maxRepetitions
  /\ EndCycle("suppress", FALSE)
  /\ UNCHANGED <<vars, llmFailures, offReason, fileVars, worldVars>>

\* A cycle without the LLM; the question is marked, and the session stopped,
\* for some reasons only.
LocalCycle ==
  /\ stage = "cycle"
  /\ ~stressed
  /\ Repetitions(CurrentQuestion) <= flags.maxRepetitions
  /\ UseLocalOnly(CurrentQuestion)
  /\ LocalReflection(evidence)
  /\ LET q == CurrentQuestion
         reason == LocalOnlyReason(q)
         action == IF reason = "preflight_failed"
                   THEN "defer_due_to_llm_timeout" ELSE "local_only_after_timeout"
     IN  /\ IF EndsSession(reason)
            THEN Record(Entry(q, Repetitions(q), action, FALSE))
            ELSE UNCHANGED <<entries, archived>>
         /\ EndCycle(IF EndsSession(reason)
                     THEN LocalAction(evidence, "local_only_complete") ELSE "local_only", FALSE)
  /\ UNCHANGED <<vars, llmFailures, offReason, worldVars>>

OffReasonOneLate(failures1, refusedByBreaker) ==
  CASE refusedByBreaker -> "llm_circuit_open"
    [] ~refusedByBreaker /\ failures1 > MaxLlmFailures -> "llm_failure_threshold"
    [] OTHER -> offReason

\* _disable_llm_for_session, when the failures so far call for it.
OffReasonAfter(failures1, refusedByBreaker) ==
  CASE refusedByBreaker -> "llm_circuit_open"
    [] ~refusedByBreaker /\ failures1 >= MaxLlmFailures -> "llm_failure_threshold"
    [] OTHER -> offReason

\* run_once after ask_llm_reflection raised: refusals of the gate and answers
\* that are no JSON count like timeouts.
HandleFailure(q, n, refusedByBreaker, timedOut) ==
  /\ llmFailures' = llmFailures + 1
  /\ offReason' = OffReasonAfter(llmFailures + 1, refusedByBreaker)
  /\ IF flags.localOnlyOnFailure
     THEN /\ Record(Entry(q, n, "local_only_after_timeout", FALSE))
          /\ LocalReflection(q.evidence)
          /\ EndCycle(LocalAction(q.evidence, "local_only_complete"), timedOut)
     ELSE /\ Record(Entry(q, n, "defer_due_to_llm_timeout", FALSE))
          /\ UNCHANGED queued
          /\ EndCycle("defer_due_to_llm_timeout", timedOut)

AskLlmWheneverSwitchedOn ==
  /\ stage = "cycle"
  /\ ~stressed
  /\ Repetitions(CurrentQuestion) <= flags.maxRepetitions
  /\ flags.llmEnabled

\* The cycle is one that asks the LLM.
AskLlm ==
  /\ stage = "cycle"
  /\ ~stressed
  /\ Repetitions(CurrentQuestion) <= flags.maxRepetitions
  /\ ~UseLocalOnly(CurrentQuestion)

\* The gate refuses the query: nothing is awaited.
AskRefused ==
  /\ AskLlm
  /\ Deny(Dreamer)
  /\ HandleFailure(CurrentQuestion, Repetitions(CurrentQuestion),
                   result'[Dreamer] = "circuit_open", FALSE)
  /\ UNCHANGED worldVars

AskAdmitted ==
  /\ AskLlm
  /\ AdmitNow(Dreamer)
  /\ question' = CurrentQuestion
  /\ repetition' = Repetitions(CurrentQuestion)
  /\ stage' = "asking"
  /\ UNCHANGED <<cycle, focus, llmFailures, offReason, fileVars, worldVars>>

\* A reflection with content: the topic is understood at this depth.  The
\* session dies of options that are no list of objects.
Understand ==
  /\ Succeed(Dreamer)
  /\ Record(Entry(question, repetition, "escalate_depth", TRUE))
  /\ \/ EndCycle("escalate_depth", FALSE)
     \/ /\ stage' = "ended"
        /\ question' = NoQuestion
        /\ repetition' = 0
        /\ UNCHANGED <<cycle, focus>>
  /\ UNCHANGED <<llmFailures, offReason, queued>>

\* An empty object, or an error that is no LlmError: nothing is recorded.
LearnNothing ==
  /\ Succeed(Dreamer)
  /\ EndCycle("repeat_once", FALSE)
  /\ UNCHANGED <<llmFailures, offReason, fileVars>>

\* The answer is no JSON.
Misparse ==
  /\ Succeed(Dreamer)
  /\ HandleFailure(question, repetition, FALSE, FALSE)

QueryFails ==
  /\ Fail(Dreamer)
  /\ \E timedOut \in BOOLEAN : HandleFailure(question, repetition, FALSE, timedOut)

AwaitAnswer ==
  /\ stage = "asking"
  /\ BackOff(Dreamer) \/ Retry(Dreamer)
  /\ UNCHANGED <<sessionVars, fileVars, worldVars>>

Reflect ==
  /\ stage = "asking"
  /\ Understand \/ LearnNothing \/ Misparse \/ QueryFails
  /\ UNCHANGED worldVars

WakeOnCalmHost ==
  /\ stage = "sleeping"
  /\ ~stressed
  /\ stage' = "cycle"
  /\ UNCHANGED <<vars, cycle, focus, llmFailures, offReason, question, repetition,
                 fileVars, worldVars>>

Wake ==
  /\ stage = "sleeping"
  /\ stage' = "cycle"
  /\ UNCHANGED <<vars, cycle, focus, llmFailures, offReason, question, repetition,
                 fileVars, worldVars>>

\* The process is interrupted, or has ended, and --dream is run again: a new
\* transceiver, a new session, an environment of its own, the same files.
Restart ==
  /\ stage # "off"
  /\ sessions < MaxSessions
  /\ sessions' = sessions + 1
  /\ phase' = [q \in Callers |-> "idle"]
  /\ attempt' = [q \in Callers |-> 0]
  /\ permits' = 1
  /\ waiters' = <<>>
  /\ failures' = 0
  /\ isOpen' = FALSE
  /\ sinceFailure' = Cooldown + 1
  /\ result' = [q \in Callers |-> "none"]
  /\ staleSends' = 0
  /\ stage' = "off"
  /\ cycle' = 1
  /\ focus' = NoFocus
  /\ llmFailures' = 0
  /\ offReason' = "none"
  /\ question' = NoQuestion
  /\ repetition' = 0
  /\ flags' \in FlagChoices
  /\ UNCHANGED <<stressed, fileVars, evidence>>

\* --compact-ledgers, in another process: the questions that are not among the
\* last KeepRecent are archived, and with others' options any option queued.
CompactLedgers ==
  /\ IF Len(entries) > KeepRecent
     THEN LET old == Len(entries) - KeepRecent
          IN  /\ entries' = SubSeq(entries, old + 1, Len(entries))
              /\ archived' = archived \cup
                   {Rung(entries[i].question) : i \in {j \in 1..old : entries[j].understood}}
     ELSE UNCHANGED <<entries, archived>>
  /\ queued' \in SUBSET queued
  /\ UNCHANGED <<vars, sessionVars, worldVars>>

\* Other processes log failures and tension.  The session looks when a cycle
\* starts: what is logged during a cycle is seen as if it came just after.
NewEvidence ==
  /\ stage \in {"off", "sleeping"}
  /\ evidence' \in Evidence \ {evidence}
  /\ UNCHANGED <<vars, sessionVars, fileVars, flags, sessions>>

World == (Tick \/ HostLoad) /\ UNCHANGED <<sessionVars, fileVars, worldVars>>

Cycle == SuppressCycle \/ LocalCycle \/ AskRefused \/ AskAdmitted

Session ==
  StartSession \/ EndPreflight \/ StopOnStress \/ Cycle \/ AwaitAnswer \/ Reflect \/ Wake

DreamNext == Session \/ Restart \/ NewEvidence \/ CompactLedgers \/ World

\* The event loop runs the session, its timeouts end every request and sleep.
DreamSpec == DreamInit /\ [][DreamNext]_dreamVars /\ WF_dreamVars(Session)

----------------------------------------------------------------------------
(* Properties *)

(* The counters stay within their limits and the ledgers hold well-formed     *)
(* entries: in particular the failure count never passes its maximum, nor a   *)
(* repetition count its own, in any sequence of sessions.                    *)
DreamTypeOK ==
  /\ flags \in Flags
  /\ stage \in Stages
  /\ cycle \in 1..MaxCycles
  /\ focus \in Topics \cup {NoFocus}
  /\ llmFailures \in 0..MaxLlmFailures
  /\ offReason \in OffReasons
  /\ queued \subseteq UNION {LocalOptions[e] : e \in Evidence}
  /\ evidence \in Evidence
  /\ sessions \in 1..MaxSessions
  /\ \A i \in 1..Len(entries) : entries[i].repetition \in 1..MaxRepetitions

(* A session that gave up on the LLM leaves the host alone: after a failed    *)
(* preflight, too many failures or an open breaker it never sends another    *)
(* request, and it does give up when its failures reach the limit.           *)
GivesUpOnLlm ==
  /\ offReason # "none" => \A q \in Callers : phase[q] = "idle"
  /\ llmFailures = MaxLlmFailures => offReason # "none"

(* No question is in the ledger more often than the largest limit on          *)
(* repetitions, over all sessions: the counts are read back from the ledger,  *)
(* where entries of other questions lie in between, some are missing and old *)
(* ones are archived.                                                        *)
RepetitionLimit ==
  \A i \in 1..Len(entries) :
    Cardinality({j \in 1..Len(entries) : entries[j].question = entries[i].question})
      <= MaxRepetitions

(* The ladder is climbed rung by rung: a topic is only examined at a depth    *)
(* whose previous one it has been understood at, whichever sessions, foci,    *)
(* changes of evidence, failed appends and compactions lie in between.       *)
LadderClimbed ==
  \A i \in 1..Len(entries) :
    entries[i].question.depth > 0 =>
      \/ [Rung(entries[i].question) EXCEPT !.depth = @ - 1] \in archived
      \/ \E j \in 1..(i - 1) :
           /\ entries[j].question.topic = entries[i].question.topic
           /\ entries[j].question.depth = entries[i].question.depth - 1
           /\ entries[j].understood

(* With the degradation to local-only, a question whose failure the ledger    *)
(* has is sent to the LLM again only if it was answered since, and that in a  *)
(* session without the degradation: none with it asks such a question first.  *)
FailedNotAskedAgain ==
  (stage = "asking" /\ flags.localOnlyOnFailure) =>
    \A i \in 1..Len(entries) :
      (entries[i].question = question /\ entries[i].action \in TimeoutActions) =>
        \E j \in (i + 1)..Len(entries) :
          /\ entries[j].question = question
          /\ entries[j].understood
          /\ ~entries[j].guarded

(* Every session ends: no failure, refusal, suppression or lack of evidence   *)
(* leaves it sleeping, asking or probing for ever.                           *)
SessionEnds == (stage \notin {"off", "ended"}) ~> (stage \in {"off", "ended"})
=============================================================================
