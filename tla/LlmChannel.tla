---------------------------- MODULE LlmChannel ----------------------------
(***************************************************************************)
(* The bridge between the asyncio tasks of one process and the local LLM   *)
(* host: IafaTransceiver.query_llm and preflight_ollama, the               *)
(* ExternalChannelGate every call passes, the LlmCircuitBreaker the gate   *)
(* consults and the Semaphore(1) that serialises the requests.             *)
(*                                                                         *)
(* The gate is evaluated BEFORE the semaphore is awaited, so a caller may  *)
(* spend a long time between the decision that admits it and its first     *)
(* request: it waits while others fail, open the breaker, or are cancelled.*)
(* An action is the code one task runs between two awaits.                 *)
(***************************************************************************)
EXTENDS Naturals, Sequences, FiniteSets

CONSTANTS
  Callers,           \* tasks sharing one transceiver (console loop, Spark loop)
  ConfigDenied,      \* callers the environment flags forbid (local only, dream off)
  PreflightCallers,  \* tasks that may run preflight_ollama (Dream Mode)
  Cancellable,       \* tasks another task may cancel (Spark, by stop())
  BreakerEnabled,    \* GREYS_LLM_CIRCUIT_BREAKER_ENABLED
  MaxFailures,       \* GREYS_LLM_MAX_FAILURES
  Cooldown,          \* GREYS_LLM_COOLDOWN_SECONDS, in ticks
  MaxRetries,        \* GREYS_LLM_MAX_RETRIES
  FailureCap         \* bound: the failure counter saturates here

ASSUME ChannelAssumption ==
  /\ IsFiniteSet(Callers) /\ Callers # {}
  /\ ConfigDenied \subseteq Callers
  /\ PreflightCallers \subseteq Callers
  /\ Cancellable \subseteq Callers
  /\ BreakerEnabled \in BOOLEAN
  /\ MaxFailures \in Nat \ {0}
  /\ Cooldown \in Nat
  /\ MaxRetries \in Nat
  /\ FailureCap \in Nat
  /\ FailureCap >= MaxFailures

VARIABLES
  phase,         \* where each task stands in query_llm / preflight_ollama
  attempt,       \* number of the attempt a query is making, 0 when it makes none
  permits,       \* free permits of Semaphore(1)
  waiters,       \* the semaphore's FIFO of waiting tasks
  failures,      \* breaker: failed queries since the last success
  isOpen,        \* breaker: is_open
  sinceFailure,  \* breaker: time since last_failure_time, saturating past Cooldown
  stressed,      \* SystemStressGuard.is_host_under_stress()
  result,        \* how the last call of each task ended
  staleSends     \* history: requests started since the current cooling began

breakerVars == <<failures, isOpen, sinceFailure>>
semVars == <<permits, waiters>>
vars == <<phase, attempt, permits, waiters, failures, isOpen, sinceFailure,
          stressed, result, staleSends>>

Phases == {"idle", "waiting", "granted", "requesting", "backoff", "preflight"}

Denials == {"disabled", "stressed", "circuit_open"}

Results == Denials \cup {"none", "ok", "failed", "cancelled", "skipped"}

----------------------------------------------------------------------------
(* The gate and the breaker *)

Cooled == sinceFailure > Cooldown

\* The breaker refuses calls: open, and the cooldown of its last failure runs.
Cooling == isOpen /\ ~Cooled

\* LlmCircuitBreaker.check_status: an open breaker lets calls through again
\* once cooled, without changing state: every caller passes until one records.
CheckStatusNeverHalfOpens == ~isOpen

CheckStatus == ~isOpen \/ Cooled

GateDecisionNoBreaker(q) ==
  CASE q \in ConfigDenied -> "disabled"
    [] q \notin ConfigDenied /\ stressed -> "stressed"
    [] OTHER -> "allowed"

\* ExternalChannelGate.can_call_llm, in its order of precedence.
GateDecision(q) ==
  CASE q \in ConfigDenied -> "disabled"
    [] q \notin ConfigDenied /\ stressed -> "stressed"
    [] q \notin ConfigDenied /\ ~stressed /\ BreakerEnabled /\ ~CheckStatus -> "circuit_open"
    [] OTHER -> "allowed"

RecordSuccess ==
  IF BreakerEnabled
  THEN /\ failures' = 0
       /\ isOpen' = FALSE
       /\ UNCHANGED sinceFailure
  ELSE UNCHANGED breakerVars

RecordFailureOffByOne ==
  IF BreakerEnabled
  THEN /\ failures' = IF failures < FailureCap THEN failures + 1 ELSE failures
       /\ isOpen' = (isOpen \/ failures >= MaxFailures)
       /\ sinceFailure' = 0
  ELSE UNCHANGED breakerVars

RecordFailure ==
  IF BreakerEnabled
  THEN /\ failures' = IF failures < FailureCap THEN failures + 1 ELSE failures
       /\ isOpen' = (isOpen \/ failures + 1 >= MaxFailures)
       /\ sinceFailure' = 0
  ELSE UNCHANGED breakerVars

----------------------------------------------------------------------------
(* asyncio.Semaphore(1): released permits go to the longest waiter *)

\* Tasks past `async with self._semaphore`.
Holds(q) == phase[q] \in {"granted", "requesting", "backoff"}

WithoutAt(s, i) == [j \in 1..(Len(s) - 1) |-> IF j < i THEN s[j] ELSE s[j + 1]]

\* q leaves the semaphore in phase "idle"; the head of the queue, if any,
\* becomes the owner of the permit before it is scheduled again.
ReleasePermit(q) ==
  IF waiters = <<>>
  THEN /\ permits' = permits + 1
       /\ phase' = [phase EXCEPT ![q] = "idle"]
       /\ UNCHANGED waiters
  ELSE /\ phase' = [phase EXCEPT ![q] = "idle", ![Head(waiters)] = "granted"]
       /\ waiters' = Tail(waiters)
       /\ UNCHANGED permits

\* History: a request started while the breaker is cooling.
CountSend(sent) ==
  staleSends' = IF ~Cooling' THEN 0 ELSE IF sent THEN staleSends + 1 ELSE staleSends

----------------------------------------------------------------------------
Init ==
  /\ phase = [q \in Callers |-> "idle"]
  /\ attempt = [q \in Callers |-> 0]
  /\ permits = 1
  /\ waiters = <<>>
  /\ failures = 0
  /\ isOpen = FALSE
  /\ sinceFailure = Cooldown + 1
  /\ stressed \in BOOLEAN
  /\ result = [q \in Callers |-> "none"]
  /\ staleSends = 0

\* query_llm up to its first await: the gate denies ...
Deny(q) ==
  /\ phase[q] = "idle"
  /\ GateDecision(q) # "allowed"
  /\ result' = [result EXCEPT ![q] = GateDecision(q)]
  /\ UNCHANGED <<phase, attempt, semVars, breakerVars, stressed, staleSends>>

\* ... or admits, and the free semaphore is taken without yielding ...
AdmitNow(q) ==
  /\ phase[q] = "idle"
  /\ GateDecision(q) = "allowed"
  /\ permits > 0
  /\ permits' = permits - 1
  /\ phase' = [phase EXCEPT ![q] = "requesting"]
  /\ attempt' = [attempt EXCEPT ![q] = 1]
  /\ UNCHANGED <<waiters, breakerVars, stressed, result>>
  /\ CountSend(TRUE)

AdmitLaterFirst(q) ==
  /\ phase[q] = "idle"
  /\ GateDecision(q) = "allowed"
  /\ permits = 0
  /\ waiters' = <<q>> \o waiters
  /\ phase' = [phase EXCEPT ![q] = "waiting"]
  /\ UNCHANGED <<attempt, permits, breakerVars, stressed, result, staleSends>>

\* ... or admits, and the task queues behind the query in progress.
AdmitLater(q) ==
  /\ phase[q] = "idle"
  /\ GateDecision(q) = "allowed"
  /\ permits = 0
  /\ waiters' = Append(waiters, q)
  /\ phase' = [phase EXCEPT ![q] = "waiting"]
  /\ UNCHANGED <<attempt, permits, breakerVars, stressed, result, staleSends>>

\* The task that was handed the permit runs again and sends its first request;
\* the gate is not consulted a second time.
Resume(q) ==
  /\ phase[q] = "granted"
  /\ phase' = [phase EXCEPT ![q] = "requesting"]
  /\ attempt' = [attempt EXCEPT ![q] = 1]
  /\ UNCHANGED <<semVars, breakerVars, stressed, result>>
  /\ CountSend(TRUE)

\* A usable response arrives.
Succeed(q) ==
  /\ phase[q] = "requesting"
  /\ RecordSuccess
  /\ attempt' = [attempt EXCEPT ![q] = 0]
  /\ result' = [result EXCEPT ![q] = "ok"]
  /\ ReleasePermit(q)
  /\ UNCHANGED stressed
  /\ CountSend(FALSE)

BackOffOnceMore(q) ==
  /\ phase[q] = "requesting"
  /\ attempt[q] <= MaxRetries + 1
  /\ phase' = [phase EXCEPT ![q] = "backoff"]
  /\ UNCHANGED <<attempt, semVars, breakerVars, stressed, result, staleSends>>

\* Timeout, connection error or malformed JSON with attempts left: sleep for
\* the backoff, keeping the semaphore.
BackOff(q) ==
  /\ phase[q] = "requesting"
  /\ attempt[q] <= MaxRetries
  /\ phase' = [phase EXCEPT ![q] = "backoff"]
  /\ UNCHANGED <<attempt, semVars, breakerVars, stressed, result, staleSends>>

Retry(q) ==
  /\ phase[q] = "backoff"
  /\ phase' = [phase EXCEPT ![q] = "requesting"]
  /\ attempt' = [attempt EXCEPT ![q] = @ + 1]
  /\ UNCHANGED <<semVars, breakerVars, stressed, result>>
  /\ CountSend(TRUE)

\* The last attempt fails, or any attempt with an error that is not retried
\* (HTTP error, empty response): one failure is recorded for the whole query.
Fail(q) ==
  /\ phase[q] = "requesting"
  /\ RecordFailure
  /\ attempt' = [attempt EXCEPT ![q] = 0]
  /\ result' = [result EXCEPT ![q] = "failed"]
  /\ ReleasePermit(q)
  /\ UNCHANGED stressed
  /\ CountSend(FALSE)

CancelHolderKeepsPermit(q) ==
  /\ q \in Cancellable
  /\ Holds(q)
  /\ phase' = [phase EXCEPT ![q] = "idle"]
  /\ attempt' = [attempt EXCEPT ![q] = 0]
  /\ result' = [result EXCEPT ![q] = "cancelled"]
  /\ UNCHANGED <<semVars, breakerVars, stressed, staleSends>>

\* CancelledError is no Exception: it leaves the retry loop without recording.
CancelHolder(q) ==
  /\ q \in Cancellable
  /\ Holds(q)
  /\ attempt' = [attempt EXCEPT ![q] = 0]
  /\ result' = [result EXCEPT ![q] = "cancelled"]
  /\ ReleasePermit(q)
  /\ UNCHANGED <<breakerVars, stressed, staleSends>>

CancelWaiterKeepsPlace(q) ==
  /\ q \in Cancellable
  /\ phase[q] = "waiting"
  /\ phase' = [phase EXCEPT ![q] = "idle"]
  /\ result' = [result EXCEPT ![q] = "cancelled"]
  /\ UNCHANGED <<attempt, semVars, breakerVars, stressed, staleSends>>

CancelWaiter(q) ==
  /\ q \in Cancellable
  /\ phase[q] = "waiting"
  /\ phase' = [phase EXCEPT ![q] = "idle"]
  /\ result' = [result EXCEPT ![q] = "cancelled"]
  /\ \E i \in 1..Len(waiters) :
       /\ waiters[i] = q
       /\ waiters' = WithoutAt(waiters, i)
  /\ UNCHANGED <<attempt, permits, breakerVars, stressed, staleSends>>

\* preflight_ollama: the same gate, but neither semaphore nor breaker records.
PreflightSkip(q) ==
  /\ q \in PreflightCallers
  /\ phase[q] = "idle"
  /\ GateDecision(q) # "allowed"
  /\ result' = [result EXCEPT ![q] = "skipped"]
  /\ UNCHANGED <<phase, attempt, semVars, breakerVars, stressed, staleSends>>

PreflightSend(q) ==
  /\ q \in PreflightCallers
  /\ phase[q] = "idle"
  /\ GateDecision(q) = "allowed"
  /\ phase' = [phase EXCEPT ![q] = "preflight"]
  /\ UNCHANGED <<attempt, semVars, breakerVars, stressed, result, staleSends>>

\* It answers, or the session's timeout ends it.
PreflightEnd(q) ==
  /\ phase[q] = "preflight"
  /\ phase' = [phase EXCEPT ![q] = "idle"]
  /\ \E r \in {"ok", "failed"} : result' = [result EXCEPT ![q] = r]
  /\ UNCHANGED <<attempt, semVars, breakerVars, stressed, staleSends>>

\* Environment: time passes, the load of the host changes.
Tick ==
  /\ ~Cooled
  /\ sinceFailure' = sinceFailure + 1
  /\ UNCHANGED <<phase, attempt, semVars, failures, isOpen, stressed, result>>
  /\ CountSend(FALSE)

HostLoad ==
  /\ stressed' = ~stressed
  /\ UNCHANGED <<phase, attempt, semVars, breakerVars, result, staleSends>>

Call(q) == Deny(q) \/ AdmitNow(q) \/ AdmitLater(q)

Answer(q) == Succeed(q) \/ BackOff(q) \/ Fail(q)

Cancel(q) == CancelHolder(q) \/ CancelWaiter(q)

Preflight(q) == PreflightSkip(q) \/ PreflightSend(q) \/ PreflightEnd(q)

Next ==
  \/ \E q \in Callers :
       Call(q) \/ Resume(q) \/ Answer(q) \/ Retry(q) \/ Cancel(q) \/ Preflight(q)
  \/ Tick
  \/ HostLoad

Spec == Init /\ [][Next]_vars

(* The event loop runs every ready task, aiohttp's total timeout ends every  *)
(* request, asyncio.sleep ends every backoff, and clocks advance.            *)
Fairness ==
  /\ \A q \in Callers :
       /\ WF_vars(Resume(q))
       /\ WF_vars(Answer(q))
       /\ WF_vars(Retry(q))
       /\ WF_vars(PreflightEnd(q))
  /\ WF_vars(Tick)

FairSpec == Spec /\ Fairness

----------------------------------------------------------------------------
(* Properties *)

(* Attempts, permits and counters stay within their limits, and the queue of  *)
(* the semaphore holds callers only.                                         *)
TypeOK ==
  /\ phase \in [Callers -> Phases]
  /\ attempt \in [Callers -> 0..(MaxRetries + 1)]
  /\ permits \in 0..1
  /\ waiters \in Seq(Callers)
  /\ failures \in 0..FailureCap
  /\ isOpen \in BOOLEAN
  /\ sinceFailure \in 0..(Cooldown + 1)
  /\ stressed \in BOOLEAN
  /\ result \in [Callers -> Results]
  /\ staleSends \in Nat

(* The semaphore never loses or duplicates its permit, whatever is cancelled *)
(* between the hand-over of the permit and the task that resumes with it: it *)
(* is free exactly when nobody is past `async with self._semaphore`, at most *)
(* one task ever is, and no task queues for a permit that is free.           *)
PermitAccounting ==
  /\ permits = 1 <=> \A q \in Callers : ~Holds(q)
  /\ \A p, q \in Callers : Holds(p) /\ Holds(q) => p = q
  /\ permits = 1 => waiters = <<>>

(* The queue of the semaphore holds every suspended task exactly once: none  *)
(* is forgotten, and none that was cancelled can still be handed the permit. *)
QueueMatchesTasks ==
  /\ \A i \in 1..Len(waiters) : phase[waiters[i]] = "waiting"
  /\ \A i, j \in 1..Len(waiters) : waiters[i] = waiters[j] => i = j
  /\ \A q \in Callers : phase[q] = "waiting" => \E i \in 1..Len(waiters) : waiters[i] = q

(* A query makes at most MaxRetries + 1 requests, counted from the moment it *)
(* resumes with the permit and not from the call that queued it.             *)
RetryBudget ==
  \A q \in Callers :
    /\ attempt[q] > 0 <=> phase[q] \in {"requesting", "backoff"}
    /\ phase[q] = "backoff" => attempt[q] <= MaxRetries

(* record_success and record_failure, called by different queries in any     *)
(* order, keep the flag and the counter of LlmCircuitBreaker in agreement:   *)
(* it is open exactly when the failures since the last success reach the     *)
(* limit.                                                                    *)
BreakerConsistent == isOpen <=> failures >= MaxFailures

(* The breaker protects the host: once it refuses calls, the requests still  *)
(* sent before it admits anybody again are those of queries that had passed  *)
(* the gate earlier and were waiting for the semaphore, with their retries.  *)
StaleDrainBound ==
  BreakerEnabled => staleSends <= (Cardinality(Callers) - 1) * (MaxRetries + 1)

(* Seen from the outside the channel is a line served in order of arrival.   *)
ServedNow == {q \in Callers : Holds(q)}

Line == INSTANCE RequestLine WITH
  Clients <- Callers,
  Quitters <- Cancellable,
  line <- IF ServedNow = {} THEN waiters
          ELSE <<CHOOSE q \in Callers : Holds(q)>> \o waiters

(* query_llm implements RequestLine: no admitted query overtakes another, and *)
(* each is served in the end.                                                *)
ServesInOrder == Line!LineSpec

(* Every call of query_llm or preflight_ollama returns or raises.            *)
EveryCallEnds ==
  \A q \in Callers : phase[q] # "idle" ~> phase[q] = "idle"

FailedAttempt == \E q \in Callers : Fail(q)

(* Tasks that go on calling after every refusal, as Spark's periodic pulse   *)
(* does for as long as the condition that triggers it lasts.                 *)
PersistentCallers == \A q \in Callers : WF_vars(Call(q))

(* Once the service answers every query and the host is no longer under      *)
(* stress, the breaker closes for good if its callers persist: check_status   *)
(* lets a call through after the cooldown, and its success resets the breaker. *)
BreakerRecovers ==
  (PersistentCallers /\ <>[][~FailedAttempt]_vars /\ <>[](~stressed)) => <>[](~isOpen)

============================================================================
