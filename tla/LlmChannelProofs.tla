------------------------- MODULE LlmChannelProofs -------------------------
(***************************************************************************)
(* Safety of the LLM channel for every set of callers and every value of   *)
(* the limits.  The invariants the runs check are not inductive one by     *)
(* one: a permit goes to the head of the queue, so PermitAccounting needs  *)
(* QueueMatchesTasks and conversely, and the types of permits and attempt  *)
(* need them and RetryBudget.  Their conjunction IInv is inductive.        *)
(* StaleDrainBound needs DrainInv, which counts the requests that may still *)
(* follow, beside it; the refinement of RequestLine needs IInv only.       *)
(***************************************************************************)
EXTENDS LlmChannel, FiniteSetTheorems, TLAPS

IInv ==
  /\ TypeOK
  /\ PermitAccounting
  /\ QueueMatchesTasks
  /\ RetryBudget
  /\ BreakerConsistent

(* Removing the i-th waiter leaves the others, in their order. *)
LEMMA WithoutAtType ==
  ASSUME NEW S, NEW s \in Seq(S), NEW i \in 1..Len(s)
  PROVE  /\ WithoutAt(s, i) \in Seq(S)
         /\ Len(WithoutAt(s, i)) = Len(s) - 1
         /\ \A j \in 1..(Len(s) - 1) :
              WithoutAt(s, i)[j] = IF j < i THEN s[j] ELSE s[j + 1]
  BY DEF WithoutAt

----------------------------------------------------------------------------
(* The semaphore: the permit, its queue and the phases of the tasks. *)

SemInv ==
  /\ phase \in [Callers -> Phases]
  /\ permits \in 0..1
  /\ waiters \in Seq(Callers)
  /\ PermitAccounting
  /\ QueueMatchesTasks

(* A task that changes phase without entering or leaving the queue or the    *)
(* section the permit guards keeps the semaphore consistent.                 *)
LEMMA MoveKeepsSem ==
  ASSUME SemInv, NEW q \in Callers, NEW ph \in Phases,
         phase' = [phase EXCEPT ![q] = ph],
         phase[q] # "waiting", ph # "waiting",
         phase[q] \in {"granted", "requesting", "backoff"}
           <=> ph \in {"granted", "requesting", "backoff"},
         UNCHANGED semVars
  PROVE  SemInv'
  BY DEF SemInv, PermitAccounting, QueueMatchesTasks, Holds, semVars, Phases

(* Taking the free permit. *)
LEMMA AdmitNowKeepsSem ==
  ASSUME SemInv, NEW q \in Callers, AdmitNow(q)
  PROVE  SemInv'
<1>1. permits = 1 /\ permits' = 0 /\ waiters = <<>> /\ waiters' = <<>>
  BY DEF SemInv, PermitAccounting, AdmitNow
<1>2. phase' = [phase EXCEPT ![q] = "requesting"]
  BY DEF AdmitNow
<1>3. phase' \in [Callers -> Phases]
  BY <1>2 DEF SemInv, Phases
<1>4. PermitAccounting'
  BY <1>1, <1>2 DEF SemInv, PermitAccounting, Holds
<1>5. QueueMatchesTasks'
  BY <1>1, <1>2 DEF SemInv, QueueMatchesTasks
<1> QED
  BY <1>1, <1>3, <1>4, <1>5 DEF SemInv

(* Joining the queue at its end. *)
LEMMA AdmitLaterKeepsSem ==
  ASSUME SemInv, NEW q \in Callers, AdmitLater(q)
  PROVE  SemInv'
<1>1. /\ phase[q] = "idle" /\ permits = 0 /\ permits' = 0
      /\ phase' = [phase EXCEPT ![q] = "waiting"]
      /\ waiters' = Append(waiters, q)
  BY DEF AdmitLater
<1>2. /\ waiters' \in Seq(Callers)
      /\ Len(waiters') = Len(waiters) + 1
      /\ Len(waiters) \in Nat
      /\ \A i \in 1..Len(waiters) : waiters'[i] = waiters[i]
      /\ waiters'[Len(waiters) + 1] = q
  BY <1>1 DEF SemInv
<1>3. phase' \in [Callers -> Phases]
  BY <1>1 DEF SemInv, Phases
<1>4. PermitAccounting'
  BY <1>1 DEF SemInv, PermitAccounting, Holds
<1>5. QueueMatchesTasks'
  <2>1. \A i \in 1..Len(waiters) : waiters[i] # q
    BY <1>1 DEF SemInv, QueueMatchesTasks
  <2>2. \A i \in 1..Len(waiters') : phase'[waiters'[i]] = "waiting"
    BY <1>1, <1>2, <2>1 DEF SemInv, QueueMatchesTasks
  <2>3. \A i, j \in 1..Len(waiters') : waiters'[i] = waiters'[j] => i = j
    BY <1>2, <2>1 DEF SemInv, QueueMatchesTasks
  <2>4. \A p \in Callers :
          phase'[p] = "waiting" => \E i \in 1..Len(waiters') : waiters'[i] = p
    BY <1>1, <1>2 DEF SemInv, QueueMatchesTasks
  <2> QED
    BY <2>2, <2>3, <2>4 DEF QueueMatchesTasks
<1> QED
  BY <1>1, <1>2, <1>3, <1>4, <1>5 DEF SemInv

(* Leaving the guarded section hands the permit to the head of the queue. *)
LEMMA ReleaseKeepsSem ==
  ASSUME SemInv, NEW q \in Callers, Holds(q), ReleasePermit(q)
  PROVE  SemInv'
<1>1. permits = 0 /\ phase[q] # "waiting"
  BY DEF SemInv, PermitAccounting, Holds
<1>2. \A p \in Callers : Holds(p) => p = q
  BY DEF SemInv, PermitAccounting
<1>3. CASE waiters = <<>>
  <2>1. permits' = 1 /\ waiters' = <<>> /\ phase' = [phase EXCEPT ![q] = "idle"]
    BY <1>1, <1>3 DEF ReleasePermit
  <2>2. phase' \in [Callers -> Phases] /\ \A p \in Callers : ~Holds(p)'
    BY <1>2, <2>1 DEF SemInv, Holds, Phases
  <2>3. QueueMatchesTasks'
    BY <1>3, <2>1 DEF SemInv, QueueMatchesTasks
  <2> QED
    BY <2>1, <2>2, <2>3 DEF SemInv, PermitAccounting
<1>4. CASE waiters # <<>>
  <2> DEFINE h == Head(waiters)
  <2>1. /\ permits' = 0
        /\ waiters' = Tail(waiters)
        /\ phase' = [phase EXCEPT ![q] = "idle", ![h] = "granted"]
    BY <1>1, <1>4 DEF ReleasePermit
  <2>2. /\ h \in Callers /\ h = waiters[1] /\ Len(waiters) \in Nat \ {0}
        /\ waiters' \in Seq(Callers) /\ Len(waiters') = Len(waiters) - 1
        /\ \A i \in 1..(Len(waiters) - 1) : waiters'[i] = waiters[i + 1]
    BY <1>4, <2>1 DEF SemInv
  <2>3. phase[h] = "waiting" /\ h # q
    BY <1>1, <2>2 DEF SemInv, QueueMatchesTasks
  <2>4. phase' \in [Callers -> Phases]
    BY <2>1, <2>2 DEF SemInv, Phases
  <2>5. \A p \in Callers : Holds(p)' <=> p = h
    BY <1>2, <2>1, <2>2, <2>3 DEF SemInv, Holds
  <2>6. PermitAccounting'
    BY <2>1, <2>2, <2>5 DEF PermitAccounting
  <2>7. QueueMatchesTasks'
    <3>1. \A i \in 1..Len(waiters') : phase'[waiters'[i]] = "waiting"
      <4> SUFFICES ASSUME NEW i \in 1..Len(waiters')
                   PROVE  phase'[waiters'[i]] = "waiting"
        OBVIOUS
      <4>1. i + 1 \in 1..Len(waiters) /\ waiters'[i] = waiters[i + 1] /\ i + 1 # 1
        BY <2>2
      <4>2. waiters[i + 1] # h /\ waiters[i + 1] # q /\ phase[waiters[i + 1]] = "waiting"
        BY <1>1, <2>2, <4>1 DEF SemInv, QueueMatchesTasks
      <4>3. waiters[i + 1] \in Callers
        BY <4>1 DEF SemInv
      <4> QED
        BY <2>1, <4>1, <4>2, <4>3 DEF SemInv
    <3>2. \A i, j \in 1..Len(waiters') : waiters'[i] = waiters'[j] => i = j
      <4> SUFFICES ASSUME NEW i \in 1..Len(waiters'), NEW j \in 1..Len(waiters'),
                          waiters'[i] = waiters'[j]
                   PROVE  i = j
        OBVIOUS
      <4>1. /\ i + 1 \in 1..Len(waiters) /\ j + 1 \in 1..Len(waiters)
            /\ waiters[i + 1] = waiters[j + 1]
        BY <2>2
      <4>2. i + 1 = j + 1
        BY <4>1 DEF SemInv, QueueMatchesTasks
      <4> QED
        BY <4>2
    <3>3. \A p \in Callers :
            phase'[p] = "waiting" => \E i \in 1..Len(waiters') : waiters'[i] = p
      <4> SUFFICES ASSUME NEW p \in Callers, phase'[p] = "waiting"
                   PROVE  \E i \in 1..Len(waiters') : waiters'[i] = p
        OBVIOUS
      <4>1. p # h /\ p # q /\ phase[p] = "waiting"
        BY <2>1, <2>2 DEF SemInv
      <4>2. PICK k \in 1..Len(waiters) : waiters[k] = p
        BY <4>1 DEF SemInv, QueueMatchesTasks
      <4>3. k # 1 /\ k - 1 \in 1..Len(waiters') /\ waiters'[k - 1] = p
        BY <2>2, <4>1, <4>2
      <4> QED
        BY <4>3
    <3> QED
      BY <3>1, <3>2, <3>3 DEF QueueMatchesTasks
  <2> QED
    BY <2>1, <2>2, <2>4, <2>6, <2>7 DEF SemInv
<1> QED
  BY <1>3, <1>4

(* A waiter that is cancelled leaves the queue, and only the queue. *)
LEMMA CancelWaiterKeepsSem ==
  ASSUME SemInv, NEW q \in Callers, CancelWaiter(q)
  PROVE  SemInv'
<1>1. /\ phase[q] = "waiting" /\ permits' = permits
      /\ phase' = [phase EXCEPT ![q] = "idle"]
  BY DEF CancelWaiter
<1>2. PICK i \in 1..Len(waiters) : waiters[i] = q /\ waiters' = WithoutAt(waiters, i)
  BY DEF CancelWaiter
<1>3. /\ waiters' \in Seq(Callers)
      /\ Len(waiters') = Len(waiters) - 1
      /\ Len(waiters) \in Nat \ {0}
      /\ \A j \in 1..Len(waiters') : waiters'[j] = IF j < i THEN waiters[j] ELSE waiters[j + 1]
  <2>1. waiters \in Seq(Callers)
    BY DEF SemInv
  <2>2. \A s \in Seq(Callers) : \A k \in 1..Len(s) :
          /\ WithoutAt(s, k) \in Seq(Callers)
          /\ Len(WithoutAt(s, k)) = Len(s) - 1
          /\ \A j \in 1..(Len(s) - 1) :
               WithoutAt(s, k)[j] = IF j < k THEN s[j] ELSE s[j + 1]
    BY WithoutAtType
  <2>3. Len(waiters) \in Nat \ {0}
    BY <2>1
  <2> QED
    BY <1>2, <2>1, <2>2, <2>3
<1>4. phase' \in [Callers -> Phases]
  BY <1>1 DEF SemInv, Phases
<1>5. PermitAccounting'
  BY <1>1, <1>3 DEF SemInv, PermitAccounting, Holds
<1>6. QueueMatchesTasks'
  <2>1. \A j \in 1..Len(waiters') : phase'[waiters'[j]] = "waiting"
    <3> SUFFICES ASSUME NEW j \in 1..Len(waiters')
                 PROVE  phase'[waiters'[j]] = "waiting"
      OBVIOUS
    <3>1. PICK k \in 1..Len(waiters) : k # i /\ waiters'[j] = waiters[k]
      BY <1>3
    <3>2. waiters[k] # q /\ waiters[k] \in Callers /\ phase[waiters[k]] = "waiting"
      BY <1>2, <3>1 DEF SemInv, QueueMatchesTasks
    <3> QED
      BY <1>1, <3>1, <3>2 DEF SemInv
  <2>2. \A j, k \in 1..Len(waiters') : waiters'[j] = waiters'[k] => j = k
    <3> SUFFICES ASSUME NEW j \in 1..Len(waiters'), NEW k \in 1..Len(waiters'),
                        waiters'[j] = waiters'[k]
                 PROVE  j = k
      OBVIOUS
    <3> DEFINE old(n) == IF n < i THEN n ELSE n + 1
    <3>1. /\ old(j) \in 1..Len(waiters) /\ old(k) \in 1..Len(waiters)
          /\ waiters[old(j)] = waiters[old(k)]
      BY <1>3
    <3>2. old(j) = old(k)
      <4> HIDE DEF old
      <4> QED
        BY <3>1 DEF SemInv, QueueMatchesTasks
    <3> QED
      BY <1>3, <3>2
  <2>3. \A p \in Callers :
          phase'[p] = "waiting" => \E j \in 1..Len(waiters') : waiters'[j] = p
    <3> SUFFICES ASSUME NEW p \in Callers, phase'[p] = "waiting"
                 PROVE  \E j \in 1..Len(waiters') : waiters'[j] = p
      OBVIOUS
    <3>1. p # q /\ phase[p] = "waiting"
      BY <1>1 DEF SemInv
    <3>2. PICK k \in 1..Len(waiters) : waiters[k] = p
      BY <3>1 DEF SemInv, QueueMatchesTasks
    <3>3. CASE k < i
      BY <1>3, <3>2, <3>3
    <3>4. CASE k > i
      <4>1. k - 1 \in 1..Len(waiters') /\ waiters'[k - 1] = p
        BY <1>3, <3>2, <3>4
      <4> QED
        BY <4>1
    <3> QED
      BY <1>2, <3>1, <3>2, <3>3, <3>4
  <2> QED
    BY <2>1, <2>2, <2>3 DEF QueueMatchesTasks
<1> QED
  BY <1>1, <1>3, <1>4, <1>5, <1>6 DEF SemInv

----------------------------------------------------------------------------
(* The attempts of a query and the breaker. *)

(* Every step keeps the semaphore consistent. *)
LEMMA NextKeepsSem == SemInv /\ [Next]_vars => SemInv'
<1> SUFFICES ASSUME SemInv, [Next]_vars
             PROVE  SemInv'
  OBVIOUS
<1>1. ASSUME NEW q \in Callers, Call(q)
      PROVE  SemInv'
  <2>1. CASE Deny(q)
    BY <2>1 DEF Deny, SemInv, semVars, PermitAccounting, QueueMatchesTasks, Holds
  <2>2. CASE AdmitNow(q)
    BY <2>2, AdmitNowKeepsSem
  <2>3. CASE AdmitLater(q)
    BY <2>3, AdmitLaterKeepsSem
  <2> QED
    BY <1>1, <2>1, <2>2, <2>3 DEF Call
<1>2. ASSUME NEW q \in Callers, Resume(q) \/ Retry(q) \/ BackOff(q)
      PROVE  SemInv'
  <2>1. PICK ph \in {"requesting", "backoff"} : phase' = [phase EXCEPT ![q] = ph]
    BY <1>2 DEF Resume, Retry, BackOff
  <2>2. /\ phase[q] \in {"granted", "requesting", "backoff"}
        /\ UNCHANGED semVars
    BY <1>2 DEF Resume, Retry, BackOff, semVars
  <2> QED
    BY <2>1, <2>2, MoveKeepsSem DEF Phases
<1>3. ASSUME NEW q \in Callers, Succeed(q) \/ Fail(q) \/ CancelHolder(q)
      PROVE  SemInv'
  BY <1>3, ReleaseKeepsSem DEF Succeed, Fail, CancelHolder, Holds
<1>4. ASSUME NEW q \in Callers, CancelWaiter(q)
      PROVE  SemInv'
  BY <1>4, CancelWaiterKeepsSem
<1>5. ASSUME NEW q \in Callers, Preflight(q)
      PROVE  SemInv'
  <2>1. CASE PreflightSkip(q)
    BY <2>1 DEF PreflightSkip, SemInv, semVars, PermitAccounting, QueueMatchesTasks, Holds
  <2>2. CASE PreflightSend(q)
    BY <2>2, MoveKeepsSem DEF PreflightSend, Phases
  <2>3. CASE PreflightEnd(q)
    BY <2>3, MoveKeepsSem DEF PreflightEnd, Phases
  <2> QED
    BY <1>5, <2>1, <2>2, <2>3 DEF Preflight
<1>6. CASE Tick \/ HostLoad \/ UNCHANGED vars
  <2>1. UNCHANGED <<phase, permits, waiters>>
    BY <1>6 DEF Tick, HostLoad, vars, semVars
  <2> QED
    BY <2>1 DEF SemInv, PermitAccounting, QueueMatchesTasks, Holds
<1> QED
  BY <1>1, <1>2, <1>3, <1>4, <1>5, <1>6 DEF Next, Answer, Cancel

BreakerInv ==
  /\ failures \in 0..FailureCap
  /\ isOpen \in BOOLEAN
  /\ sinceFailure \in 0..(Cooldown + 1)
  /\ BreakerConsistent

(* The breaker's methods keep the flag and the counter in agreement. *)
LEMMA RecordKeepsBreaker ==
  ASSUME BreakerInv, RecordSuccess \/ RecordFailure \/ UNCHANGED breakerVars
  PROVE  BreakerInv'
<1> USE ChannelAssumption DEF ChannelAssumption
<1>1. CASE RecordSuccess
  <2>1. CASE BreakerEnabled
    <3>1. failures' = 0 /\ isOpen' = FALSE /\ sinceFailure' = sinceFailure
      BY <1>1, <2>1 DEF RecordSuccess
    <3>2. ~(0 >= MaxFailures) /\ 0 \in 0..FailureCap
      OBVIOUS
    <3>3. isOpen' <=> failures' >= MaxFailures
      BY <3>1, <3>2
    <3> QED
      BY <3>1, <3>2, <3>3 DEF BreakerInv, BreakerConsistent
  <2>2. CASE ~BreakerEnabled
    BY <1>1, <2>2 DEF RecordSuccess, BreakerInv, BreakerConsistent, breakerVars
  <2> QED
    BY <2>1, <2>2
<1>2. CASE RecordFailure
  <2>1. CASE BreakerEnabled
    <3>1. /\ failures' = IF failures < FailureCap THEN failures + 1 ELSE failures
          /\ isOpen' = (isOpen \/ failures + 1 >= MaxFailures)
          /\ sinceFailure' = 0
      BY <1>2, <2>1 DEF RecordFailure
    <3>2. isOpen' <=> (isOpen \/ failures + 1 >= MaxFailures)
      BY <3>1
    <3>3. (failures >= MaxFailures \/ failures + 1 >= MaxFailures) <=> failures' >= MaxFailures
      BY <3>1 DEF BreakerInv
    <3>4. isOpen <=> failures >= MaxFailures
      BY DEF BreakerInv, BreakerConsistent
    <3>5. isOpen' <=> failures' >= MaxFailures
      BY <3>2, <3>3, <3>4
    <3>6. failures' \in 0..FailureCap /\ sinceFailure' \in 0..(Cooldown + 1)
      BY <3>1 DEF BreakerInv
    <3>7. isOpen' \in BOOLEAN
      BY <3>1
    <3> QED
      BY <3>5, <3>6, <3>7 DEF BreakerInv, BreakerConsistent
  <2>2. CASE ~BreakerEnabled
    BY <1>2, <2>2 DEF RecordFailure, BreakerInv, BreakerConsistent, breakerVars
  <2> QED
    BY <2>1, <2>2
<1>3. CASE UNCHANGED breakerVars
  BY <1>3 DEF BreakerInv, BreakerConsistent, breakerVars
<1> QED
  BY <1>1, <1>2, <1>3

(* Every step keeps the breaker consistent. *)
LEMMA NextKeepsBreaker == BreakerInv /\ [Next]_vars => BreakerInv'
<1> SUFFICES ASSUME BreakerInv, [Next]_vars
             PROVE  BreakerInv'
  OBVIOUS
<1>1. CASE Tick
  BY <1>1, ChannelAssumption DEF Tick, Cooled, BreakerInv, BreakerConsistent
<1>2. CASE ~Tick
  <2>1. RecordSuccess \/ RecordFailure \/ UNCHANGED breakerVars
    BY <1>2 DEF Next, Call, Deny, AdmitNow, AdmitLater, Resume, Answer, Succeed, BackOff,
         Fail, Retry, Cancel, CancelHolder, CancelWaiter, Preflight, PreflightSkip,
         PreflightSend, PreflightEnd, HostLoad, vars, breakerVars
  <2> QED
    BY <2>1, RecordKeepsBreaker
<1> QED
  BY <1>1, <1>2

AttemptInv ==
  /\ attempt \in [Callers -> 0..(MaxRetries + 1)]
  /\ RetryBudget

(* A step that sets the phase and the attempt of one query, and may hand the *)
(* permit to a waiting one, keeps the budget.                                *)
LEMMA AttemptStep ==
  ASSUME SemInv, AttemptInv, NEW q \in Callers, NEW a \in 0..(MaxRetries + 1),
         NEW ph \in Phases,
         attempt' = [attempt EXCEPT ![q] = a],
         \A p \in Callers \ {q} :
            phase'[p] = phase[p] \/ (phase[p] = "waiting" /\ phase'[p] = "granted"),
         phase'[q] = ph,
         a > 0 <=> ph \in {"requesting", "backoff"},
         ph = "backoff" => a <= MaxRetries
  PROVE  AttemptInv'
<1>1. attempt' \in [Callers -> 0..(MaxRetries + 1)]
  BY DEF AttemptInv
<1>2. ASSUME NEW p \in Callers
      PROVE  /\ attempt'[p] > 0 <=> phase'[p] \in {"requesting", "backoff"}
             /\ phase'[p] = "backoff" => attempt'[p] <= MaxRetries
  <2>1. CASE p = q
    BY <2>1 DEF AttemptInv
  <2>2. CASE p # q
    BY <2>2 DEF AttemptInv, RetryBudget
  <2> QED
    BY <2>1, <2>2
<1> QED
  BY <1>1, <1>2 DEF AttemptInv, RetryBudget

(* Releasing the permit disturbs no phase but those of the two tasks. *)
LEMMA ReleasePhases ==
  ASSUME SemInv, NEW q \in Callers, Holds(q), ReleasePermit(q)
  PROVE  /\ phase'[q] = "idle"
         /\ \A p \in Callers \ {q} :
              phase'[p] = phase[p] \/ (phase[p] = "waiting" /\ phase'[p] = "granted")
<1>1. CASE waiters = <<>>
  BY <1>1 DEF ReleasePermit, SemInv
<1>2. CASE waiters # <<>>
  <2>1. /\ Head(waiters) \in Callers /\ Head(waiters) = waiters[1]
        /\ 1 \in 1..Len(waiters)
    BY <1>2 DEF SemInv
  <2>2. phase[Head(waiters)] = "waiting"
    BY <2>1 DEF SemInv, QueueMatchesTasks
  <2>3. Head(waiters) # q
    BY <2>2 DEF Holds
  <2>4. phase' = [phase EXCEPT ![q] = "idle", ![Head(waiters)] = "granted"]
    BY <1>2 DEF ReleasePermit
  <2> QED
    BY <2>1, <2>2, <2>3, <2>4 DEF SemInv
<1> QED
  BY <1>1, <1>2

(* Every step keeps the attempts within the retry budget. *)
LEMMA NextKeepsAttempts == SemInv /\ AttemptInv /\ [Next]_vars => AttemptInv'
<1> SUFFICES ASSUME SemInv, AttemptInv, [Next]_vars
             PROVE  AttemptInv'
  OBVIOUS
<1>1. ASSUME NEW q \in Callers, AdmitNow(q) \/ Resume(q)
      PROVE  AttemptInv'
  <2>1. /\ phase' = [phase EXCEPT ![q] = "requesting"]
        /\ attempt' = [attempt EXCEPT ![q] = 1]
    BY <1>1 DEF AdmitNow, Resume
  <2>2. 1 \in 0..(MaxRetries + 1) /\ 1 > 0
    BY ChannelAssumption DEF ChannelAssumption
  <2>3. phase'[q] = "requesting" /\ \A p \in Callers \ {q} : phase'[p] = phase[p]
    BY <2>1 DEF SemInv
  <2> QED
    BY <2>1, <2>2, <2>3, AttemptStep DEF Phases
<1>2. ASSUME NEW q \in Callers, Retry(q)
      PROVE  AttemptInv'
  <2>1. /\ phase[q] = "backoff"
        /\ phase' = [phase EXCEPT ![q] = "requesting"]
        /\ attempt' = [attempt EXCEPT ![q] = attempt[q] + 1]
    BY <1>2 DEF Retry
  <2>2. attempt[q] + 1 \in 0..(MaxRetries + 1) /\ attempt[q] + 1 > 0
    BY <2>1, ChannelAssumption DEF AttemptInv, RetryBudget
  <2>3. phase'[q] = "requesting" /\ \A p \in Callers \ {q} : phase'[p] = phase[p]
    BY <2>1 DEF SemInv
  <2> QED
    BY <2>1, <2>2, <2>3, AttemptStep DEF Phases
<1>3. ASSUME NEW q \in Callers, BackOff(q)
      PROVE  AttemptInv'
  <2>1. /\ phase[q] = "requesting" /\ attempt[q] <= MaxRetries
        /\ phase' = [phase EXCEPT ![q] = "backoff"]
        /\ attempt' = [attempt EXCEPT ![q] = attempt[q]]
    BY <1>3 DEF BackOff, AttemptInv
  <2>2. attempt[q] \in 0..(MaxRetries + 1) /\ attempt[q] > 0
    BY <2>1 DEF AttemptInv, RetryBudget
  <2>3. phase'[q] = "backoff" /\ \A p \in Callers \ {q} : phase'[p] = phase[p]
    BY <2>1 DEF SemInv
  <2> QED
    BY <2>1, <2>2, <2>3, AttemptStep DEF Phases
<1>4. ASSUME NEW q \in Callers, Succeed(q) \/ Fail(q) \/ CancelHolder(q)
      PROVE  AttemptInv'
  <2>1. /\ Holds(q) /\ ReleasePermit(q)
        /\ attempt' = [attempt EXCEPT ![q] = 0]
    BY <1>4 DEF Succeed, Fail, CancelHolder, Holds
  <2>2. 0 \in 0..(MaxRetries + 1) /\ ~(0 > 0)
    BY ChannelAssumption DEF ChannelAssumption
  <2> QED
    BY <2>1, <2>2, ReleasePhases, AttemptStep DEF Phases
<1>5. ASSUME NEW q \in Callers, NEW ph \in {"idle", "waiting", "preflight"},
             phase[q] \in {"idle", "waiting", "preflight"},
             phase' = [phase EXCEPT ![q] = ph], attempt' = attempt
      PROVE  AttemptInv'
  BY <1>5 DEF SemInv, AttemptInv, RetryBudget
<1>6. ASSUME NEW q \in Callers, AdmitLater(q) \/ CancelWaiter(q)
      PROVE  AttemptInv'
  BY <1>5, <1>6 DEF AdmitLater, CancelWaiter
<1>7. ASSUME NEW q \in Callers, PreflightSend(q) \/ PreflightEnd(q)
      PROVE  AttemptInv'
  BY <1>5, <1>7 DEF PreflightSend, PreflightEnd
<1>8. ASSUME UNCHANGED <<phase, attempt>>
      PROVE  AttemptInv'
  BY <1>8 DEF AttemptInv, RetryBudget
<1>9. ASSUME NEW q \in Callers, Deny(q) \/ PreflightSkip(q)
      PROVE  AttemptInv'
  BY <1>8, <1>9 DEF Deny, PreflightSkip
<1>10. CASE Tick \/ HostLoad \/ UNCHANGED vars
  BY <1>8, <1>10 DEF Tick, HostLoad, vars
<1> QED
  BY <1>1, <1>2, <1>3, <1>4, <1>6, <1>7, <1>9, <1>10
     DEF Next, Call, Answer, Cancel, Preflight

(* The environment flag, the results and the history variable keep their     *)
(* types.                                                                    *)
MiscInv ==
  /\ stressed \in BOOLEAN
  /\ result \in [Callers -> Results]
  /\ staleSends \in Nat

(* CountSend keeps the history variable a natural number. *)
LEMMA CountSendType ==
  ASSUME staleSends \in Nat, NEW sent, CountSend(sent)
  PROVE  staleSends' \in Nat
  BY DEF CountSend

(* Every step keeps those types. *)
LEMMA NextKeepsMisc == MiscInv /\ [Next]_vars => MiscInv'
<1> SUFFICES ASSUME MiscInv, [Next]_vars
             PROVE  MiscInv'
  OBVIOUS
<1>1. staleSends' \in Nat
  <2>1. UNCHANGED staleSends \/ CountSend(TRUE) \/ CountSend(FALSE)
    BY DEF Next, Call, Deny, AdmitNow, AdmitLater, Resume, Answer, Succeed, BackOff,
         Fail, Retry, Cancel, CancelHolder, CancelWaiter, Preflight, PreflightSkip,
         PreflightSend, PreflightEnd, Tick, HostLoad, vars
  <2> QED
    BY <2>1, CountSendType DEF MiscInv
<1>2. stressed' \in BOOLEAN
  <2>1. UNCHANGED stressed \/ HostLoad
    BY DEF Next, Call, Deny, AdmitNow, AdmitLater, Resume, Answer, Succeed, BackOff,
         Fail, Retry, Cancel, CancelHolder, CancelWaiter, Preflight, PreflightSkip,
         PreflightSend, PreflightEnd, Tick, vars
  <2> QED
    BY <2>1 DEF HostLoad, MiscInv
<1>3. result' \in [Callers -> Results]
  <2>1. ASSUME NEW q \in Callers, NEW r \in Results, result' = [result EXCEPT ![q] = r]
        PROVE  result' \in [Callers -> Results]
    BY <2>1 DEF MiscInv
  <2>2. \/ UNCHANGED result
        \/ \E q \in Callers : \E r \in Results : result' = [result EXCEPT ![q] = r]
    <3>1. \A q \in Callers : GateDecision(q) # "allowed" => GateDecision(q) \in Results
      BY DEF GateDecision, Results, Denials
    <3> QED
      BY <3>1 DEF Next, Call, Deny, AdmitNow, AdmitLater, Resume, Answer, Succeed, BackOff,
         Fail, Retry, Cancel, CancelHolder, CancelWaiter, Preflight, PreflightSkip,
         PreflightSend, PreflightEnd, Tick, HostLoad, vars, Results
  <2> QED
    BY <2>1, <2>2 DEF MiscInv
<1> QED
  BY <1>1, <1>2, <1>3 DEF MiscInv

----------------------------------------------------------------------------
(* The requests sent while the breaker refuses calls. *)

\* Requests of one query.
Budget == MaxRetries + 1

\* Queries past the gate that have sent nothing yet.
Queued == {q \in Callers : phase[q] \in {"waiting", "granted"}}

\* Requests the query may still send once it has started.
Left(q) == IF phase[q] \in {"requesting", "backoff"} THEN Budget - attempt[q] ELSE 0

\* While the breaker refuses calls, the stale requests and those that may still
\* follow, of the queries queued and of the one that has the permit, fit the bound.
DrainInv ==
  BreakerEnabled =>
    /\ ~Cooling => staleSends = 0
    /\ Cooling =>
         \A q \in Callers :
           staleSends + Cardinality(Queued) * Budget + Left(q)
             <= (Cardinality(Callers) - 1) * Budget

\* What the arithmetic of the bound needs of its terms.
DrainTypes ==
  /\ Budget \in Nat \ {0}
  /\ Cardinality(Callers) \in Nat \ {0}
  /\ IsFiniteSet(Queued) /\ Cardinality(Queued) \in Nat
  /\ \A q \in Callers : Left(q) \in 0..Budget

LEMMA DrainTerms == AttemptInv => DrainTypes
<1> SUFFICES ASSUME AttemptInv
             PROVE  DrainTypes
  OBVIOUS
<1>1. Queued \in SUBSET Callers
  BY DEF Queued
<1>2. IsFiniteSet(Queued) /\ Cardinality(Queued) \in Nat /\ Cardinality(Callers) \in Nat
  BY <1>1, ChannelAssumption, FS_Subset, FS_CardinalityType
<1>3. Cardinality(Callers) # 0
  BY ChannelAssumption, FS_EmptySet
<1>4. Budget \in Nat \ {0}
  BY ChannelAssumption DEF Budget
<1>5. \A q \in Callers : attempt[q] \in 0..Budget
  BY DEF AttemptInv, Budget
<1> QED
  BY <1>2, <1>3, <1>4, <1>5 DEF DrainTypes, Left

LEMMA DrainTermsNext == AttemptInv' => DrainTypes'
  BY DrainTerms, PTL

\* Fewer queued queries leave fewer requests.
LEMMA FewerRequests ==
  ASSUME NEW m \in Nat, NEW n \in Nat, NEW k \in Nat, m <= n
  PROVE  m * k <= n * k /\ m * k \in Nat /\ n * k \in Nat
OBVIOUS

LEMMA OneQueryLess ==
  ASSUME NEW n \in Nat, NEW k \in Nat
  PROVE  (n - 1) * k = n * k - k
OBVIOUS

\* A step by which no query gains requests, and that sends none, keeps the bound.
LEMMA NothingSentKeepsDrain ==
  ASSUME AttemptInv, AttemptInv', DrainInv, staleSends \in Nat,
         Cooling' = Cooling, staleSends' = staleSends,
         Cooling => Queued' \subseteq Queued,
         Cooling => \A q \in Callers : Left(q)' <= Left(q)
  PROVE  DrainInv'
<1>1. ASSUME BreakerEnabled, Cooling, NEW q \in Callers
      PROVE  staleSends + Cardinality(Queued') * Budget + Left(q)'
               <= (Cardinality(Callers) - 1) * Budget
  <2> DEFINE m == Cardinality(Queued')
             n == Cardinality(Queued)
  <2>1. Queued' \in SUBSET Queued
    BY <1>1
  <2>2. m <= n /\ m \in Nat /\ n \in Nat /\ Budget \in Nat
    BY <2>1, DrainTerms, FS_Subset, FS_CardinalityType DEF DrainTypes
  <2>3. Left(q)' <= Left(q) /\ Left(q)' \in Nat /\ Left(q) \in Nat
    BY <1>1, DrainTerms, DrainTermsNext DEF DrainTypes
  <2>4. staleSends + n * Budget + Left(q) <= (Cardinality(Callers) - 1) * Budget
    BY <1>1 DEF DrainInv
  <2>5. m * Budget <= n * Budget /\ m * Budget \in Nat /\ n * Budget \in Nat
    BY <2>2, FewerRequests
  <2>6. (Cardinality(Callers) - 1) * Budget \in Int
    BY DrainTerms DEF DrainTypes
  <2> QED
    BY <2>3, <2>4, <2>5, <2>6
<1> QED
  BY <1>1 DEF DrainInv

\* A query that ends, or is cancelled, sends no more.
LEMMA EndedSendsNothing ==
  ASSUME AttemptInv, NEW q \in Callers,
         phase'[q] = "idle",
         \A p \in Callers \ {q} :
           /\ phase'[p] = phase[p] \/ (phase[p] = "waiting" /\ phase'[p] = "granted")
           /\ attempt'[p] = attempt[p]
  PROVE  Queued' \subseteq Queued /\ \A p \in Callers : Left(p)' <= Left(p)
<1>1. Queued' \subseteq Queued
  BY DEF Queued
<1>2. ASSUME NEW p \in Callers PROVE Left(p)' <= Left(p)
  <2>1. Left(p) \in Nat
    BY DrainTerms DEF DrainTypes
  <2>2. CASE p = q
    BY <2>1, <2>2 DEF Left
  <2>3. CASE p # q
    <3>1. Left(p)' = Left(p)
      BY <2>3 DEF Left, Budget
    <3> QED
      BY <2>1, <3>1
  <2> QED
    BY <2>2, <2>3
<1> QED
  BY <1>1, <1>2

\* The breaker refuses calls only when it is enabled and open.
LEMMA RefusedWhileCooling ==
  ASSUME BreakerEnabled, NEW q \in Callers, GateDecision(q) = "allowed"
  PROVE  ~Cooling
BY DEF GateDecision, CheckStatus, Cooling

\* A query that resumes with the permit takes its requests from those queued.
LEMMA ResumeKeepsDrain ==
  ASSUME SemInv, AttemptInv, SemInv', AttemptInv', DrainInv, staleSends \in Nat,
         NEW q \in Callers, Resume(q)
  PROVE  DrainInv'
<1>1. /\ phase[q] = "granted"
      /\ phase' = [phase EXCEPT ![q] = "requesting"]
      /\ attempt' = [attempt EXCEPT ![q] = 1]
      /\ Cooling' = Cooling
      /\ staleSends' = IF ~Cooling' THEN 0 ELSE staleSends + 1
  BY DEF Resume, CountSend, Cooling, Cooled, breakerVars
<1>2. ASSUME BreakerEnabled, Cooling, NEW p \in Callers
      PROVE  staleSends' + Cardinality(Queued') * Budget + Left(p)'
               <= (Cardinality(Callers) - 1) * Budget
  <2> DEFINE n == Cardinality(Queued)
             bound == (Cardinality(Callers) - 1) * Budget
  <2>1. Queued' = Queued \ {q} /\ q \in Queued
    BY <1>1 DEF Queued, SemInv
  <2>2. Cardinality(Queued') = n - 1 /\ n \in Nat /\ n # 0 /\ Budget \in Nat \ {0}
    <3>1. IsFiniteSet(Queued) /\ n \in Nat /\ Budget \in Nat \ {0}
      BY DrainTerms DEF DrainTypes
    <3>2. Cardinality(Queued \ {q}) = n - 1
      BY <2>1, <3>1, FS_RemoveElement
    <3>3. n # 0
      BY <2>1, <3>1, FS_EmptySet
    <3> QED
      BY <2>1, <3>1, <3>2, <3>3
  <2>3. (n - 1) * Budget = n * Budget - Budget /\ n * Budget \in Nat
    BY <2>2, OneQueryLess, FewerRequests
  <2>4. staleSends + n * Budget + Left(q) <= bound /\ Left(q) = 0
    BY <1>1, <1>2 DEF DrainInv, Left
  <2>5. Left(p)' <= Budget - 1 /\ Left(p)' \in Nat
    <3>1. CASE p = q
      BY <1>1, <2>2, <3>1 DEF Left, SemInv, AttemptInv, Budget
    <3>2. CASE p # q
      <4>1. ~Holds(p)
        BY <1>1, <3>2 DEF SemInv, PermitAccounting, Holds
      <4>2. phase'[p] = phase[p]
        BY <1>1, <3>2 DEF SemInv
      <4>3. Left(p)' = 0
        BY <4>1, <4>2 DEF Left, Holds
      <4> QED
        BY <4>3, <2>2
    <3> QED
      BY <3>1, <3>2
  <2>6. staleSends' = staleSends + 1
    BY <1>1, <1>2
  <2>7. bound \in Int
    BY DrainTerms DEF DrainTypes
  <2> HIDE DEF n, bound
  <2>8. staleSends + 1 + (n * Budget - Budget) + Left(p)' <= bound
    BY <2>2, <2>3, <2>4, <2>5, <2>7
  <2> QED
    BY <2>2, <2>3, <2>6, <2>8 DEF bound
<1> QED
  BY <1>1, <1>2 DEF DrainInv, Budget

\* A retry is one of the requests the query had left.
LEMMA RetryKeepsDrain ==
  ASSUME SemInv, AttemptInv, SemInv', AttemptInv', DrainInv, staleSends \in Nat,
         NEW q \in Callers, Retry(q)
  PROVE  DrainInv'
<1>1. /\ phase[q] = "backoff"
      /\ phase' = [phase EXCEPT ![q] = "requesting"]
      /\ attempt' = [attempt EXCEPT ![q] = attempt[q] + 1]
      /\ Cooling' = Cooling
      /\ staleSends' = IF ~Cooling' THEN 0 ELSE staleSends + 1
  BY DEF Retry, CountSend, Cooling, Cooled, breakerVars
<1>2. Queued' = Queued
  BY <1>1 DEF Queued, SemInv
<1>3. ASSUME BreakerEnabled, Cooling, NEW p \in Callers
      PROVE  staleSends' + Cardinality(Queued') * Budget + Left(p)'
               <= (Cardinality(Callers) - 1) * Budget
  <2> DEFINE total == Cardinality(Queued) * Budget
             bound == (Cardinality(Callers) - 1) * Budget
  <2>1. staleSends + total + Left(q) <= bound /\ total \in Nat /\ bound \in Int
    BY <1>3, DrainTerms, FewerRequests DEF DrainInv, DrainTypes
  <2>2. Left(p)' <= Left(q) - 1 /\ Left(p)' \in Nat /\ Left(q) \in Nat
    <3>1. Left(q)' = Left(q) - 1 /\ Left(q) \in Nat /\ Left(q)' \in Nat
      BY <1>1, DrainTerms, DrainTermsNext, ChannelAssumption
         DEF DrainTypes, Left, SemInv, AttemptInv, Budget
    <3>2. CASE p # q
      <4>1. ~Holds(p)
        BY <1>1, <3>2 DEF SemInv, PermitAccounting, Holds
      <4>2. phase'[p] = phase[p]
        BY <1>1, <3>2 DEF SemInv
      <4>3. Left(p)' = 0
        BY <4>1, <4>2 DEF Left, Holds
      <4> QED
        BY <4>3, <3>1
    <3> QED
      BY <3>1, <3>2
  <2>3. staleSends' = staleSends + 1
    BY <1>1, <1>3
  <2> HIDE DEF total, bound
  <2>4. staleSends + 1 + total + Left(p)' <= bound
    BY <2>1, <2>2
  <2> QED
    BY <1>2, <2>3, <2>4 DEF total, bound, Budget
<1> QED
  BY <1>1, <1>3 DEF DrainInv, Budget

\* A failure opens the breaker on at most all the other queries.
LEMMA FailKeepsDrain ==
  ASSUME SemInv, AttemptInv, SemInv', AttemptInv', DrainInv, staleSends \in Nat,
         NEW q \in Callers, Fail(q)
  PROVE  DrainInv'
<1>1. /\ Holds(q) /\ ReleasePermit(q) /\ RecordFailure
      /\ attempt' = [attempt EXCEPT ![q] = 0]
      /\ staleSends' = IF ~Cooling' THEN 0 ELSE staleSends
  BY DEF Fail, CountSend, Holds
<1>2. Queued' \subseteq Queued /\ \A p \in Callers : Left(p)' <= Left(p)
  BY <1>1, ReleasePhases, EndedSendsNothing DEF AttemptInv
<1>3. phase'[q] = "idle"
  BY <1>1, ReleasePhases
<1>4. ASSUME BreakerEnabled, Cooling', ~Cooling PROVE DrainInv'
  <2> DEFINE m == Cardinality(Queued')
             n == Cardinality(Callers)
  <2>1. staleSends' = 0
    BY <1>1, <1>4 DEF DrainInv
  <2>2. m <= n - 1 /\ m \in Nat /\ n - 1 \in Nat /\ Budget \in Nat /\ Budget' = Budget
    <3>1. Queued' \in SUBSET (Callers \ {q})
      BY <1>3 DEF Queued
    <3>2. n \in Nat \ {0} /\ IsFiniteSet(Callers)
      BY DrainTerms, ChannelAssumption DEF DrainTypes
    <3>3. Cardinality(Callers \ {q}) = n - 1 /\ IsFiniteSet(Callers \ {q})
      BY <3>2, FS_RemoveElement
    <3>4. Cardinality(Queued') <= n - 1
      BY <3>1, <3>3, FS_Subset
    <3>5. Cardinality(Queued)' \in Nat /\ Budget \in Nat
      BY DrainTerms, DrainTermsNext DEF DrainTypes
    <3> QED
      BY <3>2, <3>4, <3>5 DEF Budget
  <2>3. m * Budget <= (n - 1) * Budget /\ m * Budget \in Nat
    BY <2>2, FewerRequests
  <2>4. \A p \in Callers : Left(p)' = 0
    <3>1. ASSUME NEW p \in Callers PROVE phase'[p] \notin {"requesting", "backoff"}
      <4>1. CASE p = q
        BY <1>3, <4>1
      <4>2. CASE p # q
        <5>1. ~Holds(p)
          BY <1>1, <4>2 DEF SemInv, PermitAccounting
        <5>2. phase'[p] = phase[p] \/ phase'[p] = "granted"
          BY <1>1, <4>2, ReleasePhases
        <5> QED
          BY <5>1, <5>2 DEF Holds
      <4> QED
        BY <4>1, <4>2
    <3> QED
      BY <3>1 DEF Left
  <2>5. (n - 1) * Budget \in Int
    BY <2>2
  <2> HIDE DEF m, n
  <2>6. \A p \in Callers : 0 + m * Budget + 0 <= (n - 1) * Budget
    BY <2>3, <2>5
  <2>7. \A p \in Callers : staleSends' + m * Budget + Left(p)' <= (n - 1) * Budget
    BY <2>1, <2>4, <2>6
  <2> QED
    BY <1>4, <2>2, <2>7 DEF DrainInv, m, n
<1>5. ASSUME BreakerEnabled, Cooling', Cooling PROVE DrainInv'
  <2>1. staleSends' = staleSends /\ Cooling' = Cooling
    <3>1. Cooling' <=> Cooling
      BY <1>5
    <3>2. Cooling' \in BOOLEAN /\ Cooling \in BOOLEAN
      BY DEF Cooling, Cooled
    <3> QED
      BY <1>1, <1>5, <3>1, <3>2
  <2> QED
    BY <1>2, <2>1, NothingSentKeepsDrain
<1>6. ASSUME BreakerEnabled, ~Cooling' PROVE DrainInv'
  <2>1. staleSends' = 0
    BY <1>1, <1>6
  <2> QED
    BY <1>6, <2>1 DEF DrainInv
<1>7. ASSUME ~BreakerEnabled PROVE DrainInv'
  BY <1>7 DEF DrainInv
<1> QED
  BY <1>4, <1>5, <1>6, <1>7

\* Every step keeps the bound.
LEMMA NextKeepsDrain ==
  ASSUME SemInv, AttemptInv, SemInv', AttemptInv', DrainInv, staleSends \in Nat,
         [Next]_vars
  PROVE  DrainInv'
<1>1. ASSUME UNCHANGED <<phase, attempt, breakerVars, staleSends>>
      PROVE  DrainInv'
  <2>1. Cooling' = Cooling /\ Queued' = Queued /\ staleSends' = staleSends
    BY <1>1 DEF Cooling, Cooled, breakerVars, Queued
  <2>2. \A q \in Callers : Left(q)' <= Left(q)
    <3>1. \A q \in Callers : Left(q)' = Left(q) /\ Left(q) \in Nat
      BY <1>1, DrainTerms DEF DrainTypes, Left, Budget
    <3> QED
      BY <3>1
  <2> QED
    BY <2>1, <2>2, NothingSentKeepsDrain
<1>2. ASSUME NEW q \in Callers, AdmitNow(q) \/ AdmitLater(q) \/ PreflightSend(q)
      PROVE  DrainInv'
  <2>1. BreakerEnabled => ~Cooling
    BY <1>2, RefusedWhileCooling DEF AdmitNow, AdmitLater, PreflightSend
  <2>2. Cooling' = Cooling
    <3>1. isOpen' = isOpen /\ sinceFailure' = sinceFailure
      BY <1>2 DEF AdmitNow, AdmitLater, PreflightSend, breakerVars
    <3> QED
      BY <3>1 DEF Cooling, Cooled
  <2>3. staleSends' = staleSends \/ CountSend(TRUE)
    BY <1>2 DEF AdmitNow, AdmitLater, PreflightSend
  <2>4. BreakerEnabled => ~Cooling' /\ staleSends' = 0
    BY <2>1, <2>2, <2>3 DEF DrainInv, CountSend
  <2> QED
    BY <2>4 DEF DrainInv
<1>3. ASSUME NEW q \in Callers, Resume(q) PROVE DrainInv'
  BY <1>3, ResumeKeepsDrain
<1>4. ASSUME NEW q \in Callers, Retry(q) PROVE DrainInv'
  BY <1>4, RetryKeepsDrain
<1>5. ASSUME NEW q \in Callers, Fail(q) PROVE DrainInv'
  BY <1>5, FailKeepsDrain
<1>6. ASSUME NEW q \in Callers, Succeed(q) PROVE DrainInv'
  <2>1. BreakerEnabled => ~Cooling'
    BY <1>6 DEF Succeed, RecordSuccess, Cooling
  <2>2. BreakerEnabled => staleSends' = 0
    BY <1>6, <2>1 DEF Succeed, CountSend
  <2> QED
    BY <2>1, <2>2 DEF DrainInv
<1>7. ASSUME NEW q \in Callers, BackOff(q) PROVE DrainInv'
  <2>1. /\ phase[q] = "requesting" /\ phase' = [phase EXCEPT ![q] = "backoff"]
        /\ attempt' = attempt /\ staleSends' = staleSends
        /\ Cooling' = Cooling
    BY <1>7 DEF BackOff, breakerVars, Cooling, Cooled
  <2>2. Queued' = Queued
    BY <2>1 DEF Queued, SemInv
  <2>3. \A p \in Callers : Left(p)' = Left(p) /\ Left(p) \in Nat
    BY <2>1, DrainTerms DEF DrainTypes, Left, SemInv, Budget
  <2>4. \A p \in Callers : Left(p)' <= Left(p)
    BY <2>3
  <2> QED
    BY <2>1, <2>2, <2>4, NothingSentKeepsDrain
<1>8. ASSUME NEW q \in Callers, Cancel(q) PROVE DrainInv'
  <2>1. Cooling' = Cooling /\ staleSends' = staleSends
    BY <1>8 DEF Cancel, CancelHolder, CancelWaiter, breakerVars, Cooling, Cooled
  <2>2. Queued' \subseteq Queued /\ \A p \in Callers : Left(p)' <= Left(p)
    <3>1. CASE CancelHolder(q)
      BY <3>1, ReleasePhases, EndedSendsNothing DEF CancelHolder, AttemptInv
    <3>2. CASE CancelWaiter(q)
      BY <3>2, EndedSendsNothing DEF CancelWaiter, SemInv
    <3> QED
      BY <1>8, <3>1, <3>2 DEF Cancel
  <2> QED
    BY <2>1, <2>2, NothingSentKeepsDrain
<1>9. ASSUME NEW q \in Callers, PreflightEnd(q) PROVE DrainInv'
  <2>1. Cooling' = Cooling /\ staleSends' = staleSends
    BY <1>9 DEF PreflightEnd, breakerVars, Cooling, Cooled
  <2>2. Queued' \subseteq Queued /\ \A p \in Callers : Left(p)' <= Left(p)
    BY <1>9, EndedSendsNothing DEF PreflightEnd, SemInv
  <2> QED
    BY <2>1, <2>2, NothingSentKeepsDrain
<1>10. CASE Tick
  <2>1. UNCHANGED <<phase, attempt, isOpen>> /\ ~Cooled /\ sinceFailure' = sinceFailure + 1
        /\ staleSends' = IF ~Cooling' THEN 0 ELSE staleSends
    BY <1>10 DEF Tick, CountSend
  <2>2. CASE Cooling'
    <3>1. Cooling' = Cooling
      BY <2>1, <2>2 DEF Cooling
    <3>2. \A p \in Callers : Left(p)' = Left(p) /\ Left(p) \in Nat
      BY <2>1, DrainTerms DEF DrainTypes, Left, Budget
    <3>3. Queued' = Queued /\ staleSends' = staleSends
      BY <2>1, <2>2 DEF Queued
    <3>4. \A p \in Callers : Left(p)' <= Left(p)
      BY <3>2
    <3> QED
      BY <3>1, <3>3, <3>4, NothingSentKeepsDrain
  <2>3. CASE ~Cooling'
    BY <2>1, <2>3 DEF DrainInv
  <2> QED
    BY <2>2, <2>3
<1>11. CASE HostLoad \/ UNCHANGED vars
  BY <1>1, <1>11 DEF HostLoad, vars, breakerVars
<1>12. ASSUME NEW q \in Callers, Deny(q) \/ PreflightSkip(q) PROVE DrainInv'
  BY <1>1, <1>12 DEF Deny, PreflightSkip
<1> QED
  BY <1>2, <1>3, <1>4, <1>5, <1>6, <1>7, <1>8, <1>9, <1>10, <1>11, <1>12
     DEF Next, Call, Answer, Preflight


----------------------------------------------------------------------------
(* The conjunction of the parts. *)
LEMMA IInvParts == IInv <=> SemInv /\ AttemptInv /\ BreakerInv /\ MiscInv
  BY DEF IInv, TypeOK, SemInv, AttemptInv, BreakerInv, MiscInv

(* The initial state satisfies the inductive invariant. *)
LEMMA InitIInv == Init => IInv
<1> SUFFICES ASSUME Init
             PROVE  IInv
  OBVIOUS
<1>1. SemInv
  BY DEF Init, SemInv, PermitAccounting, QueueMatchesTasks, Holds, Phases
<1>2. AttemptInv
  BY ChannelAssumption DEF ChannelAssumption, Init, AttemptInv, RetryBudget
<1>3. BreakerInv
  <2>1. failures = 0 /\ isOpen = FALSE /\ sinceFailure = Cooldown + 1
    BY DEF Init
  <2>2. ~(0 >= MaxFailures)
    BY ChannelAssumption DEF ChannelAssumption
  <2>3. 0 \in 0..FailureCap /\ Cooldown + 1 \in 0..(Cooldown + 1)
    BY ChannelAssumption DEF ChannelAssumption
  <2>4. isOpen <=> failures >= MaxFailures
    BY <2>1, <2>2
  <2> QED
    BY <2>1, <2>3, <2>4 DEF BreakerInv, BreakerConsistent
<1>4. MiscInv
  BY DEF Init, MiscInv, Results
<1> QED
  BY <1>1, <1>2, <1>3, <1>4, IInvParts

(* Every step of the channel keeps it. *)
LEMMA NextIInv == IInv /\ [Next]_vars => IInv'
<1> SUFFICES ASSUME IInv, [Next]_vars
             PROVE  IInv'
  OBVIOUS
<1>1. SemInv' /\ AttemptInv' /\ BreakerInv' /\ MiscInv'
  BY IInvParts, NextKeepsSem, NextKeepsAttempts, NextKeepsBreaker, NextKeepsMisc
<1> QED
  BY <1>1 DEF IInv, TypeOK, SemInv, AttemptInv, BreakerInv, MiscInv

(* The inductive invariant holds in every reachable state. *)
THEOREM ChannelInvariant == Spec => []IInv
<1>1. Init => IInv
  BY InitIInv
<1>2. IInv /\ [Next]_vars => IInv'
  BY NextIInv
<1> QED
  BY <1>1, <1>2, PTL DEF Spec

(* The variables of the channel keep their types. *)
THEOREM ChannelTypes == Spec => []TypeOK
<1>1. IInv => TypeOK
  BY DEF IInv
<1> QED
  BY <1>1, ChannelInvariant, PTL

(* Semaphore(1) never loses or duplicates its permit. *)
THEOREM ChannelPermit == Spec => []PermitAccounting
<1>1. IInv => PermitAccounting
  BY DEF IInv
<1> QED
  BY <1>1, ChannelInvariant, PTL

(* Every suspended query is queued exactly once, and nothing else is. *)
THEOREM ChannelQueue == Spec => []QueueMatchesTasks
<1>1. IInv => QueueMatchesTasks
  BY DEF IInv
<1> QED
  BY <1>1, ChannelInvariant, PTL

(* No query makes more than MaxRetries + 1 requests. *)
THEOREM ChannelRetries == Spec => []RetryBudget
<1>1. IInv => RetryBudget
  BY DEF IInv
<1> QED
  BY <1>1, ChannelInvariant, PTL

(* The breaker is open exactly when its counter has reached the limit. *)
THEOREM ChannelBreaker == Spec => []BreakerConsistent
<1>1. IInv => BreakerConsistent
  BY DEF IInv
<1> QED
  BY <1>1, ChannelInvariant, PTL

(* No request is stale at first, ... *)
LEMMA InitDrain == Init => DrainInv
  BY ChannelAssumption DEF Init, DrainInv, Cooling

(* ... every step keeps the count of those sent and those to come, ... *)
LEMMA NextDrain == IInv /\ IInv' /\ DrainInv /\ [Next]_vars => DrainInv'
<1>1. IInv' => SemInv' /\ AttemptInv'
  BY DEF IInv, TypeOK, SemInv, AttemptInv
<1> QED
  BY <1>1, IInvParts, NextKeepsDrain DEF MiscInv

(* ... and one of the queries has nothing left to send. *)
LEMMA DrainBound == IInv /\ DrainInv => StaleDrainBound
<1> SUFFICES ASSUME IInv, DrainInv, BreakerEnabled
             PROVE  staleSends <= (Cardinality(Callers) - 1) * (MaxRetries + 1)
  BY DEF StaleDrainBound
<1> DEFINE m == Cardinality(Queued)
           n == Cardinality(Callers)
<1>1. n \in Nat \ {0} /\ m \in Nat /\ Budget \in Nat /\ staleSends \in Nat
  BY IInvParts, DrainTerms DEF DrainTypes, MiscInv
<1>2. m * Budget \in Nat /\ (n - 1) * Budget \in Nat
  <2>1. n - 1 \in Nat
    BY <1>1
  <2> QED
    BY <1>1, <2>1, FewerRequests
<1>3. CASE ~Cooling
  <2>1. staleSends = 0
    BY <1>3 DEF DrainInv
  <2> QED
    BY <1>2, <2>1 DEF Budget
<1>4. CASE Cooling
  <2>1. PICK q \in Callers : TRUE
    BY ChannelAssumption
  <2>2. Left(q) \in Nat
    BY IInvParts, DrainTerms DEF DrainTypes
  <2>3. staleSends + m * Budget + Left(q) <= (n - 1) * Budget
    BY <1>4 DEF DrainInv
  <2> HIDE DEF m, n
  <2>4. staleSends <= (n - 1) * Budget
    BY <1>1, <1>2, <2>2, <2>3
  <2> QED
    BY <2>4 DEF n, Budget
<1> QED
  BY <1>3, <1>4

(* While the breaker refuses calls, no more requests are sent than the other  *)
(* queries, admitted before it opened, were allowed.                         *)
THEOREM ChannelDrain == Spec => []StaleDrainBound
<1> QED
  BY InitDrain, NextDrain, DrainBound, ChannelInvariant, PTL DEF Spec

----------------------------------------------------------------------------
(* The channel implements RequestLine: each step is one of the line, or none. *)

\* The line of the refinement: who has the permit, then the queue.
LineNow ==
  IF ServedNow = {} THEN waiters ELSE <<CHOOSE q \in Callers : Holds(q)>> \o waiters

\* With one owner at most, the line is the owner followed by the queue.
LineShape ==
  /\ \A q \in Callers : Holds(q) => LineNow = <<q>> \o waiters
  /\ (\A q \in Callers : ~Holds(q)) => LineNow = <<>> /\ waiters = <<>>

LEMMA LineIsOwnerAndQueue == SemInv => LineShape
<1> SUFFICES ASSUME SemInv
             PROVE  LineShape
  OBVIOUS
<1>1. ASSUME NEW q \in Callers, Holds(q) PROVE LineNow = <<q>> \o waiters
  <2>1. \A p \in Callers : Holds(p) <=> p = q
    BY <1>1 DEF SemInv, PermitAccounting
  <2>2. (CHOOSE p \in Callers : Holds(p)) = q
    BY <2>1
  <2>3. ServedNow # {}
    BY <1>1 DEF ServedNow
  <2> QED
    BY <2>2, <2>3 DEF LineNow
<1>2. ASSUME \A q \in Callers : ~Holds(q) PROVE LineNow = <<>> /\ waiters = <<>>
  <2>1. ServedNow = {} /\ waiters = <<>>
    BY <1>2 DEF ServedNow, SemInv, PermitAccounting
  <2> QED
    BY <2>1 DEF LineNow
<1> QED
  BY <1>1, <1>2 DEF LineShape

LEMMA LineIsOwnerAndQueueNext == SemInv' => LineShape'
  BY LineIsOwnerAndQueue, PTL

\* The actions of the line, of the line as it is now.
Joins(q) == ~(\E i \in 1..Len(LineNow) : LineNow[i] = q) /\ LineNow' = Append(LineNow, q)

Leaves == LineNow # <<>> /\ LineNow' = Tail(LineNow)

GivesUp(q) ==
  \E i \in 2..Len(LineNow) :
    /\ LineNow[i] = q
    /\ LineNow' = [j \in 1..(Len(LineNow) - 1) |-> IF j < i THEN LineNow[j] ELSE LineNow[j + 1]]

LineStep ==
  \/ \E q \in Callers : Joins(q)
  \/ Leaves
  \/ \E q \in Cancellable : GivesUp(q)
  \/ UNCHANGED LineNow

\* A step that changes no owner and no queue is none of the line.
LEMMA SameOwnerSameLine ==
  ASSUME SemInv, SemInv', waiters' = waiters, \A q \in Callers : Holds(q)' <=> Holds(q)
  PROVE  UNCHANGED LineNow
<1> USE LineIsOwnerAndQueue, LineIsOwnerAndQueueNext
<1>1. CASE \A q \in Callers : ~Holds(q)
  BY <1>1 DEF LineShape
<1>2. ASSUME NEW q \in Callers, Holds(q) PROVE UNCHANGED LineNow
  BY <1>2 DEF LineShape
<1> QED
  BY <1>1, <1>2

\* A task that takes the free permit joins the empty line.
LEMMA AdmitNowJoins ==
  ASSUME SemInv, SemInv', NEW q \in Callers, AdmitNow(q)
  PROVE  Joins(q)
<1>1. \A p \in Callers : ~Holds(p)
  BY DEF AdmitNow, SemInv, PermitAccounting
<1>2. LineNow = <<>> /\ waiters = <<>>
  BY <1>1, LineIsOwnerAndQueue DEF LineShape
<1>3. Holds(q)' /\ waiters' = <<>>
  BY <1>2 DEF AdmitNow, Holds, SemInv
<1>4. LineNow' = <<q>> \o <<>>
  BY <1>3, LineIsOwnerAndQueueNext DEF LineShape
<1>5. <<q>> \o <<>> = Append(<<>>, q)
  OBVIOUS
<1> QED
  BY <1>2, <1>4, <1>5 DEF Joins

\* A task that queues joins behind the others.
LEMMA AdmitLaterJoins ==
  ASSUME SemInv, SemInv', NEW q \in Callers, AdmitLater(q)
  PROVE  Joins(q)
<1>1. PICK o \in Callers : Holds(o)
  BY DEF AdmitLater, SemInv, PermitAccounting
<1>2. /\ phase[q] = "idle" /\ phase' = [phase EXCEPT ![q] = "waiting"]
      /\ waiters' = Append(waiters, q) /\ waiters \in Seq(Callers)
  BY DEF AdmitLater, SemInv
<1>3. Holds(o)' /\ o # q
  BY <1>1, <1>2 DEF Holds, SemInv
<1>4. LineNow = <<o>> \o waiters /\ LineNow' = <<o>> \o Append(waiters, q)
  BY <1>1, <1>2, <1>3, LineIsOwnerAndQueue, LineIsOwnerAndQueueNext DEF LineShape
<1>5. <<o>> \o Append(waiters, q) = Append(<<o>> \o waiters, q)
  BY <1>2
<1>6. \A i \in 1..Len(waiters) : waiters[i] # q
  BY <1>2 DEF SemInv, QueueMatchesTasks
<1>7. ASSUME NEW i \in 1..Len(LineNow) PROVE LineNow[i] # q
  <2>1. Len(LineNow) = Len(waiters) + 1
    BY <1>2, <1>4
  <2>2. CASE i = 1
    BY <1>2, <1>3, <1>4, <2>2
  <2>3. CASE i > 1
    <3>1. i - 1 \in 1..Len(waiters) /\ LineNow[i] = waiters[i - 1]
      BY <1>2, <1>4, <2>1, <2>3
    <3> QED
      BY <1>6, <3>1
  <2> QED
    BY <2>2, <2>3
<1> QED
  BY <1>4, <1>5, <1>7 DEF Joins

\* The owner that releases the permit leaves from the front.
LEMMA ReleaseLeaves ==
  ASSUME SemInv, SemInv', NEW q \in Callers, Holds(q), ReleasePermit(q)
  PROVE  Leaves
<1>1. LineNow = <<q>> \o waiters /\ waiters \in Seq(Callers)
  BY LineIsOwnerAndQueue DEF LineShape, SemInv
<1>2. LineNow # <<>> /\ Tail(LineNow) = waiters
  BY <1>1
<1>3. CASE waiters = <<>>
  <2>1. \A p \in Callers : Holds(p) => p = q
    BY DEF SemInv, PermitAccounting
  <2>2. phase' = [phase EXCEPT ![q] = "idle"]
    BY <1>3 DEF ReleasePermit
  <2>3. \A p \in Callers : ~Holds(p)'
    BY <2>1, <2>2 DEF Holds, SemInv
  <2>4. LineNow' = <<>>
    BY <2>3, LineIsOwnerAndQueueNext DEF LineShape
  <2> QED
    BY <1>2, <1>3, <2>4 DEF Leaves
<1>4. CASE waiters # <<>>
  <2>1. PICK h \in Callers : h = Head(waiters)
    BY <1>1, <1>4
  <2>2. waiters' = Tail(waiters) /\ phase' = [phase EXCEPT ![q] = "idle", ![h] = "granted"]
    BY <1>4, <2>1 DEF ReleasePermit
  <2>3. <<h>> \o Tail(waiters) = waiters
    BY <1>1, <1>4, <2>1
  <2>4. Holds(h)'
    BY <2>2 DEF Holds, SemInv
  <2>5. LineNow' = <<h>> \o Tail(waiters)
    BY <2>2, <2>4, LineIsOwnerAndQueueNext DEF LineShape
  <2> QED
    BY <1>2, <2>3, <2>5 DEF Leaves
<1> QED
  BY <1>3, <1>4

\* A waiting task that is cancelled gives up its place behind the owner.
LEMMA CancelWaiterGivesUp ==
  ASSUME SemInv, SemInv', NEW q \in Callers, CancelWaiter(q)
  PROVE  q \in Cancellable /\ GivesUp(q)
<1>1. phase[q] = "waiting" /\ phase' = [phase EXCEPT ![q] = "idle"] /\ q \in Cancellable
  BY DEF CancelWaiter
<1>2. PICK i \in 1..Len(waiters) : waiters[i] = q /\ waiters' = WithoutAt(waiters, i)
  BY DEF CancelWaiter
<1>3. waiters \in Seq(Callers) /\ Len(waiters) \in Nat \ {0} /\ waiters # <<>>
  BY <1>2 DEF SemInv
<1>4. PICK o \in Callers : Holds(o)
  BY <1>3 DEF SemInv, PermitAccounting
<1>5. Holds(o)'
  BY <1>1, <1>4 DEF Holds, SemInv
<1>6. LineNow = <<o>> \o waiters /\ LineNow' = <<o>> \o waiters'
  BY <1>4, <1>5, LineIsOwnerAndQueue, LineIsOwnerAndQueueNext DEF LineShape
<1> DEFINE k == i + 1
           without == [j \in 1..(Len(LineNow) - 1) |->
                         IF j < k THEN LineNow[j] ELSE LineNow[j + 1]]
<1>7. /\ waiters' \in Seq(Callers) /\ Len(waiters') = Len(waiters) - 1
      /\ \A j \in 1..(Len(waiters) - 1) :
           waiters'[j] = IF j < i THEN waiters[j] ELSE waiters[j + 1]
  BY <1>2, <1>3, WithoutAtType
<1>8. /\ LineNow \in Seq(Callers) /\ Len(LineNow) = Len(waiters) + 1
      /\ LineNow[1] = o /\ \A j \in 2..Len(LineNow) : LineNow[j] = waiters[j - 1]
  BY <1>3, <1>6
<1>9. /\ LineNow' \in Seq(Callers) /\ Len(LineNow') = Len(waiters)
      /\ LineNow'[1] = o /\ \A j \in 2..Len(LineNow') : LineNow'[j] = waiters'[j - 1]
  BY <1>3, <1>6, <1>7
<1>10. k \in 2..Len(LineNow) /\ LineNow[k] = q
  BY <1>2, <1>3, <1>8
<1>11. LineNow' = without
  <2>1. LineNow' = [j \in 1..Len(waiters) |-> LineNow'[j]]
    BY <1>9
  <2>2. ASSUME NEW j \in 1..Len(waiters)
        PROVE  LineNow'[j] = IF j < k THEN LineNow[j] ELSE LineNow[j + 1]
    <3>1. CASE j = 1
      BY <1>8, <1>9, <1>2, <3>1
    <3>2. CASE j > 1
      <4>1. j - 1 \in 1..(Len(waiters) - 1) /\ LineNow'[j] = waiters'[j - 1]
        BY <1>3, <1>9, <3>2
      <4>2. waiters'[j - 1] = IF j - 1 < i THEN waiters[j - 1] ELSE waiters[j]
        BY <1>7, <4>1
      <4>3. LineNow[j] = waiters[j - 1] /\ LineNow[j + 1] = waiters[j]
        BY <1>3, <1>8, <3>2
      <4>4. j - 1 < i <=> j < k
        BY <1>2
      <4> QED
        BY <4>1, <4>2, <4>3, <4>4
    <3> QED
      BY <3>1, <3>2
  <2>3. Len(LineNow) - 1 = Len(waiters)
    BY <1>3, <1>8
  <2> QED
    BY <2>1, <2>2, <2>3
<1> QED
  BY <1>1, <1>10, <1>11 DEF GivesUp

\* Every step of the channel is one of the line.
LEMMA NextIsLineStep ==
  ASSUME SemInv, SemInv', [Next]_vars
  PROVE  LineStep
<1>1. ASSUME NEW q \in Callers, AdmitNow(q) \/ AdmitLater(q) PROVE LineStep
  BY <1>1, AdmitNowJoins, AdmitLaterJoins DEF LineStep
<1>2. ASSUME NEW q \in Callers, Succeed(q) \/ Fail(q) \/ CancelHolder(q) PROVE LineStep
  BY <1>2, ReleaseLeaves DEF LineStep, Succeed, Fail, CancelHolder, Holds
<1>3. ASSUME NEW q \in Callers, CancelWaiter(q) PROVE LineStep
  BY <1>3, CancelWaiterGivesUp DEF LineStep
<1>4. ASSUME NEW q \in Callers, Resume(q) \/ Retry(q) \/ BackOff(q) PROVE LineStep
  <2>1. PICK ph \in {"requesting", "backoff"} : phase' = [phase EXCEPT ![q] = ph]
    BY <1>4 DEF Resume, Retry, BackOff
  <2>2. phase[q] \in {"granted", "requesting", "backoff"} /\ waiters' = waiters
    BY <1>4 DEF Resume, Retry, BackOff, semVars
  <2>3. \A p \in Callers : Holds(p)' <=> Holds(p)
    BY <2>1, <2>2 DEF Holds, SemInv
  <2> QED
    BY <2>2, <2>3, SameOwnerSameLine DEF LineStep
<1>5. ASSUME NEW q \in Callers, PreflightSend(q) \/ PreflightEnd(q) PROVE LineStep
  <2>1. PICK ph \in {"idle", "preflight"} : phase' = [phase EXCEPT ![q] = ph]
    BY <1>5 DEF PreflightSend, PreflightEnd
  <2>2. phase[q] \in {"idle", "preflight"} /\ waiters' = waiters
    BY <1>5 DEF PreflightSend, PreflightEnd, semVars
  <2>3. \A p \in Callers : Holds(p)' <=> Holds(p)
    BY <2>1, <2>2 DEF Holds, SemInv
  <2> QED
    BY <2>2, <2>3, SameOwnerSameLine DEF LineStep
<1>6. ASSUME UNCHANGED <<phase, waiters>> PROVE LineStep
  BY <1>6, SameOwnerSameLine DEF LineStep, Holds
<1>7. ASSUME NEW q \in Callers, Deny(q) \/ PreflightSkip(q) PROVE LineStep
  BY <1>6, <1>7 DEF Deny, PreflightSkip, semVars
<1>8. CASE Tick \/ HostLoad \/ UNCHANGED vars
  BY <1>6, <1>8 DEF Tick, HostLoad, vars, semVars
<1> QED
  BY <1>1, <1>2, <1>3, <1>4, <1>5, <1>7, <1>8 DEF Next, Call, Answer, Cancel, Preflight

(* query_llm serves its callers as RequestLine prescribes, whatever is        *)
(* cancelled: the safety part of ServesInOrder, for any set of callers.      *)
THEOREM ChannelServesInOrder == Spec => Line!LineSafety
<1>1. Init => Line!LineInit
  <2> SUFFICES ASSUME Init
               PROVE  Line!LineInit
    OBVIOUS
  <2>1. ServedNow = {} /\ waiters = <<>>
    BY DEF Init, ServedNow, Holds
  <2> QED
    BY <2>1 DEF Line!LineInit
<1>2. IInv /\ IInv' /\ [Next]_vars
        => [Line!LineNext]_(IF ServedNow = {} THEN waiters
                            ELSE <<CHOOSE q \in Callers : Holds(q)>> \o waiters)
  <2> SUFFICES ASSUME IInv, IInv', [Next]_vars
               PROVE  Line!LineNext \/ UNCHANGED LineNow
    BY DEF LineNow
  <2>1. SemInv /\ SemInv'
    BY DEF IInv, TypeOK, SemInv
  <2>2. LineStep
    BY <2>1, NextIsLineStep
  <2> QED
    BY <2>2 DEF LineStep, Joins, Leaves, GivesUp, LineNow, Line!LineNext, Line!Join, Line!Serve,
                Line!GiveUp, Line!InLine
<1> QED
  BY <1>1, <1>2, ChannelInvariant, PTL DEF Spec, Line!LineSafety
============================================================================
