------------------------- MODULE DreamSessionProofs -------------------------
(* Theorems about DreamSession, for any evidence, foci, switches and limits: *)
(* the types and counters, the session that gave up on the LLM, the limit on *)
(* repetitions, the depth ladder and the questions the LLM failed on.  What  *)
(* the operators on the question ledger return is proved first.  The channel *)
(* keeps its own invariants in Dream Mode's hands.                           *)
EXTENDS DreamSession, LlmChannelProofs, FiniteSetTheorems, WellFoundedInduction, TLAPS

Questions == [topic : Topics, depth : 0..MaxDepth, evidence : Evidence]

Entries == [question : Questions, repetition : 1..MaxRepetitions,
            action : TimeoutActions \cup {"escalate_depth"}, understood : BOOLEAN,
            guarded : BOOLEAN]

\* The one caller of the channel stands where the session does; only an
\* enabled LLM is asked or probed.
CallerInv ==
  /\ phase \in [Callers -> Phases]
  /\ waiters = <<>>
  /\ stage = "asking" => phase[Dreamer] \in {"requesting", "backoff"}
  /\ stage = "preflight" => phase[Dreamer] = "preflight"
  /\ stage \notin {"asking", "preflight"} => phase[Dreamer] = "idle"
  /\ stage \in {"asking", "preflight"} => offReason = "none"

\* The counters of the session, and the failures that end its use of the LLM.
CountersInv ==
  /\ flags \in Flags
  /\ stage \in Stages
  /\ cycle \in 1..MaxCycles
  /\ focus \in Topics \cup {NoFocus}
  /\ llmFailures \in 0..MaxLlmFailures
  /\ offReason \in OffReasons
  /\ llmFailures = MaxLlmFailures => offReason # "none"
  /\ queued \subseteq UNION {LocalOptions[e] : e \in Evidence}
  /\ evidence \in Evidence
  /\ sessions \in 1..MaxSessions

\* The count of a question grows from entry to entry: one entry at most has it.
RepetitionsGrow ==
  \A i, j \in 1..Len(entries) :
    (i < j /\ entries[i].question = entries[j].question)
      => entries[i].repetition < entries[j].repetition

\* Each of the first n of the entries es that records a failure of q is followed
\* among them by an answer to q in a session without the degradation.
Answered(es, q, n) ==
  \A i \in 1..n :
    (es[i].question = q /\ es[i].action \in TimeoutActions) =>
      \E k \in (i + 1)..n : es[k].question = q /\ es[k].understood /\ ~es[k].guarded

\* What a session with the degradation recorded as no failure had not failed.
FailuresStay ==
  \A j \in 1..Len(entries) :
    entries[j].action \notin TimeoutActions =>
      /\ entries[j].understood
      /\ entries[j].guarded => Answered(entries, entries[j].question, j - 1)

\* The rung below depth d of topic t is one of those known, or understood in
\* the first n of the entries es.
RungBelow(es, known, t, d, n) ==
  \/ [topic |-> t, depth |-> d - 1] \in known
  \/ \E j \in 1..n :
       /\ es[j].question.topic = t
       /\ es[j].question.depth = d - 1
       /\ es[j].understood

Ladder(es, known) ==
  \A i \in 1..Len(es) :
    es[i].question.depth > 0 =>
      RungBelow(es, known, es[i].question.topic, es[i].question.depth, i - 1)

LedgerInv ==
  /\ entries \in Seq(Entries)
  /\ RepetitionsGrow
  /\ Ladder(entries, archived)
  /\ FailuresStay

RungReached(es, known, q) == q.depth > 0 => RungBelow(es, known, q.topic, q.depth, Len(es))

\* The count n is larger than those in the entries of q.
NewCount(es, q, n) ==
  \A i \in 1..Len(es) : es[i].question = q => es[i].repetition < n

\* While a question is asked, only the compactor changes the ledger: what was
\* decided about it before still holds when its answer is recorded.
AskingInv ==
  stage = "asking" =>
    /\ question \in Questions
    /\ repetition \in 1..MaxRepetitions
    /\ NewCount(entries, question, repetition)
    /\ RungReached(entries, archived, question)
    /\ flags.localOnlyOnFailure => Answered(entries, question, Len(entries))

DreamInv == CallerInv /\ CountersInv /\ LedgerInv /\ AskingInv

----------------------------------------------------------------------------
(* The largest element of a bounded set *)

Less == {p \in Nat \X Nat : p[1] < p[2]}

\* The natural numbers have no infinite descent.
LEMMA LessIsWellFounded == IsWellFoundedOn(Less, Nat)
<1>1. IsWellFoundedOn(OpToRel(<, Nat), Nat)
  BY NatLessThanWellFounded
<1>2. Less \subseteq OpToRel(<, Nat)
  BY DEF OpToRel, Less
<1> QED BY <1>1, <1>2, IsWellFoundedOnSubrelation

\* Max returns what its name says, for a set of numbers that is bounded.
LEMMA MaxOfBounded ==
  ASSUME NEW n \in Nat, NEW S \in SUBSET (0..n), S # {}
  PROVE  Max(S) \in S /\ \A y \in S : Max(S) >= y
<1> DEFINE T == {n - x : x \in S}
<1>1. T \subseteq Nat
  OBVIOUS
<1>2. T # {}
  <2>1. PICK x \in S : TRUE
    OBVIOUS
  <2>2. n - x \in T
    OBVIOUS
  <2> QED BY <2>2
<1>3. PICK t \in T : \A y \in T : <<y, t>> \notin Less
  BY <1>1, <1>2, LessIsWellFounded, WFMin
<1>4. PICK x \in S : t = n - x
  BY <1>3
<1>5. \A y \in S : x >= y
  <2> TAKE y \in S
  <2>1. n - y \in T /\ n - y \in Nat /\ t \in Nat
    BY <1>1
  <2>2. ~(n - y < t)
    BY <2>1, <1>3 DEF Less
  <2> QED BY <2>1, <2>2, <1>4
<1> QED BY <1>4, <1>5 DEF Max

----------------------------------------------------------------------------
(* Reading the question ledger *)

\* LastEntry is the last of the entries of a question.
LEMMA LastEntryIsLast ==
  ASSUME entries \in Seq(Entries), NEW q, AskedBefore(q) # {}
  PROVE  \E i \in AskedBefore(q) :
           LastEntry(q) = entries[i] /\ \A j \in AskedBefore(q) : j <= i
<1> DEFINE last == CHOOSE i \in AskedBefore(q) : \A j \in AskedBefore(q) : j <= i
<1>1. Len(entries) \in Nat /\ AskedBefore(q) \in SUBSET (0..Len(entries))
  BY DEF AskedBefore
<1>2. /\ Max(AskedBefore(q)) \in AskedBefore(q)
      /\ \A j \in AskedBefore(q) : Max(AskedBefore(q)) >= j
  BY <1>1, MaxOfBounded
<1>3. \A j \in AskedBefore(q) : j <= Max(AskedBefore(q))
  BY <1>1, <1>2
<1>4. last \in AskedBefore(q) /\ \A j \in AskedBefore(q) : j <= last
  BY <1>2, <1>3
<1>5. LastEntry(q) = entries[last]
  BY DEF LastEntry
<1> QED BY <1>4, <1>5

\* The count read back from the last entry of a question is larger than that of
\* every one of them.
LEMMA RepetitionsIsNew ==
  ASSUME LedgerInv, NEW q
  PROVE  Repetitions(q) \in Nat \ {0} /\ NewCount(entries, q, Repetitions(q))
<1>1. CASE AskedBefore(q) = {}
  BY <1>1 DEF Repetitions, NewCount, AskedBefore
<1>2. CASE AskedBefore(q) # {}
  <2>1. PICK k \in AskedBefore(q) :
          LastEntry(q) = entries[k] /\ \A j \in AskedBefore(q) : j <= k
    BY <1>2, LastEntryIsLast DEF LedgerInv
  <2>2. Repetitions(q) = entries[k].repetition + 1
    BY <1>2, <2>1 DEF Repetitions
  <2>3. \A i \in 1..Len(entries) : entries[i].repetition \in Nat
    <3> TAKE i \in 1..Len(entries)
    <3>1. entries[i] \in Entries
      BY DEF LedgerInv
    <3>2. entries[i].repetition \in 1..MaxRepetitions
      BY <3>1 DEF Entries
    <3> QED BY <3>2
  <2>4. k \in 1..Len(entries) /\ entries[k].question = q
    BY <2>1 DEF AskedBefore
  <2>5. Repetitions(q) \in Nat \ {0}
    BY <2>2, <2>3, <2>4
  <2>6. ASSUME NEW i \in AskedBefore(q) PROVE entries[i].repetition < Repetitions(q)
    <3>1. i \in 1..Len(entries) /\ entries[i].question = q /\ i <= k
      BY <2>1 DEF AskedBefore
    <3>2. CASE i = k
      BY <2>2, <2>3, <2>4, <3>2
    <3>3. CASE i < k
      <4>1. entries[i].repetition < entries[k].repetition
        BY <2>4, <3>1, <3>3 DEF LedgerInv, RepetitionsGrow
      <4>2. entries[i].repetition \in Nat /\ entries[k].repetition \in Nat
        BY <2>3, <2>4, <3>1
      <4> QED BY <2>2, <4>1, <4>2
    <3> QED BY <2>4, <3>1, <3>2, <3>3
  <2> QED BY <2>5, <2>6 DEF NewCount, AskedBefore
<1> QED BY <1>1, <1>2

\* The next rung of a topic is on the ladder, and the one below is understood.
LEMMA NextRungIsReached ==
  ASSUME DreamAssumption, entries \in Seq(Entries), Ladder(entries, archived), NEW t
  PROVE  /\ NextDepth(t) \in 0..MaxDepth
         /\ NextDepth(t) > 0 => RungBelow(entries, archived, t, NextDepth(t), Len(entries))
<1> DEFINE Seen == {j \in 1..Len(entries) : entries[j].question.topic = t /\ entries[j].understood}
           understood == {entries[i].question.depth : i \in Seen}
<1>a. MaxDepth \in Nat
  BY DEF DreamAssumption
<1>b. \A i \in 1..Len(entries) : entries[i].question.depth \in 0..MaxDepth
  <2> TAKE i \in 1..Len(entries)
  <2>1. entries[i] \in Entries
    OBVIOUS
  <2> QED BY <2>1 DEF Entries, Questions
<1>1. NextDepth(t) = IF understood = {} THEN (IF 0 > MaxDepth THEN MaxDepth ELSE 0)
                     ELSE IF Max(understood) + 1 > MaxDepth THEN MaxDepth
                     ELSE Max(understood) + 1
  BY DEF NextDepth
<1>2. understood \in SUBSET (0..MaxDepth)
  BY <1>b
<1>3. \A m \in understood : \E k \in 1..Len(entries) :
        /\ entries[k].question.topic = t
        /\ entries[k].question.depth = m
        /\ entries[k].understood
  OBVIOUS
<1> HIDE DEF understood
<1>4. CASE understood = {}
  BY <1>a, <1>1, <1>4
<1>5. CASE understood # {}
  <2> DEFINE m == Max(understood)
  <2>1. m \in understood
    BY <1>2, <1>5, <1>a, MaxOfBounded
  <2>2. m \in 0..MaxDepth
    BY <1>2, <2>1
  <2>3. NextDepth(t) = IF m + 1 > MaxDepth THEN MaxDepth ELSE m + 1
    BY <1>1, <1>5
  <2>4. PICK k \in 1..Len(entries) :
          /\ entries[k].question.topic = t
          /\ entries[k].question.depth = m
          /\ entries[k].understood
    BY <1>3, <2>1
  <2> HIDE DEF m
  <2>5. CASE m < MaxDepth
    <3>1. NextDepth(t) = m + 1 /\ m = NextDepth(t) - 1
      BY <1>a, <2>2, <2>3, <2>5
    <3>2. RungBelow(entries, archived, t, NextDepth(t), Len(entries))
      BY <3>1, <2>4 DEF RungBelow
    <3> QED BY <3>1, <3>2, <2>2, <2>5, <1>a
  <2>6. CASE m = MaxDepth
    <3>1. NextDepth(t) = MaxDepth
      BY <1>a, <2>3, <2>6
    <3>2. MaxDepth > 0 => RungBelow(entries, archived, t, MaxDepth, k - 1)
      <4>1. entries[k].question.depth = MaxDepth /\ entries[k].question.topic = t
        BY <2>4, <2>6
      <4>2. entries[k].question.depth > 0 =>
              RungBelow(entries, archived, entries[k].question.topic,
                        entries[k].question.depth, k - 1)
        BY DEF Ladder
      <4> QED BY <4>1, <4>2
    <3>3. 1..(k - 1) \subseteq 1..Len(entries)
      OBVIOUS
    <3>4. MaxDepth > 0 => RungBelow(entries, archived, t, MaxDepth, Len(entries))
      BY <3>2, <3>3 DEF RungBelow
    <3> QED BY <3>1, <3>4, <1>a
  <2> QED BY <2>2, <2>5, <2>6, <1>a
<1> QED BY <1>4, <1>5

\* What a cycle is about: a question of the ladder whose rung has been reached.
LEMMA CurrentQuestionIsReached ==
  ASSUME DreamAssumption, CountersInv, LedgerInv
  PROVE  CurrentQuestion \in Questions /\ RungReached(entries, archived, CurrentQuestion)
<1> DEFINE t == IF focus = NoFocus THEN AutoTopic[evidence] ELSE focus
<1>1. CurrentQuestion = [topic |-> t, depth |-> NextDepth(t), evidence |-> evidence]
  BY DEF CurrentQuestion
<1>2. t \in Topics
  BY DEF CountersInv, Topics
<1> HIDE DEF t
<1>3. /\ NextDepth(t) \in 0..MaxDepth
      /\ NextDepth(t) > 0 => RungBelow(entries, archived, t, NextDepth(t), Len(entries))
  BY NextRungIsReached DEF LedgerInv
<1>4. CurrentQuestion \in Questions
  BY <1>1, <1>2, <1>3 DEF Questions, CountersInv
<1>5. RungReached(entries, archived, CurrentQuestion)
  BY <1>1, <1>3 DEF RungReached
<1> QED BY <1>4, <1>5

\* The failures of a question that may be asked with the degradation have been
\* answered since: its last entry is no failure, so it is an answer, and if it
\* was given with the degradation, then the failures before it had been.
LEMMA AskedIsAnswered ==
  ASSUME LedgerInv, NEW q, ~UseLocalOnly(q), flags.localOnlyOnFailure
  PROVE  Answered(entries, q, Len(entries))
<1>1. ~LastTimedOut(q)
  BY DEF UseLocalOnly
<1> SUFFICES ASSUME NEW i \in 1..Len(entries), entries[i].question = q,
                    entries[i].action \in TimeoutActions
             PROVE  \E k \in (i + 1)..Len(entries) :
                      /\ entries[k].question = q
                      /\ entries[k].understood
                      /\ ~entries[k].guarded
  BY DEF Answered
<1>2. i \in AskedBefore(q)
  BY DEF AskedBefore
<1>3. PICK k \in AskedBefore(q) :
        LastEntry(q) = entries[k] /\ \A j \in AskedBefore(q) : j <= k
  BY <1>2, LastEntryIsLast DEF LedgerInv
<1>4. k \in 1..Len(entries) /\ entries[k].question = q /\ i <= k
  BY <1>2, <1>3 DEF AskedBefore
<1>5. entries[k].action \notin TimeoutActions
  BY <1>1, <1>2, <1>3 DEF LastTimedOut
<1>6. i \in 1..(k - 1) /\ k \in (i + 1)..Len(entries)
  <2>1. i # k
    BY <1>5
  <2> QED BY <1>4, <2>1
<1>7. /\ entries[k].understood
      /\ entries[k].guarded => Answered(entries, q, k - 1)
  BY <1>4, <1>5 DEF LedgerInv, FailuresStay
<1>8. CASE entries[k].guarded
  <2>1. PICK l \in (i + 1)..(k - 1) :
          /\ entries[l].question = q
          /\ entries[l].understood
          /\ ~entries[l].guarded
    BY <1>6, <1>7, <1>8 DEF Answered
  <2>2. l \in (i + 1)..Len(entries)
    BY <1>4
  <2> QED BY <2>1, <2>2
<1>9. CASE ~entries[k].guarded
  BY <1>4, <1>6, <1>7, <1>9
<1> QED BY <1>8, <1>9

----------------------------------------------------------------------------
(* Writing the question ledger *)

\* A step that leaves the ledger alone.
LEMMA LedgerUntouched ==
  ASSUME LedgerInv, entries' = entries, archived' = archived
  PROVE  LedgerInv'
BY DEF LedgerInv, RepetitionsGrow, FailuresStay

\* An entry recorded for a question that was due keeps the ledger sound,
\* whether its append succeeds or not.
LEMMA RecordKeepsLedger ==
  ASSUME LedgerInv, NEW q \in Questions, RungReached(entries, archived, q),
         NEW n \in 1..MaxRepetitions, NewCount(entries, q, n),
         NEW action \in TimeoutActions \cup {"escalate_depth"}, NEW understood \in BOOLEAN,
         action \in TimeoutActions \/ understood, flags.localOnlyOnFailure \in BOOLEAN,
         flags.localOnlyOnFailure =>
           (action \in TimeoutActions \/ Answered(entries, q, Len(entries))),
         Record(Entry(q, n, action, understood))
  PROVE  LedgerInv'
<1> DEFINE L == Len(entries)
           e == Entry(q, n, action, understood)
<1>0. CASE entries' = entries
  BY <1>0, LedgerUntouched DEF Record
<1>1. CASE entries' = Append(entries, e)
  <2>0. archived' = archived /\ L \in Nat
    BY DEF Record, LedgerInv
  <2>1. e = [question |-> q, repetition |-> n, action |-> action, understood |-> understood,
             guarded |-> flags.localOnlyOnFailure]
    BY DEF Entry
  <2>2. e \in Entries
    BY <2>1 DEF Entries
  <2>3. /\ Len(entries') = L + 1
        /\ entries'[L + 1] = e
        /\ \A i \in 1..L : entries'[i] = entries[i]
        /\ entries' \in Seq(Entries)
    BY <1>1, <2>2 DEF LedgerInv
  <2> HIDE DEF e
  <2>4. RepetitionsGrow'
    <3> SUFFICES ASSUME NEW i \in 1..(L + 1), NEW j \in 1..(L + 1), i < j,
                        entries'[i].question = entries'[j].question
                 PROVE  entries'[i].repetition < entries'[j].repetition
      BY <2>3 DEF RepetitionsGrow
    <3>1. i \in 1..L /\ (j \in 1..L \/ j = L + 1)
      BY <2>0
    <3>2. CASE j \in 1..L
      BY <2>3, <3>1, <3>2 DEF LedgerInv, RepetitionsGrow
    <3>3. CASE j = L + 1
      <4>1. entries'[j].question = q /\ entries'[j].repetition = n
        BY <2>1, <2>3, <3>3
      <4>2. i \in AskedBefore(q)
        BY <2>3, <3>1, <4>1 DEF AskedBefore
      <4> QED BY <2>3, <3>1, <4>1, <4>2 DEF NewCount
    <3> QED BY <3>1, <3>2, <3>3
  <2>5. Ladder(entries', archived')
    <3> SUFFICES ASSUME NEW i \in 1..(L + 1), entries'[i].question.depth > 0
                 PROVE  RungBelow(entries', archived', entries'[i].question.topic,
                                  entries'[i].question.depth, i - 1)
      BY <2>3 DEF Ladder
    <3>1. CASE i \in 1..L
      <4>1. RungBelow(entries, archived, entries[i].question.topic, entries[i].question.depth,
                      i - 1)
        BY <2>3, <3>1 DEF LedgerInv, Ladder
      <4>2. 1..(i - 1) \subseteq 1..L
        BY <2>0, <3>1
      <4> QED BY <2>0, <2>3, <3>1, <4>1, <4>2 DEF RungBelow
    <3>2. CASE i = L + 1
      <4>1. entries'[i].question = q
        BY <2>1, <2>3, <3>2
      <4>2. RungBelow(entries, archived, q.topic, q.depth, L)
        BY <4>1 DEF RungReached
      <4>3. i - 1 = L
        BY <2>0, <3>2
      <4> QED BY <2>0, <2>3, <4>1, <4>2, <4>3 DEF RungBelow
    <3> QED BY <2>0, <3>1, <3>2
  <2>6. FailuresStay'
    <3> SUFFICES ASSUME NEW j \in 1..(L + 1), entries'[j].action \notin TimeoutActions
                 PROVE  /\ entries'[j].understood
                        /\ entries'[j].guarded => Answered(entries', entries'[j].question, j - 1)
      BY <2>3 DEF FailuresStay, Answered
    <3>1. CASE j \in 1..L
      <4>1. /\ entries[j].understood
            /\ entries[j].guarded => Answered(entries, entries[j].question, j - 1)
        BY <2>3, <3>1 DEF LedgerInv, FailuresStay
      <4>2. 1..(j - 1) \subseteq 1..L
        BY <2>0, <3>1
      <4>3. Answered(entries, entries[j].question, j - 1) =>
        Answered(entries', entries[j].question, j - 1)
        BY <2>3, <3>1, <4>2 DEF Answered
      <4> QED BY <2>3, <3>1, <4>1, <4>3 DEF Answered
    <3>2. CASE j = L + 1
      <4>1. /\ entries'[j].question = q /\ entries'[j].action = action
            /\ entries'[j].understood = understood
            /\ entries'[j].guarded = flags.localOnlyOnFailure
        BY <2>1, <2>3, <3>2
      <4>2. flags.localOnlyOnFailure => Answered(entries, q, L)
        BY <4>1
      <4>3. j - 1 = L
        BY <2>0, <3>2
      <4> QED BY <2>3, <4>1, <4>2, <4>3 DEF Answered
    <3> QED BY <2>0, <3>1, <3>2
  <2> QED BY <2>3, <2>4, <2>5, <2>6 DEF LedgerInv
<1> QED BY <1>0, <1>1 DEF Record

\* Archiving the oldest entries keeps the ledger sound, and what was decided
\* about a question that is being asked.
LEMMA CompactionKeepsLedger ==
  ASSUME DreamAssumption, LedgerInv, CompactLedgers
  PROVE  /\ LedgerInv'
         /\ \A q \in Questions : RungReached(entries, archived, q) =>
                     RungReached(entries', archived', q)
         /\ \A q \in Questions : Answered(entries, q, Len(entries)) =>
                     Answered(entries', q, Len(entries'))
         /\ \A q \in Questions, n \in Nat : NewCount(entries, q, n) => NewCount(entries', q, n)
<1>0. CASE entries' = entries /\ archived' = archived
  BY <1>0, LedgerUntouched DEF RungReached, RungBelow, Answered, NewCount, AskedBefore
<1>1. CASE Len(entries) > KeepRecent
  <2> DEFINE old == Len(entries) - KeepRecent
             L == Len(entries)
  <2>1. L \in Nat /\ KeepRecent \in Nat /\ old \in Nat /\ old <= L /\ L = old + KeepRecent
    BY <1>1 DEF DreamAssumption, LedgerInv
  <2>2. /\ entries' = SubSeq(entries, old + 1, L)
        /\ archived' = archived \cup
             {Rung(entries[i].question) : i \in {j \in 1..old : entries[j].understood}}
    BY <1>1 DEF CompactLedgers
  <2> HIDE DEF old
  <2>3. /\ entries' \in Seq(Entries)
        /\ Len(entries') = KeepRecent
        /\ \A i \in 1..KeepRecent : entries'[i] = entries[i + old]
    BY <2>1, <2>2 DEF LedgerInv
  <2>4. \A i \in 1..KeepRecent : i + old \in 1..L
    BY <2>1
  <2>5. RepetitionsGrow'
    <3> SUFFICES ASSUME NEW i \in 1..KeepRecent, NEW j \in 1..KeepRecent, i < j,
                        entries'[i].question = entries'[j].question
                 PROVE  entries'[i].repetition < entries'[j].repetition
      BY <2>3 DEF RepetitionsGrow
    <3>1. i + old \in 1..L /\ j + old \in 1..L /\ i + old < j + old
      BY <2>1
    <3> QED BY <2>3, <3>1 DEF LedgerInv, RepetitionsGrow
  <2>6. ASSUME NEW t, NEW d, NEW m \in 0..KeepRecent, RungBelow(entries, archived, t, d, m + old)
        PROVE  RungBelow(entries', archived', t, d, m)
    <3>1. CASE [topic |-> t, depth |-> d - 1] \in archived
      BY <2>2, <3>1 DEF RungBelow
    <3>2. ASSUME NEW k \in 1..(m + old), entries[k].question.topic = t,
                 entries[k].question.depth = d - 1, entries[k].understood
          PROVE  RungBelow(entries', archived', t, d, m)
      <4>1. CASE k \in 1..old
        <5>1. Rung(entries[k].question) \in archived'
          BY <2>2, <3>2, <4>1
        <5>2. Rung(entries[k].question) = [topic |-> t, depth |-> d - 1]
          BY <3>2 DEF Rung
        <5> QED BY <5>1, <5>2 DEF RungBelow
      <4>2. CASE k \notin 1..old
        <5>1. k - old \in 1..m /\ k - old \in 1..KeepRecent /\ (k - old) + old = k
          BY <2>1, <4>2
        <5>2. entries'[k - old] = entries[k]
          BY <2>3, <5>1
        <5> QED BY <3>2, <5>1, <5>2 DEF RungBelow
      <4> QED BY <4>1, <4>2
    <3> QED BY <2>6, <3>1, <3>2 DEF RungBelow
  <2>7. Ladder(entries', archived')
    <3> SUFFICES ASSUME NEW i \in 1..KeepRecent, entries'[i].question.depth > 0
                 PROVE  RungBelow(entries', archived', entries'[i].question.topic,
                                  entries'[i].question.depth, i - 1)
      BY <2>3 DEF Ladder
    <3> DEFINE b == entries[i + old].question
    <3>1. entries'[i].question = b
      BY <2>3
    <3>2. RungBelow(entries, archived, b.topic, b.depth, (i + old) - 1)
      BY <2>4, <3>1 DEF LedgerInv, Ladder
    <3>3. (i + old) - 1 = (i - 1) + old /\ i - 1 \in 0..KeepRecent
      BY <2>1
    <3> HIDE DEF b
    <3>4. RungBelow(entries, archived, b.topic, b.depth, (i - 1) + old)
      BY <3>2, <3>3
    <3>5. \A t, d : RungBelow(entries, archived, t, d, (i - 1) + old) =>
                RungBelow(entries', archived', t, d, i - 1)
      BY <2>6, <3>3
    <3> QED BY <3>1, <3>4, <3>5 DEF RungBelow
  <2>8. ASSUME NEW q, NEW m \in 0..KeepRecent, Answered(entries, q, m + old)
        PROVE  Answered(entries', q, m)
    <3> SUFFICES ASSUME NEW i \in 1..m, entries'[i].question = q,
                        entries'[i].action \in TimeoutActions
                 PROVE  \E k \in (i + 1)..m : /\ entries'[k].question = q
                                             /\ entries'[k].understood
                                             /\ ~entries'[k].guarded
      BY DEF Answered
    <3>1. i \in 1..KeepRecent /\ i + old \in 1..(m + old)
      BY <2>1
    <3>2. PICK k \in ((i + old) + 1)..(m + old) : /\ entries[k].question = q
                                                /\ entries[k].understood
                                                /\ ~entries[k].guarded
      BY <2>3, <2>8, <3>1 DEF Answered
    <3>a. i \in Nat /\ m \in Nat /\ 1 <= i /\ i <= m /\ m <= KeepRecent
      BY <2>1
    <3>b. k \in Nat /\ (i + old) + 1 <= k /\ k <= m + old
      <4>1. (i + old) + 1 \in Int /\ m + old \in Int
        BY <2>1, <3>a
      <4>2. k \in ((i + old) + 1)..(m + old)
        BY <3>2
      <4>3. k \in Int /\ (i + old) + 1 <= k /\ k <= m + old
        BY <4>1, <4>2
      <4> QED BY <2>1, <3>a, <4>3
    <3>3. /\ k - old \in (i + 1)..m /\ k - old \in 1..KeepRecent
          /\ (k - old) + old = k
      BY <2>1, <3>a, <3>b
    <3>4. entries'[k - old] = entries[k]
      BY <2>3, <3>3
    <3> QED BY <3>2, <3>3, <3>4
  <2>9. FailuresStay'
    <3> SUFFICES ASSUME NEW j \in 1..KeepRecent, entries'[j].action \notin TimeoutActions
                 PROVE  /\ entries'[j].understood
                        /\ entries'[j].guarded => Answered(entries', entries'[j].question, j - 1)
      BY <2>3 DEF FailuresStay, Answered
    <3> DEFINE b == entries[j + old]
    <3>1. entries'[j] = b /\ j + old \in 1..L
      BY <2>3, <2>4
    <3>2. b.understood /\ (b.guarded => Answered(entries, b.question, (j + old) - 1))
      BY <3>1 DEF LedgerInv, FailuresStay
    <3>3. (j + old) - 1 = (j - 1) + old /\ j - 1 \in 0..KeepRecent
      BY <2>1
    <3> HIDE DEF b
    <3>4. b.guarded => Answered(entries, b.question, (j - 1) + old)
      BY <3>2, <3>3
    <3>5. \A q : Answered(entries, q, (j - 1) + old) => Answered(entries', q, j - 1)
      BY <2>8, <3>3
    <3> QED BY <3>1, <3>2, <3>4, <3>5 DEF Answered
  <2>10. LedgerInv'
    BY <2>3, <2>5, <2>7, <2>9 DEF LedgerInv
  <2>11. KeepRecent \in 0..KeepRecent /\ KeepRecent + old = L
    BY <2>1
  <2>12. ASSUME NEW q \in Questions, RungReached(entries, archived, q)
        PROVE  RungReached(entries', archived', q)
    <3>1. \A t, d : RungBelow(entries, archived, t, d, L) =>
                RungBelow(entries', archived', t, d, KeepRecent)
      BY <2>6, <2>11
    <3> QED BY <2>3, <2>12, <3>1 DEF RungReached, RungBelow
  <2>13. ASSUME NEW q \in Questions, Answered(entries, q, L)
        PROVE  Answered(entries', q, Len(entries'))
    <3>1. Answered(entries', q, KeepRecent)
      BY <2>8, <2>11, <2>13
    <3> QED BY <2>3, <3>1 DEF Answered
  <2>14. ASSUME NEW q \in Questions, NEW n \in Nat, NewCount(entries, q, n)
        PROVE  NewCount(entries', q, n)
    <3> SUFFICES ASSUME NEW i \in 1..KeepRecent, entries'[i].question = q
                 PROVE  entries'[i].repetition < n
      BY <2>3 DEF NewCount, AskedBefore
    <3>1. i + old \in 1..L /\ entries[i + old].question = q
      BY <2>3, <2>4
    <3> QED BY <2>3, <2>14, <3>1 DEF NewCount
  <2> QED BY <2>10, <2>12, <2>13, <2>14
<1> QED BY <1>0, <1>1 DEF CompactLedgers, DreamAssumption, LedgerInv

\* The queue of options only takes options of the evidence.
LEMMA ReflectionKeepsQueue ==
  ASSUME CountersInv, NEW e \in Evidence, LocalReflection(e)
  PROVE  queued' \subseteq UNION {LocalOptions[d] : d \in Evidence}
BY DEF CountersInv, LocalReflection, NewOptions

\* The remainder of a division is below its divisor.
LEMMA ModIsBelow ==
  ASSUME NEW m \in Nat, NEW n \in Nat, n > 0
  PROVE  m % n \in 0..(n - 1)
OBVIOUS

\* A cycle ends in a state a cycle can end in, with a focus of the ring.
LEMMA EndCycleKeepsCounters ==
  ASSUME DreamAssumption, CountersInv, NEW action, NEW timedOut \in BOOLEAN,
         EndCycle(action, timedOut)
  PROVE  /\ stage' \in {"cycle", "sleeping", "ended"}
         /\ cycle' \in 1..MaxCycles
         /\ focus' \in Topics \cup {NoFocus}
<1>1. NextFocus(focus) \in Topics
  <2> DEFINE at == {i \in 1..Len(FocusRing) : FocusRing[i] = focus}
             len == Len(FocusRing)
  <2>1. /\ len \in Nat /\ len > 0
        /\ \A i \in 1..len : FocusRing[i] \in Topics
    BY DEF DreamAssumption, Topics, ToSet
  <2>2. CASE at = {}
    <3>1. NextFocus(focus) = FocusRing[1]
      BY <2>2 DEF NextFocus
    <3> QED BY <3>1, <2>1
  <2>3. CASE at # {}
    <3>1. at \in SUBSET (0..len)
      OBVIOUS
    <3>2. Max(at) \in at
      <4> HIDE DEF at, len
      <4> QED BY <3>1, <2>1, <2>3, MaxOfBounded
    <3>3. Max(at) \in 1..len /\ (Max(at) % len) + 1 \in 1..len
      <4>1. Max(at) \in Nat
        BY <3>1, <3>2
      <4>2. Max(at) \in 1..len
        BY <3>2
      <4>3. Max(at) % len \in 0..(len - 1)
        BY <4>1, <2>1, ModIsBelow
      <4> HIDE DEF at, len
      <4> QED BY <4>2, <4>3, <2>1
    <3>4. NextFocus(focus) = FocusRing[(Max(at) % len) + 1]
      BY <2>3 DEF NextFocus
    <3> QED BY <3>3, <3>4, <2>1
  <2> QED BY <2>2, <2>3
<1>2. focus' \in Topics \cup {NoFocus}
  BY <1>1 DEF EndCycle, CountersInv
<1>3. stage' \in {"cycle", "sleeping", "ended"}
  BY DEF EndCycle
<1>4. cycle' \in 1..MaxCycles
  <2>1. MaxCycles \in Nat /\ cycle \in 1..MaxCycles
    BY DEF DreamAssumption, CountersInv
  <2>2. cycle' = cycle \/ (cycle # MaxCycles /\ cycle' = cycle + 1)
    BY DEF EndCycle
  <2> QED BY <2>1, <2>2
<1> QED BY <1>2, <1>3, <1>4

----------------------------------------------------------------------------
(* The steps *)

\* The query of the one caller ends: it is idle, and nobody was waiting.
LEMMA AnswerFreesCaller ==
  ASSUME DreamAssumption, CallerInv, Succeed(Dreamer) \/ Fail(Dreamer)
  PROVE  /\ phase' \in [Callers -> Phases]
         /\ phase'[Dreamer] = "idle"
         /\ waiters' = <<>>
<1>1. ReleasePermit(Dreamer)
  BY DEF Succeed, Fail
<1>2. waiters = <<>> /\ phase \in [Callers -> Phases] /\ Dreamer \in Callers
  BY DEF CallerInv, DreamAssumption
<1> QED BY <1>1, <1>2 DEF ReleasePermit, Phases

\* However a query failed, the failure is counted, the session gives up at the
\* limit, and the ledger records the question.
LEMMA FailureIsHandled ==
  ASSUME DreamAssumption, CountersInv, LedgerInv, offReason = "none",
         NEW q \in Questions, RungReached(entries, archived, q),
         NEW n \in 1..MaxRepetitions, NewCount(entries, q, n),
         NEW refused \in BOOLEAN, NEW timedOut \in BOOLEAN,
         HandleFailure(q, n, refused, timedOut), UNCHANGED worldVars
  PROVE  CountersInv' /\ LedgerInv' /\ stage' \in {"cycle", "sleeping", "ended"}
<1>1. flags' = flags /\ evidence' = evidence /\ sessions' = sessions
  BY DEF worldVars
<1>2. MaxLlmFailures \in Nat /\ llmFailures \in 0..MaxLlmFailures /\ llmFailures # MaxLlmFailures
  BY DEF DreamAssumption, CountersInv
<1>3. /\ llmFailures' = llmFailures + 1
      /\ offReason' = OffReasonAfter(llmFailures + 1, refused)
  BY DEF HandleFailure
<1>4. llmFailures' \in 0..MaxLlmFailures /\ offReason' \in OffReasons
  BY <1>2, <1>3 DEF OffReasonAfter, OffReasons
<1>5. llmFailures' = MaxLlmFailures => offReason' # "none"
  BY <1>2, <1>3 DEF OffReasonAfter
<1>6. PICK action : EndCycle(action, timedOut)
  BY DEF HandleFailure
<1>7. /\ stage' \in {"cycle", "sleeping", "ended"}
      /\ cycle' \in 1..MaxCycles
      /\ focus' \in Topics \cup {NoFocus}
  BY <1>6, EndCycleKeepsCounters
<1>8. queued' \subseteq UNION {LocalOptions[e] : e \in Evidence}
  <2>1. CASE flags.localOnlyOnFailure
    <3>1. q.evidence \in Evidence
      BY DEF Questions
    <3> QED BY <2>1, <3>1, ReflectionKeepsQueue DEF HandleFailure
  <2>2. CASE ~flags.localOnlyOnFailure
    BY <2>2 DEF HandleFailure, CountersInv
  <2> QED BY <2>1, <2>2
<1>9. CountersInv'
  BY <1>1, <1>4, <1>5, <1>7, <1>8 DEF CountersInv, Stages
<1>10. PICK recorded \in TimeoutActions : Record(Entry(q, n, recorded, FALSE))
  BY DEF HandleFailure, TimeoutActions
<1>11. LedgerInv'
  BY <1>10, RecordKeepsLedger DEF CountersInv, Flags
<1> QED BY <1>7, <1>9, <1>11

\* A session begins, and wakes up for its next cycle.
LEMMA BetweenCyclesKeeps ==
  ASSUME DreamAssumption, DreamInv, StartSession \/ EndPreflight \/ StopOnStress \/ Wake
  PROVE  DreamInv'
<1>0. /\ phase \in [Callers -> Phases] /\ waiters = <<>> /\ Dreamer \in Callers
      /\ entries' = entries /\ archived' = archived /\ queued' = queued
      /\ flags' = flags /\ evidence' = evidence /\ sessions' = sessions
  BY DEF DreamInv, CallerInv, DreamAssumption, StartSession, EndPreflight, StopOnStress, Wake,
         fileVars, worldVars
<1>1. LedgerInv'
  BY <1>0, LedgerUntouched DEF DreamInv
<1>2. stage' # "asking"
  BY DEF StartSession, EndPreflight, StopOnStress, Wake
<1>3. AskingInv'
  BY <1>2 DEF AskingInv
<1>4. CASE StartSession
  <2>1. CountersInv'
    BY <1>0, <1>4 DEF DreamInv, CountersInv, StartSession, Topics, Stages
  <2>2. phase[Dreamer] = "idle" /\ offReason' = offReason
    BY <1>4 DEF DreamInv, CallerInv, StartSession
  <2>3. \/ phase' = phase /\ waiters' = waiters /\ stage' = "cycle"
        \/ /\ phase' = [phase EXCEPT ![Dreamer] = "preflight"] /\ waiters' = waiters
           /\ stage' = "preflight" /\ offReason = "none"
    BY <1>4 DEF StartSession, PreflightSkip, PreflightSend, vars, semVars, LlmEnabled
  <2>4. CASE phase' = phase /\ waiters' = waiters /\ stage' = "cycle"
    <3>1. CallerInv'
      BY <1>0, <2>2, <2>4 DEF CallerInv
    <3> QED BY <1>1, <1>3, <2>1, <3>1 DEF DreamInv
  <2>5. CASE /\ phase' = [phase EXCEPT ![Dreamer] = "preflight"] /\ waiters' = waiters
             /\ stage' = "preflight" /\ offReason = "none"
    <3>1. CallerInv'
      BY <1>0, <2>2, <2>5 DEF CallerInv, Phases
    <3> QED BY <1>1, <1>3, <2>1, <3>1 DEF DreamInv
  <2> QED BY <2>3, <2>4, <2>5
<1>5. CASE EndPreflight
  <2>1. phase' = [phase EXCEPT ![Dreamer] = "idle"] /\ waiters' = waiters
    BY <1>5 DEF EndPreflight, PreflightEnd, semVars
  <2>2. CallerInv'
    BY <1>0, <1>5, <2>1 DEF CallerInv, EndPreflight, Phases
  <2>3. MaxLlmFailures \in Nat
    BY DEF DreamAssumption
  <2>4. CountersInv'
    BY <1>0, <1>5, <2>3 DEF DreamInv, CountersInv, EndPreflight, Stages, OffReasons
  <2> QED BY <1>1, <1>3, <2>2, <2>4 DEF DreamInv
<1>6. CASE StopOnStress
  <2>1. CallerInv'
    BY <1>6 DEF DreamInv, CallerInv, StopOnStress, vars
  <2>2. CountersInv'
    BY <1>0, <1>6 DEF DreamInv, CountersInv, StopOnStress, Stages
  <2> QED BY <1>1, <1>3, <2>1, <2>2 DEF DreamInv
<1>7. CASE Wake
  <2>1. CallerInv'
    BY <1>7 DEF DreamInv, CallerInv, Wake, vars
  <2>2. CountersInv'
    BY <1>0, <1>7 DEF DreamInv, CountersInv, Wake, Stages
  <2> QED BY <1>1, <1>3, <2>1, <2>2 DEF DreamInv
<1> QED BY <1>4, <1>5, <1>6, <1>7

\* A cycle is suppressed, spent on the ledgers alone, refused by the gate, or
\* begins to ask.
LEMMA CycleKeeps ==
  ASSUME DreamAssumption, DreamInv, Cycle, UNCHANGED worldVars
  PROVE  DreamInv'
<1> DEFINE q == CurrentQuestion
<1>0. /\ phase \in [Callers -> Phases] /\ waiters = <<>> /\ Dreamer \in Callers
      /\ phase[Dreamer] = "idle"
      /\ flags' = flags /\ evidence' = evidence /\ sessions' = sessions
  BY DEF DreamInv, CallerInv, DreamAssumption, worldVars, Cycle, SuppressCycle, LocalCycle,
         AskRefused, AskAdmitted, AskLlm
<1>1. q \in Questions /\ RungReached(entries, archived, q)
  BY CurrentQuestionIsReached DEF DreamInv
<1> HIDE DEF q
<1>a. Repetitions(q) \in Nat \ {0} /\ NewCount(entries, q, Repetitions(q))
  BY RepetitionsIsNew DEF DreamInv
<1>b. Repetitions(q) <= flags.maxRepetitions => Repetitions(q) \in 1..MaxRepetitions
  <2>1. flags.maxRepetitions \in 1..MaxRepetitions /\ MaxRepetitions \in Nat
    BY DEF DreamInv, CountersInv, Flags, DreamAssumption
  <2> QED BY <2>1, <1>a
<1>2. CASE SuppressCycle
  <2>1. /\ stage' \in {"cycle", "sleeping", "ended"}
        /\ cycle' \in 1..MaxCycles
        /\ focus' \in Topics \cup {NoFocus}
    BY <1>2, EndCycleKeepsCounters DEF DreamInv, SuppressCycle
  <2>2. /\ phase' = phase /\ waiters' = waiters /\ queued' = queued
        /\ entries' = entries /\ archived' = archived
        /\ llmFailures' = llmFailures /\ offReason' = offReason
    BY <1>2 DEF SuppressCycle, vars, fileVars
  <2>3. CallerInv' /\ AskingInv'
    BY <1>0, <2>1, <2>2 DEF CallerInv, AskingInv
  <2>4. CountersInv'
    BY <1>0, <2>1, <2>2 DEF DreamInv, CountersInv, Stages
  <2> QED BY <1>0, <2>2, <2>3, <2>4, LedgerUntouched DEF DreamInv
<1>3. CASE LocalCycle
  <2>1. PICK action : EndCycle(action, FALSE)
    BY <1>3 DEF LocalCycle
  <2>2. /\ stage' \in {"cycle", "sleeping", "ended"}
        /\ cycle' \in 1..MaxCycles
        /\ focus' \in Topics \cup {NoFocus}
    BY <2>1, EndCycleKeepsCounters DEF DreamInv
  <2>3. phase' = phase /\ waiters' = waiters /\ llmFailures' = llmFailures /\ offReason' = offReason
    BY <1>3 DEF LocalCycle, vars
  <2>4. CallerInv' /\ AskingInv'
    BY <1>0, <2>2, <2>3 DEF CallerInv, AskingInv
  <2>5. queued' \subseteq UNION {LocalOptions[e] : e \in Evidence}
    BY <1>3, ReflectionKeepsQueue DEF DreamInv, CountersInv, LocalCycle
  <2>6. CountersInv'
    BY <1>0, <2>2, <2>3, <2>5 DEF DreamInv, CountersInv, Stages
  <2>7. Repetitions(q) \in 1..MaxRepetitions
    BY <1>3, <1>b DEF LocalCycle, q
  <2>8. \/ entries' = entries /\ archived' = archived
        \/ \E recorded \in TimeoutActions : Record(Entry(q, Repetitions(q), recorded, FALSE))
    BY <1>3 DEF LocalCycle, TimeoutActions, q
  <2>9. LedgerInv'
    <3>1. CASE entries' = entries /\ archived' = archived
      BY <3>1, LedgerUntouched DEF DreamInv
    <3>2. ASSUME NEW recorded \in TimeoutActions,
                 Record(Entry(q, Repetitions(q), recorded, FALSE))
          PROVE  LedgerInv'
      BY <1>1, <1>a, <2>7, <3>2, RecordKeepsLedger DEF DreamInv, CountersInv, Flags
    <3> QED BY <2>8, <3>1, <3>2
  <2> QED BY <2>4, <2>6, <2>9 DEF DreamInv
<1>4. CASE AskRefused
  <2>1. Repetitions(q) \in 1..MaxRepetitions /\ offReason = "none"
    BY <1>4, <1>b DEF AskRefused, AskLlm, UseLocalOnly, LlmEnabled, q
  <2>2. PICK refused \in BOOLEAN : HandleFailure(q, Repetitions(q), refused, FALSE)
    BY <1>4 DEF AskRefused, q
  <2>3. CountersInv' /\ LedgerInv' /\ stage' \in {"cycle", "sleeping", "ended"}
    BY <1>1, <1>a, <2>1, <2>2, FailureIsHandled DEF DreamInv
  <2>4. phase' = phase /\ waiters' = waiters
    BY <1>4 DEF AskRefused, Deny, semVars
  <2>5. CallerInv' /\ AskingInv'
    BY <1>0, <2>3, <2>4 DEF CallerInv, AskingInv
  <2> QED BY <2>3, <2>5 DEF DreamInv
<1>5. CASE AskAdmitted
  <2>1. Repetitions(q) \in 1..MaxRepetitions /\ offReason = "none" /\ ~UseLocalOnly(q)
    BY <1>5, <1>b DEF AskAdmitted, AskLlm, UseLocalOnly, LlmEnabled, q
  <2>2. /\ question' = q /\ repetition' = Repetitions(q) /\ stage' = "asking"
        /\ cycle' = cycle /\ focus' = focus /\ llmFailures' = llmFailures
        /\ offReason' = offReason /\ queued' = queued
        /\ entries' = entries /\ archived' = archived
    BY <1>5 DEF AskAdmitted, fileVars, q
  <2>3. phase' = [phase EXCEPT ![Dreamer] = "requesting"] /\ waiters' = waiters
    BY <1>5 DEF AskAdmitted, AdmitNow
  <2>4. CallerInv'
    BY <1>0, <2>1, <2>2, <2>3 DEF CallerInv, Phases
  <2>5. CountersInv'
    BY <1>0, <2>2 DEF DreamInv, CountersInv, Stages
  <2>6. flags.localOnlyOnFailure => Answered(entries, q, Len(entries))
    BY <2>1, AskedIsAnswered DEF DreamInv
  <2>7. /\ NewCount(entries, q, Repetitions(q)) => NewCount(entries', question', repetition')
        /\ RungReached(entries, archived, q) => RungReached(entries', archived', question')
        /\ Answered(entries, q, Len(entries)) => Answered(entries', question', Len(entries'))
    BY <2>2 DEF NewCount, AskedBefore, RungReached, RungBelow, Answered
  <2>8. AskingInv'
    BY <1>0, <1>1, <1>a, <2>1, <2>2, <2>6, <2>7 DEF AskingInv
  <2> QED BY <1>0, <2>2, <2>4, <2>5, <2>8, LedgerUntouched DEF DreamInv
<1> QED BY <1>2, <1>3, <1>4, <1>5 DEF Cycle

\* The answer comes, or is asked for again.
LEMMA AnswerKeeps ==
  ASSUME DreamAssumption, DreamInv, AwaitAnswer \/ Reflect
  PROVE  DreamInv'
<1>0. /\ stage = "asking" /\ offReason = "none"
      /\ phase \in [Callers -> Phases] /\ waiters = <<>> /\ Dreamer \in Callers
      /\ flags' = flags /\ evidence' = evidence /\ sessions' = sessions
  BY DEF DreamInv, CallerInv, DreamAssumption, AwaitAnswer, Reflect, worldVars
<1>1. /\ question \in Questions
      /\ repetition \in 1..MaxRepetitions
      /\ NewCount(entries, question, repetition)
      /\ RungReached(entries, archived, question)
      /\ flags.localOnlyOnFailure => Answered(entries, question, Len(entries))
  BY <1>0 DEF DreamInv, AskingInv
<1>2. CASE AwaitAnswer
  <2>1. /\ UNCHANGED <<stage, cycle, focus, llmFailures, offReason, question, repetition>>
        /\ UNCHANGED <<entries, archived, queued>>
    BY <1>2 DEF AwaitAnswer, sessionVars, fileVars
  <2>2. /\ waiters' = waiters
        /\ \/ phase' = [phase EXCEPT ![Dreamer] = "backoff"]
           \/ phase' = [phase EXCEPT ![Dreamer] = "requesting"]
    BY <1>2 DEF AwaitAnswer, BackOff, Retry, semVars
  <2>3. CallerInv'
    BY <1>0, <2>1, <2>2 DEF CallerInv, Phases
  <2>4. CountersInv'
    BY <1>0, <2>1 DEF DreamInv, CountersInv
  <2>5. AskingInv'
    BY <1>0, <2>1 DEF DreamInv, AskingInv, NewCount, AskedBefore, RungReached, RungBelow,
                      Answered
  <2> QED BY <1>0, <2>1, <2>3, <2>4, <2>5, LedgerUntouched DEF DreamInv
<1>3. CASE Reflect
  <2>0. UNCHANGED worldVars
    BY <1>3 DEF Reflect
  <2>1. phase' \in [Callers -> Phases] /\ phase'[Dreamer] = "idle" /\ waiters' = <<>>
    BY <1>3, AnswerFreesCaller
       DEF DreamInv, Reflect, Understand, LearnNothing, Misparse, QueryFails
  <2>2. SUFFICES CountersInv' /\ LedgerInv' /\ stage' \in {"cycle", "sleeping", "ended"}
    BY <2>1, <2>2 DEF DreamInv, CallerInv, AskingInv
  <2>3. CASE Understand
    <3>1. /\ stage' \in {"cycle", "sleeping", "ended"}
          /\ cycle' \in 1..MaxCycles
          /\ focus' \in Topics \cup {NoFocus}
      <4>1. CASE EndCycle("escalate_depth", FALSE)
        BY <4>1, EndCycleKeepsCounters DEF DreamInv
      <4>2. CASE stage' = "ended" /\ UNCHANGED <<cycle, focus>>
        BY <4>2 DEF DreamInv, CountersInv
      <4> QED BY <2>3, <4>1, <4>2 DEF Understand
    <3>2. /\ llmFailures' = llmFailures /\ offReason' = offReason /\ queued' = queued
          /\ Record(Entry(question, repetition, "escalate_depth", TRUE))
      BY <2>3 DEF Understand
    <3>3. CountersInv'
      BY <1>0, <3>1, <3>2 DEF DreamInv, CountersInv, Stages
    <3>4. LedgerInv'
      BY <1>1, <3>2, RecordKeepsLedger DEF DreamInv, CountersInv, Flags
    <3> QED BY <3>1, <3>3, <3>4
  <2>4. CASE LearnNothing
    <3>1. /\ stage' \in {"cycle", "sleeping", "ended"}
          /\ cycle' \in 1..MaxCycles
          /\ focus' \in Topics \cup {NoFocus}
      BY <2>4, EndCycleKeepsCounters DEF DreamInv, LearnNothing
    <3>2. UNCHANGED <<llmFailures, offReason, entries, archived, queued>>
      BY <2>4 DEF LearnNothing, fileVars
    <3>3. CountersInv'
      BY <1>0, <3>1, <3>2 DEF DreamInv, CountersInv, Stages
    <3> QED BY <1>0, <3>1, <3>2, <3>3, LedgerUntouched DEF DreamInv
  <2>5. CASE Misparse \/ QueryFails
    <3>1. PICK timedOut \in BOOLEAN : HandleFailure(question, repetition, FALSE, timedOut)
      BY <2>5 DEF Misparse, QueryFails
    <3> QED BY <1>0, <1>1, <2>0, <3>1, FailureIsHandled DEF DreamInv
  <2> QED BY <1>3, <2>3, <2>4, <2>5 DEF Reflect
<1> QED BY <1>2, <1>3

\* The process starts again, the ledgers are compacted, or something else
\* happens in the world.
LEMMA WorldKeeps ==
  ASSUME DreamAssumption, DreamInv,
         Restart \/ NewEvidence \/ CompactLedgers \/ World \/ UNCHANGED dreamVars
  PROVE  DreamInv'
<1>1. CASE Restart
  <2>1. /\ phase' = [q \in Callers |-> "idle"] /\ waiters' = <<>>
        /\ stage' = "off" /\ cycle' = 1 /\ focus' = NoFocus /\ llmFailures' = 0
        /\ offReason' = "none" /\ sessions' = sessions + 1 /\ sessions < MaxSessions
        /\ entries' = entries /\ archived' = archived /\ queued' = queued
        /\ flags' \in FlagChoices /\ evidence' = evidence
    BY <1>1 DEF Restart, fileVars
  <2>2. Dreamer \in Callers /\ {MaxCycles, MaxLlmFailures, MaxSessions} \subseteq Nat \ {0}
    BY DEF DreamAssumption
  <2>3. CallerInv' /\ AskingInv'
    BY <2>1, <2>2 DEF CallerInv, AskingInv, Phases
  <2>4. /\ sessions' \in 1..MaxSessions /\ cycle' \in 1..MaxCycles
        /\ llmFailures' \in 0..MaxLlmFailures
    BY <2>1, <2>2 DEF DreamInv, CountersInv
  <2>5. llmFailures' # MaxLlmFailures
    BY <2>1, <2>2
  <2>6. flags' \in Flags
    BY <2>1 DEF DreamAssumption
  <2>7. CountersInv'
    BY <2>1, <2>4, <2>5, <2>6 DEF DreamInv, CountersInv, Stages, OffReasons
  <2> QED BY <2>1, <2>3, <2>7, LedgerUntouched DEF DreamInv
<1>2. CASE NewEvidence \/ World \/ UNCHANGED dreamVars
  <2>1. /\ UNCHANGED <<stage, cycle, focus, llmFailures, offReason, question, repetition>>
        /\ UNCHANGED <<entries, archived, queued, flags, sessions>>
        /\ evidence' = evidence \/ evidence' \in Evidence
    BY <1>2 DEF NewEvidence, World, dreamVars, sessionVars, fileVars, worldVars
  <2>2. phase' = phase /\ waiters' = waiters
    BY <1>2 DEF NewEvidence, World, Tick, HostLoad, dreamVars, vars, semVars
  <2>3. CallerInv'
    BY <2>1, <2>2 DEF DreamInv, CallerInv
  <2>4. CountersInv'
    BY <2>1 DEF DreamInv, CountersInv
  <2>5. AskingInv'
    BY <2>1 DEF DreamInv, AskingInv, NewCount, AskedBefore, RungReached, RungBelow, Answered
  <2> QED BY <2>1, <2>3, <2>4, <2>5, LedgerUntouched DEF DreamInv
<1>3. CASE CompactLedgers
  <2>1. /\ UNCHANGED <<stage, cycle, focus, llmFailures, offReason, question, repetition>>
        /\ UNCHANGED <<flags, evidence, sessions>> /\ queued' \subseteq queued
        /\ phase' = phase /\ waiters' = waiters
    BY <1>3 DEF CompactLedgers, sessionVars, worldVars, vars, semVars
  <2>2. CallerInv'
    BY <2>1 DEF DreamInv, CallerInv
  <2>3. CountersInv'
    BY <2>1 DEF DreamInv, CountersInv
  <2>4. /\ LedgerInv'
        /\ \A q \in Questions : RungReached(entries, archived, q) =>
                    RungReached(entries', archived', q)
        /\ \A q \in Questions : Answered(entries, q, Len(entries)) =>
                    Answered(entries', q, Len(entries'))
        /\ \A q \in Questions, n \in Nat : NewCount(entries, q, n) => NewCount(entries', q, n)
    BY <1>3, CompactionKeepsLedger DEF DreamInv
  <2>5. AskingInv'
    <3> SUFFICES ASSUME stage = "asking"
                 PROVE  /\ question \in Questions
                        /\ repetition \in 1..MaxRepetitions
                        /\ NewCount(entries', question', repetition')
                        /\ RungReached(entries', archived', question')
                        /\ flags.localOnlyOnFailure => Answered(entries', question', Len(entries'))
      BY <2>1 DEF AskingInv, NewCount, AskedBefore, RungReached, RungBelow, Answered
    <3>1. /\ question \in Questions
          /\ repetition \in 1..MaxRepetitions
          /\ NewCount(entries, question, repetition)
          /\ RungReached(entries, archived, question)
          /\ flags.localOnlyOnFailure => Answered(entries, question, Len(entries))
      BY DEF DreamInv, AskingInv
    <3>2. NewCount(entries', question', repetition')
      <4>1. repetition \in Nat
        BY <3>1
      <4>2. NewCount(entries', question, repetition)
        BY <2>4, <3>1, <4>1
      <4> QED BY <2>1, <4>2
    <3>3. RungReached(entries', archived', question')
      BY <2>1, <2>4, <3>1 DEF RungReached, RungBelow
    <3>4. flags.localOnlyOnFailure => Answered(entries', question', Len(entries'))
      BY <2>1, <2>4, <3>1 DEF Answered
    <3> QED BY <3>1, <3>2, <3>3, <3>4
  <2> QED BY <2>2, <2>3, <2>4, <2>5 DEF DreamInv
<1> QED BY <1>1, <1>2, <1>3

----------------------------------------------------------------------------
(* The theorems *)

\* The session has nothing recorded, counted or asked when it starts.
LEMMA InitDreamInv == ASSUME DreamAssumption, DreamInit PROVE DreamInv
<1>1. CallerInv
  BY DEF DreamInit, Init, CallerInv, Phases, DreamAssumption
<1>2. CountersInv
  <2>1. FlagChoices \subseteq Flags /\ {MaxCycles, MaxLlmFailures, MaxSessions} \subseteq Nat \ {0}
    BY DEF DreamAssumption
  <2>2. 1 \in 1..MaxCycles /\ 1 \in 1..MaxSessions /\ 0 \in 0..MaxLlmFailures /\ 0 # MaxLlmFailures
    BY <2>1
  <2> QED BY <2>1, <2>2 DEF DreamInit, CountersInv, Stages, OffReasons
<1>3. LedgerInv
  BY DEF DreamInit, LedgerInv, RepetitionsGrow, Ladder, FailuresStay
<1>4. AskingInv
  BY DEF DreamInit, AskingInv
<1> QED BY <1>1, <1>2, <1>3, <1>4 DEF DreamInv

\* DreamInv holds in every state of every sequence of sessions.
THEOREM DreamInvariant == DreamSpec => []DreamInv
<1>1. DreamInit => DreamInv
  BY DreamAssumption, InitDreamInv
<1>2. DreamInv /\ [DreamNext]_dreamVars => DreamInv'
  <2> SUFFICES ASSUME DreamInv, [DreamNext]_dreamVars PROVE DreamInv'
    OBVIOUS
  <2>1. CASE StartSession \/ EndPreflight \/ StopOnStress \/ Wake
    BY <2>1, DreamAssumption, BetweenCyclesKeeps
  <2>2. CASE Cycle
    <3>1. UNCHANGED worldVars
      BY <2>2 DEF Cycle, SuppressCycle, LocalCycle, AskRefused, AskAdmitted
    <3> QED BY <2>2, <3>1, DreamAssumption, CycleKeeps
  <2>3. CASE AwaitAnswer \/ Reflect
    BY <2>3, DreamAssumption, AnswerKeeps
  <2>4. CASE Restart \/ NewEvidence \/ CompactLedgers \/ World \/ UNCHANGED dreamVars
    BY <2>4, DreamAssumption, WorldKeeps
  <2> QED BY <2>1, <2>2, <2>3, <2>4 DEF DreamNext, Session
<1> QED BY <1>1, <1>2, PTL DEF DreamSpec

\* The counters stay within their limits, over any number of sessions that are
\* interrupted anywhere: StartSession to Restart.
THEOREM DreamTypes == DreamSpec => []DreamTypeOK
<1>1. DreamInv => DreamTypeOK
  <2> SUFFICES ASSUME DreamInv PROVE DreamTypeOK
    OBVIOUS
  <2>1. \A i \in 1..Len(entries) : entries[i].repetition \in 1..MaxRepetitions
    <3> TAKE i \in 1..Len(entries)
    <3>1. entries[i] \in Entries
      BY DEF DreamInv, LedgerInv
    <3> QED BY <3>1 DEF Entries
  <2> QED BY <2>1 DEF DreamInv, CountersInv, DreamTypeOK
<1> QED BY <1>1, DreamInvariant, PTL

\* A session that gave up on the LLM sends it nothing more, and gives up once
\* its failures reach the limit: _disable_llm_for_session and what consults it.
THEOREM SessionGivesUp == DreamSpec => []GivesUpOnLlm
<1>1. DreamInv => GivesUpOnLlm
  BY DreamAssumption DEF DreamInv, CallerInv, CountersInv, GivesUpOnLlm, DreamAssumption
<1> QED BY <1>1, DreamInvariant, PTL

\* No question is in the ledger more often than the largest limit, over all
\* sessions, failed appends and compactions: the counts of its entries, read
\* back by count_repetitions, are different numbers up to the limit.
THEOREM RepetitionsAreLimited == DreamSpec => []RepetitionLimit
<1>1. DreamInv => RepetitionLimit
  <2> SUFFICES ASSUME DreamInv, NEW i \in 1..Len(entries)
               PROVE  Cardinality({j \in 1..Len(entries) :
                                     entries[j].question = entries[i].question}) <= MaxRepetitions
    BY DEF RepetitionLimit
  <2> DEFINE S == {j \in 1..Len(entries) : entries[j].question = entries[i].question}
             f == [j \in S |-> entries[j].repetition]
  <2>1. \A j \in S : entries[j].repetition \in 1..MaxRepetitions
    <3> TAKE j \in S
    <3>1. entries[j] \in Entries
      BY DEF DreamInv, LedgerInv
    <3> QED BY <3>1 DEF Entries
  <2>2. MaxRepetitions \in Nat
    BY DreamAssumption DEF DreamAssumption
  <2>3. \A j, k \in S : j < k => entries[j].repetition < entries[k].repetition
    BY DEF DreamInv, LedgerInv, RepetitionsGrow
  <2>4. ASSUME NEW j \in S, NEW k \in S, f[j] = f[k] PROVE j = k
    <3>1. entries[j].repetition = entries[k].repetition
      BY <2>4
    <3>2. j \in Nat /\ k \in Nat /\ entries[j].repetition \in Nat
      BY <2>1
    <3>3. ~(j < k) /\ ~(k < j)
      BY <2>3, <3>1, <3>2
    <3> QED BY <3>2, <3>3
  <2>5. f \in Injection(S, 1..MaxRepetitions)
    BY <2>1, <2>4 DEF Injection, IsInjective
  <2>6. IsFiniteSet(1..MaxRepetitions) /\ Cardinality(1..MaxRepetitions) = MaxRepetitions
    BY <2>2, FS_Interval
  <2> HIDE DEF S, f
  <2>7. Cardinality(S) <= MaxRepetitions
    BY <2>5, <2>6, FS_Injection
  <2> QED BY <2>7 DEF S
<1> QED BY <1>1, DreamInvariant, PTL

\* A topic is examined at a depth only when the one before was understood,
\* whatever sessions, foci and evidence lie in between: get_max_depth_for_topic.
THEOREM LadderIsClimbed == DreamSpec => []LadderClimbed
<1>1. DreamInv => LadderClimbed
  <2> SUFFICES ASSUME DreamInv, NEW i \in 1..Len(entries), entries[i].question.depth > 0
               PROVE  \/ [Rung(entries[i].question) EXCEPT !.depth = @ - 1] \in archived
                      \/ \E j \in 1..(i - 1) :
                           /\ entries[j].question.topic = entries[i].question.topic
                           /\ entries[j].question.depth = entries[i].question.depth - 1
                           /\ entries[j].understood
    BY DEF LadderClimbed
  <2> DEFINE q == entries[i].question
  <2>1. [Rung(q) EXCEPT !.depth = @ - 1] = [topic |-> q.topic, depth |-> q.depth - 1]
    BY DEF Rung
  <2>2. RungBelow(entries, archived, q.topic, q.depth, i - 1)
    BY DEF DreamInv, LedgerInv, Ladder
  <2> QED BY <2>1, <2>2 DEF RungBelow
<1> QED BY <1>1, DreamInvariant, PTL

\* With the degradation to local-only, a question with a recorded failure is
\* asked again only if a session without the degradation had it answered since:
\* _should_use_local_only, with the settings of every session its own.
THEOREM FailuresAreNotAsked == DreamSpec => []FailedNotAskedAgain
<1>1. DreamInv => FailedNotAskedAgain
  BY DEF DreamInv, AskingInv, Answered, FailedNotAskedAgain
<1> QED BY <1>1, DreamInvariant, PTL

----------------------------------------------------------------------------
(* The channel inside Dream Mode *)

\* A step of Dream Mode is a step of the channel, leaves it alone, or starts a
\* process, whose channel is new.
LEMMA DreamStepOfChannel ==
  IInv /\ [DreamNext]_dreamVars => [Next]_vars \/ Init'
<1> SUFFICES ASSUME IInv, [DreamNext]_dreamVars PROVE [Next]_vars \/ Init'
  OBVIOUS
<1>0. Dreamer \in Callers
  BY DreamAssumption
<1>1. ASSUME Call(Dreamer) \/ Answer(Dreamer) \/ Retry(Dreamer) \/ Preflight(Dreamer) PROVE Next
  BY <1>0, <1>1 DEF Next
<1>2. CASE Session
  <2>1. CASE StartSession \/ EndPreflight
    BY <1>1, <2>1 DEF StartSession, EndPreflight, Preflight
  <2>2. CASE StopOnStress \/ SuppressCycle \/ LocalCycle \/ Wake
    BY <2>2 DEF StopOnStress, SuppressCycle, LocalCycle, Wake
  <2>3. CASE AskRefused \/ AskAdmitted
    BY <1>1, <2>3 DEF AskRefused, AskAdmitted, Call
  <2>4. CASE AwaitAnswer
    BY <1>1, <2>4 DEF AwaitAnswer, Answer
  <2>5. CASE Reflect
    BY <1>1, <2>5 DEF Reflect, Understand, LearnNothing, Misparse, QueryFails, Answer
  <2> QED BY <1>2, <2>1, <2>2, <2>3, <2>4, <2>5 DEF Session, Cycle
<1>3. CASE Restart
  <2>1. stressed' \in BOOLEAN
    BY <1>3 DEF Restart, IInv, TypeOK
  <2> QED BY <1>3, <2>1 DEF Restart, Init
<1>4. CASE NewEvidence \/ CompactLedgers \/ UNCHANGED dreamVars
  BY <1>4 DEF NewEvidence, CompactLedgers, dreamVars
<1>5. CASE World
  BY <1>5 DEF World, Next
<1> QED BY <1>2, <1>3, <1>4, <1>5 DEF DreamNext

\* Whatever Dream Mode does with the channel, and however often its process is
\* started again, the channel keeps its promises: the permit, the queue, the
\* retries, the breaker and the bound on stale requests.
THEOREM ChannelHoldsInDreams ==
  DreamSpec => [](/\ PermitAccounting /\ QueueMatchesTasks /\ RetryBudget
                  /\ BreakerConsistent /\ StaleDrainBound)
<1>1. DreamInit => IInv /\ DrainInv
  BY InitIInv, InitDrain DEF DreamInit
<1>2. Init' => IInv' /\ DrainInv'
  BY InitIInv, InitDrain, PTL
<1>3. IInv /\ DrainInv /\ [DreamNext]_dreamVars => IInv' /\ DrainInv'
  BY <1>2, DreamStepOfChannel, NextIInv, NextDrain
<1>4. IInv /\ DrainInv =>
        /\ PermitAccounting /\ QueueMatchesTasks /\ RetryBudget
        /\ BreakerConsistent /\ StaleDrainBound
  BY DrainBound DEF IInv
<1> QED BY <1>1, <1>3, <1>4, PTL DEF DreamSpec
=============================================================================
