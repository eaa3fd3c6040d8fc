------------------------ MODULE AcousticBridgeProofs ------------------------
(* Theorems about AcousticBridge, for any tasks, any finite pool of threads  *)
(* and any queue: who holds the microphone, and which phrases the consumer   *)
(* gets.  The two invariants share no variable.                              *)
EXTENDS AcousticBridge, FiniteSetTheorems, SequenceTheorems, TLAPS

ThreadStates == {"free", "opening", "checking", "reading", "ended", "failed"}

\* Recognizers that go on after their task was cancelled.
Orphans == {t \in Threads : Active(t) /\ waiter[t] = None}

MicrophoneInv ==
  /\ thread \in [Threads -> ThreadStates]
  /\ waiter \in [Threads -> Tasks \cup {None}]
  /\ muting \in Tasks \cup {None}
  /\ \A t, u \in Awaited : t = u
  /\ Awaited # {} => muting = None
  /\ listening <=> (Awaited # {} \/ muting # None)
  /\ muting # None => muted
  /\ abandoned = Cardinality(Orphans)

Kept == received \o queue \o mailbox

Increasing(s) == \A i, j \in DOMAIN s : i < j => s[i] < s[j]

TextInv ==
  /\ received \in Seq(Nat) /\ queue \in Seq(Nat) /\ mailbox \in Seq(Nat)
  /\ spoken \in Nat
  /\ dropped \subseteq 1..spoken
  /\ Increasing(Kept)
  /\ ToSet(Kept) = (1..spoken) \ dropped

BridgeInv == MicrophoneInv /\ TextInv

----------------------------------------------------------------------------
(* The microphone *)

\* A step that changes neither who awaits what nor who was abandoned.
LEMMA SameThreadsKeepMicrophone ==
  ASSUME MicrophoneInv, UNCHANGED <<threadVars, listening, abandoned>>, muted => muted'
  PROVE  MicrophoneInv'
BY DEF MicrophoneInv, threadVars, Awaited, Orphans, Active

\* Of the steps of a recognizer and its task, those that abandon nobody.
LEMMA SameOrphansKeepCount ==
  ASSUME MicrophoneInv, Orphans' = Orphans, abandoned' = abandoned
  PROVE  (abandoned = Cardinality(Orphans))'
BY DEF MicrophoneInv

\* The executor has finitely many threads.
LEMMA OrphansFinite == IsFiniteSet(Orphans) /\ Cardinality(Orphans) \in Nat
<1>1. Orphans \in SUBSET Threads
  BY DEF Orphans
<1>2. QED
  BY <1>1, FS_Subset, FS_CardinalityType, BridgeAssumption

\* A recognizer that ends takes itself off the count if nobody awaits it.
LEMMA FinishKeepsMicrophone ==
  ASSUME MicrophoneInv, NEW t \in Threads, NEW end \in {"ended", "failed"}, Active(t),
         Finish(t, end), UNCHANGED <<waiter, muting, listening, muted>>
  PROVE  MicrophoneInv'
<1>1. thread' = [thread EXCEPT ![t] = IF waiter[t] = None THEN "free" ELSE end]
  BY DEF Finish
<1>2. thread' \in [Threads -> ThreadStates]
  BY <1>1 DEF MicrophoneInv, ThreadStates
<1>3. \A u \in Threads \ {t} : thread'[u] = thread[u]
  BY <1>1 DEF MicrophoneInv
<1>4. thread'[t] \in {"free", "ended", "failed"}
  BY <1>1 DEF MicrophoneInv
<1>5. Orphans' = Orphans \ {t}
  BY <1>3, <1>4 DEF Orphans, Active
<1>6. (abandoned = Cardinality(Orphans))'
  <2>1. CASE waiter[t] = None
    <3>1. t \in Orphans
      BY <2>1 DEF Orphans
    <3>2. Cardinality(Orphans \ {t}) = Cardinality(Orphans) - 1
      BY <3>1, OrphansFinite, FS_RemoveElement
    <3>3. abandoned' = abandoned - 1
      BY <2>1 DEF Finish
    <3>4. QED
      BY <1>5, <3>2, <3>3 DEF MicrophoneInv
  <2>2. CASE waiter[t] # None
    <3>1. t \notin Orphans
      BY <2>2 DEF Orphans
    <3>2. Orphans' = Orphans
      BY <1>5, <3>1
    <3>3. abandoned' = abandoned
      BY <2>2 DEF Finish
    <3>4. QED
      BY <3>2, <3>3, SameOrphansKeepCount
  <2>3. QED
    BY <2>1, <2>2
<1>7. Awaited' = Awaited
  BY DEF Awaited
<1>8. QED
  BY <1>2, <1>6, <1>7 DEF MicrophoneInv

\* Cancelling the awaiting task while the recognizer runs adds it to the count.
LEMMA CancelKeepsMicrophone ==
  ASSUME MicrophoneInv, NEW t \in Threads, Cancel(t)
  PROVE  MicrophoneInv'
<1>1. waiter' = [waiter EXCEPT ![t] = None] /\ waiter[t] # None /\ listening' = FALSE
      /\ UNCHANGED <<muting, muted>>
  BY DEF Cancel
<1>2. Awaited' = {}
  BY <1>1 DEF MicrophoneInv, Awaited
<1>3. muting = None
  BY <1>1 DEF MicrophoneInv, Awaited
<1>4. t \notin Orphans
  BY <1>1 DEF Orphans
<1>5. waiter' \in [Threads -> Tasks \cup {None}]
  BY <1>1 DEF MicrophoneInv
<1>6. thread' \in [Threads -> ThreadStates]
  BY DEF Cancel, MicrophoneInv, ThreadStates
<1>7. (abandoned = Cardinality(Orphans))'
  <2>1. CASE Active(t) /\ abandoned' = abandoned + 1 /\ UNCHANGED thread
    <3>1. Orphans' = Orphans \cup {t}
      BY <1>1, <2>1 DEF Orphans, Active, MicrophoneInv
    <3>2. Cardinality(Orphans \cup {t}) = Cardinality(Orphans) + 1
      BY <1>4, OrphansFinite, FS_AddElement
    <3>3. QED
      BY <2>1, <3>1, <3>2 DEF MicrophoneInv
  <2>2. CASE thread' = [thread EXCEPT ![t] = "free"] /\ abandoned' = abandoned
    <3>1. Orphans' = Orphans
      BY <1>1, <1>4, <2>2 DEF Orphans, Active, MicrophoneInv
    <3>2. QED
      BY <2>2, <3>1, SameOrphansKeepCount
  <2>3. QED
    BY <2>1, <2>2 DEF Cancel
<1>8. listening' <=> (Awaited' # {} \/ muting' # None)
  BY <1>1, <1>2, <1>3
<1>9. QED
  BY <1>1, <1>2, <1>3, <1>5, <1>6, <1>7, <1>8 DEF MicrophoneInv

\* A task awaits a recognizer only when no other does.
LEMMA ListenKeepsMicrophone ==
  ASSUME MicrophoneInv, NEW k \in Tasks, NEW t \in Threads, Listen(k, t)
  PROVE  MicrophoneInv'
<1>1. Awaited = {} /\ muting = None /\ thread[t] = "free"
  BY DEF Listen, MayListen, MicrophoneInv
<1>2. thread' = [thread EXCEPT ![t] = "opening"] /\ waiter' = [waiter EXCEPT ![t] = k]
      /\ listening' = TRUE /\ UNCHANGED <<muting, muted, abandoned>>
  BY DEF Listen
<1>3. Awaited' = {t}
  BY <1>1, <1>2, BridgeAssumption DEF MicrophoneInv, Awaited
<1>4. Orphans' = Orphans
  BY <1>1, <1>2, BridgeAssumption DEF MicrophoneInv, Orphans, Active
<1>5. (abandoned = Cardinality(Orphans))'
  BY <1>2, <1>4, SameOrphansKeepCount
<1>6. thread' \in [Threads -> ThreadStates] /\ waiter' \in [Threads -> Tasks \cup {None}]
  BY <1>2 DEF MicrophoneInv, ThreadStates
<1>7. listening' <=> (Awaited' # {} \/ muting' # None)
  BY <1>2, <1>3
<1>8. QED
  BY <1>1, <1>2, <1>3, <1>5, <1>6, <1>7 DEF MicrophoneInv

\* The recognizer returned or raised: its task stops awaiting it.
LEMMA ReturnKeepsMicrophone ==
  ASSUME MicrophoneInv, NEW t \in Threads, ListenEnds(t) \/ Mute(t)
  PROVE  MicrophoneInv'
<1>1. /\ thread[t] \in {"ended", "failed"} /\ waiter[t] # None
      /\ thread' = [thread EXCEPT ![t] = "free"]
      /\ waiter' = [waiter EXCEPT ![t] = None]
      /\ abandoned' = abandoned
  BY DEF ListenEnds, Mute
<1>2. Awaited' = {} /\ muting = None /\ waiter[t] \in Tasks /\ listening
  BY <1>1 DEF MicrophoneInv, Awaited
<1>3. Orphans' = Orphans
  BY <1>1 DEF MicrophoneInv, Orphans, Active
<1>4. (abandoned = Cardinality(Orphans))'
  BY <1>1, <1>3, SameOrphansKeepCount
<1>5. thread' \in [Threads -> ThreadStates] /\ waiter' \in [Threads -> Tasks \cup {None}]
  BY <1>1 DEF MicrophoneInv, ThreadStates
<1>6. CASE ListenEnds(t)
  <2>1. muting' = None /\ ~listening'
    BY <1>2, <1>6 DEF ListenEnds
  <2>2. QED
    BY <1>2, <1>4, <1>5, <2>1 DEF MicrophoneInv
<1>7. CASE Mute(t)
  <2>1. muting' \in Tasks /\ muting' # None /\ muted' /\ listening'
    BY <1>2, <1>7, BridgeAssumption DEF Mute
  <2>2. QED
    BY <1>2, <1>4, <1>5, <2>1 DEF MicrophoneInv
<1>8. QED
  BY <1>6, <1>7

\* A recognizer that goes on keeps its task, if it has one.
LEMMA WorkKeepsMicrophone ==
  ASSUME MicrophoneInv, NEW t \in Threads, Open(t) \/ ReadNext(t) \/ ChunkRead(t)
  PROVE  MicrophoneInv'
<1>1. /\ Active(t)
      /\ thread' = [thread EXCEPT ![t] = IF @ = "checking" THEN "reading" ELSE "checking"]
      /\ UNCHANGED <<waiter, muting, listening, muted, abandoned>>
  BY DEF Open, ReadNext, ChunkRead, Active, flagVars, MicrophoneInv
<1>2. Orphans' = Orphans /\ Awaited' = Awaited
  BY <1>1 DEF MicrophoneInv, Orphans, Awaited, Active
<1>3. (abandoned = Cardinality(Orphans))'
  BY <1>1, <1>2, SameOrphansKeepCount
<1>4. thread' \in [Threads -> ThreadStates]
  BY <1>1 DEF MicrophoneInv, ThreadStates
<1>5. QED
  BY <1>1, <1>2, <1>3, <1>4 DEF MicrophoneInv

\* Every step keeps the threads and their tasks consistent.
LEMMA MicrophoneKept ==
  ASSUME MicrophoneInv, [BridgeNext]_vars
  PROVE  MicrophoneInv'
<1>1. CASE UNCHANGED vars
  BY <1>1, SameThreadsKeepMicrophone DEF vars, flagVars
<1>2. ASSUME NEW k \in Tasks, NEW t \in Threads, Listen(k, t) PROVE MicrophoneInv'
  BY <1>2, ListenKeepsMicrophone
<1>3. ASSUME NEW t \in Threads, ListenEnds(t) \/ Mute(t) PROVE MicrophoneInv'
  BY <1>3, ReturnKeepsMicrophone
<1>4. ASSUME NEW t \in Threads, Cancel(t) PROVE MicrophoneInv'
  BY <1>4, CancelKeepsMicrophone
<1>5. ASSUME NEW t \in Threads, CaptureFails(t) PROVE MicrophoneInv'
  BY <1>5, FinishKeepsMicrophone DEF CaptureFails, Active, flagVars
<1>6. ASSUME NEW t \in Threads, ThreadStep(t) PROVE MicrophoneInv'
  BY <1>6, WorkKeepsMicrophone, FinishKeepsMicrophone
     DEF ThreadStep, RecognizerStops, Active, flagVars
<1>7. CASE MuteRecorded
  <2>1. Awaited' = {} /\ Orphans' = Orphans
    BY <1>7 DEF MuteRecorded, MicrophoneInv, Awaited, Orphans, Active
  <2>2. muting' = None /\ ~listening' /\ UNCHANGED <<thread, waiter, abandoned>>
    BY <1>7 DEF MuteRecorded
  <2>3. QED
    BY <2>1, <2>2, SameOrphansKeepCount DEF MicrophoneInv
<1>8. CASE RequestStop \/ HandleRecognizedText \/ Consume \/ Speak \/ Spoken
  BY <1>8, SameThreadsKeepMicrophone
     DEF RequestStop, HandleRecognizedText, Consume, Speak, Spoken, flagVars
<1>9. QED
  BY <1>1, <1>2, <1>3, <1>4, <1>5, <1>6, <1>7, <1>8 DEF BridgeNext
----------------------------------------------------------------------------
(* The phrases *)

\* Numbered phrases are concatenated in any grouping.
LEMMA PhrasesConcat ==
  \A a, b, c \in Seq(Nat) : (a \o b) \o c = a \o (b \o c)
BY ConcatAssociative

\* The head of b moves to the end of a: nothing is lost or reordered.
LEMMA HeadMovesAcross ==
  ASSUME NEW S, NEW a \in Seq(S), NEW b \in Seq(S), b # <<>>
  PROVE  Append(a, Head(b)) \o Tail(b) = a \o b
<1>1. /\ Append(a, Head(b)) \in Seq(S) /\ Tail(b) \in Seq(S)
      /\ Len(Append(a, Head(b))) = Len(a) + 1 /\ Len(Tail(b)) = Len(b) - 1 /\ Len(b) > 0
  OBVIOUS
<1>2. DEFINE c == Append(a, Head(b)) \o Tail(b)
             d == a \o b
<1>3. c \in Seq(S) /\ d \in Seq(S) /\ Len(c) = Len(a) + Len(b) /\ Len(d) = Len(a) + Len(b)
  BY <1>1
<1>4. ASSUME NEW i \in 1..Len(c) PROVE c[i] = d[i]
  <2>1. CASE i <= Len(a)
    BY <2>1, <1>1, <1>3
  <2>2. CASE i = Len(a) + 1
    BY <2>2, <1>1, <1>3
  <2>3. CASE i > Len(a) + 1
    BY <2>3, <1>1, <1>3
  <2>4. QED
    BY <2>1, <2>2, <2>3, <1>3
<1>5. QED
  BY <1>3, <1>4, SeqEqual

\* Without the head of b, an increasing sequence loses that element only.
LEMMA HeadIsDropped ==
  ASSUME NEW a \in Seq(Nat), NEW b \in Seq(Nat), b # <<>>, Increasing(a \o b)
  PROVE  /\ Increasing(a \o Tail(b))
         /\ ToSet(a \o Tail(b)) = ToSet(a \o b) \ {Head(b)}
<1> DEFINE s == a \o b
           r == a \o Tail(b)
           k == Len(a) + 1
<1>1. /\ Tail(b) \in Seq(Nat) /\ Len(Tail(b)) = Len(b) - 1 /\ Len(b) > 0 /\ Len(b) \in Nat
      /\ Len(a) \in Nat
  OBVIOUS
<1>2. s \in Seq(Nat) /\ r \in Seq(Nat) /\ Len(s) = Len(a) + Len(b) /\ Len(r) = Len(s) - 1
  BY <1>1
<1>3. DOMAIN s = 1..Len(s) /\ DOMAIN r = 1..Len(r) /\ k \in 1..Len(s) /\ s[k] = Head(b)
  BY <1>1, <1>2
<1>4. \A i \in 1..Len(r) : r[i] = IF i < k THEN s[i] ELSE s[i + 1]
  <2>1. ASSUME NEW i \in 1..Len(r), i < k PROVE r[i] = s[i]
    BY <2>1, <1>1, <1>2
  <2>2. ASSUME NEW i \in 1..Len(r), ~(i < k) PROVE r[i] = s[i + 1]
    <3>1. i - Len(a) \in 1..Len(Tail(b)) /\ i + 1 - Len(a) \in 1..Len(b)
      BY <2>2, <1>1, <1>2
    <3>2. r[i] = Tail(b)[i - Len(a)] /\ s[i + 1] = b[i + 1 - Len(a)]
      BY <2>2, <3>1, <1>1, <1>2
    <3>3. Tail(b)[i - Len(a)] = b[i - Len(a) + 1]
      BY <3>1, <1>1
    <3>4. i + 1 - Len(a) = i - Len(a) + 1
      BY <2>2, <1>1
    <3>5. QED
      BY <3>2, <3>3, <3>4
  <2>3. QED
    BY <2>1, <2>2
<1>5. \A i, j \in 1..Len(s) : i < j => s[i] < s[j]
  BY <1>3 DEF Increasing
<1>k. k \in Nat /\ k = Len(a) + 1
  BY <1>1
<1>s. \A i \in 1..Len(s) : s[i] \in Nat
  BY <1>2
<1> HIDE DEF s, r, k
<1>6. Increasing(r)
  <2>1. ASSUME NEW i \in 1..Len(r), NEW j \in 1..Len(r), i < j PROVE r[i] < r[j]
    <3>1. i \in 1..Len(s) /\ j \in 1..Len(s) /\ i + 1 \in 1..Len(s) /\ j + 1 \in 1..Len(s)
      BY <2>1, <1>1, <1>2
    <3>2. /\ s[i] < s[j] /\ s[i] < s[j + 1] /\ s[i + 1] < s[j + 1]
          /\ j < k => i < k
      BY <2>1, <3>1, <1>5, <1>k
    <3>3. QED
      BY <3>2, <1>4
  <2>2. QED
    BY <2>1, <1>3 DEF Increasing
<1>7. ToSet(r) \subseteq ToSet(s) \ {s[k]}
  <2>1. ASSUME NEW i \in 1..Len(r) PROVE r[i] \in ToSet(s) \ {s[k]}
    <3>1. CASE i < k
      <4>1. s[i] < s[k] /\ s[i] \in Nat /\ i \in 1..Len(s)
        <5>1. i \in 1..Len(s)
          BY <1>1, <1>2
        <5>2. QED
          BY <3>1, <5>1, <1>3, <1>5, <1>s
      <4>2. s[i] # s[k] /\ s[k] \in Nat
        BY <4>1, <1>3, <1>s
      <4>3. QED
        BY <3>1, <4>1, <4>2, <1>3, <1>4 DEF ToSet
    <3>2. CASE ~(i < k)
      <4>1. s[k] < s[i + 1] /\ s[i + 1] \in Nat /\ s[k] \in Nat /\ i + 1 \in 1..Len(s)
        <5>1. i + 1 \in 1..Len(s) /\ k < i + 1
          BY <3>2, <1>1, <1>2, <1>k
        <5>2. QED
          BY <5>1, <1>3, <1>5, <1>s
      <4>2. s[i + 1] # s[k] /\ s[i + 1] \in ToSet(s)
        <5>1. s[i + 1] # s[k]
          BY <4>1
        <5>2. QED
          BY <4>1, <5>1, <1>3 DEF ToSet
      <4>3. QED
        BY <3>2, <4>2, <1>4
    <3>3. QED
      BY <3>1, <3>2
  <2>2. QED
    BY <2>1, <1>3 DEF ToSet
<1>8. ToSet(s) \ {s[k]} \subseteq ToSet(r)
  <2>1. ASSUME NEW i \in 1..Len(s), i # k PROVE s[i] \in ToSet(r)
    <3>1. CASE i < k
      <4>1. i \in 1..Len(r)
        BY <3>1, <1>1, <1>2, <1>3
      <4>2. QED
        BY <3>1, <4>1, <1>3, <1>4 DEF ToSet
    <3>2. CASE i > k
      <4>1. i - 1 \in 1..Len(r) /\ ~(i - 1 < k) /\ (i - 1) + 1 = i
        BY <3>2, <1>1, <1>2, <1>k
      <4>2. r[i - 1] = s[i]
        BY <4>1, <1>4
      <4>3. QED
        BY <4>1, <4>2, <1>3 DEF ToSet
    <3>3. QED
      BY <2>1, <3>1, <3>2, <1>k
  <2>2. QED
    BY <2>1, <1>3 DEF ToSet
<1>9. QED
  BY <1>3, <1>6, <1>7, <1>8 DEF s, r

\* A phrase later than all the others goes to the end.
LEMMA LatestAtTheEnd ==
  ASSUME NEW s \in Seq(Nat), NEW n \in Nat, Increasing(s), \A m \in ToSet(s) : m < n
  PROVE  Increasing(Append(s, n)) /\ ToSet(Append(s, n)) = ToSet(s) \cup {n}
<1> DEFINE r == Append(s, n)
<1>1. /\ r \in Seq(Nat) /\ Len(r) = Len(s) + 1 /\ r[Len(s) + 1] = n /\ Len(s) \in Nat
      /\ DOMAIN s = 1..Len(s) /\ DOMAIN r = 1..(Len(s) + 1)
      /\ \A i \in 1..Len(s) : r[i] = s[i]
  OBVIOUS
<1>2. \A i \in 1..Len(s) : s[i] < n
  BY <1>1 DEF ToSet
<1>3. Increasing(r)
  <2>1. ASSUME NEW i \in 1..(Len(s) + 1), NEW j \in 1..(Len(s) + 1), i < j PROVE r[i] < r[j]
    <3>1. CASE j = Len(s) + 1
      <4>1. i \in 1..Len(s)
        BY <2>1, <3>1, <1>1
      <4>2. QED
        BY <3>1, <4>1, <1>1, <1>2
    <3>2. CASE j # Len(s) + 1
      <4>1. i \in 1..Len(s) /\ j \in 1..Len(s)
        BY <2>1, <3>2, <1>1
      <4>2. s[i] < s[j]
        BY <2>1, <4>1, <1>1 DEF Increasing
      <4>3. QED
        BY <4>1, <4>2, <1>1
    <3>3. QED
      BY <3>1, <3>2
  <2>2. QED
    BY <2>1, <1>1 DEF Increasing
<1>4. ToSet(r) = ToSet(s) \cup {n}
  <2>1. ASSUME NEW i \in 1..(Len(s) + 1) PROVE r[i] \in ToSet(s) \cup {n}
    BY <2>1, <1>1 DEF ToSet
  <2>2. ASSUME NEW i \in 1..Len(s) PROVE s[i] \in ToSet(r)
    BY <2>2, <1>1 DEF ToSet
  <2>3. n \in ToSet(r)
    BY <1>1 DEF ToSet
  <2>4. QED
    BY <2>1, <2>2, <2>3, <1>1 DEF ToSet
<1>5. QED
  BY <1>3, <1>4

\* The other steps leave the phrases alone.
LEMMA TextVarsUnchangedKeepTexts ==
  ASSUME TextInv, UNCHANGED textVars
  PROVE  TextInv'
BY DEF TextInv, textVars, Kept

\* A recognizer posts a phrase.
LEMMA EmitKeepsTexts ==
  ASSUME TextInv, EmitText
  PROVE  TextInv'
<1> DEFINE n == spoken + 1
<1>1. /\ spoken' = n /\ n \in Nat /\ mailbox' = Append(mailbox, n)
      /\ UNCHANGED <<queue, received, dropped>>
  BY DEF EmitText, TextInv
<1>2. Kept \in Seq(Nat) /\ Kept' = Append(Kept, n)
  <2>1. received \o queue \in Seq(Nat)
    BY DEF TextInv
  <2>2. mailbox \in Seq(Nat) /\ <<n>> \in Seq(Nat)
    BY <1>1 DEF TextInv
  <2>3. Kept \in Seq(Nat)
    BY <2>1, <2>2 DEF Kept
  <2>4. Append(mailbox, n) = mailbox \o <<n>>
    BY <1>1, <2>2, AppendIsConcat
  <2>5. Append(Kept, n) = Kept \o <<n>>
    BY <1>1, <2>3, AppendIsConcat
  <2>6. (received \o queue) \o (mailbox \o <<n>>) = ((received \o queue) \o mailbox) \o <<n>>
    BY <2>1, <2>2, ConcatAssociative
  <2>7. QED
    BY <1>1, <2>3, <2>4, <2>5, <2>6 DEF Kept
<1>3. \A m \in ToSet(Kept) : m < n
  BY <1>1 DEF TextInv
<1>4. Increasing(Kept') /\ ToSet(Kept') = ToSet(Kept) \cup {n}
  BY <1>1, <1>2, <1>3, LatestAtTheEnd DEF TextInv
<1>5. ((1..spoken) \ dropped) \cup {n} = (1..n) \ dropped
  BY <1>1 DEF TextInv
<1>6. mailbox' \in Seq(Nat) /\ dropped' \subseteq 1..n
  BY <1>1 DEF TextInv
<1>7. ToSet(Kept') = (1..spoken') \ dropped'
  BY <1>1, <1>4, <1>5 DEF TextInv
<1>8. Increasing(Kept)'
  BY <1>4 DEF Increasing
<1>9. QED
  BY <1>1, <1>6, <1>7, <1>8 DEF TextInv

\* The loop takes a phrase from the mailbox: it enters the queue or is dropped.
LEMMA HandleKeepsTexts ==
  ASSUME TextInv, HandleRecognizedText
  PROVE  TextInv'
<1>1. mailbox # <<>> /\ mailbox' = Tail(mailbox) /\ mailbox' \in Seq(Nat)
      /\ Head(mailbox) \in Nat /\ UNCHANGED <<received, spoken>>
  BY DEF HandleRecognizedText, TextInv
<1>2. CASE queue' = Append(queue, Head(mailbox)) /\ dropped' = dropped
  <2>1. Append(queue, Head(mailbox)) \o Tail(mailbox) = queue \o mailbox
    BY <1>1, HeadMovesAcross DEF TextInv
  <2>2. queue' \in Seq(Nat)
    BY <1>1, <1>2 DEF TextInv
  <2>3. received \in Seq(Nat) /\ queue \in Seq(Nat) /\ mailbox \in Seq(Nat)
    BY DEF TextInv
  <2>4. \A q, m \in Seq(Nat) : (received \o q) \o m = received \o (q \o m)
    BY <2>3, PhrasesConcat
  <2>5. Kept' = received \o (queue' \o mailbox')
    BY <1>1, <2>2, <2>4 DEF Kept
  <2>6. Kept = received \o (queue \o mailbox)
    BY <2>3, <2>4 DEF Kept
  <2>7. Kept' = Kept
    BY <1>1, <1>2, <2>1, <2>5, <2>6
  <2>8. QED
    BY <1>1, <1>2, <2>2, <2>7 DEF TextInv, Increasing
<1>3. CASE dropped' = dropped \cup {Head(mailbox)} /\ queue' = queue
  <2>1. received \o queue \in Seq(Nat)
    BY DEF TextInv
  <2>2. Kept' = (received \o queue) \o Tail(mailbox)
    BY <1>1, <1>3 DEF Kept
  <2>3. Increasing(Kept') /\ ToSet(Kept') = ToSet(Kept) \ {Head(mailbox)}
    BY <1>1, <2>1, <2>2, HeadIsDropped DEF TextInv, Kept
  <2>4. Head(mailbox) \in ToSet(Kept)
    <3>1. Kept[Len(received \o queue) + 1] = Head(mailbox)
          /\ Len(received \o queue) + 1 \in 1..Len(Kept) /\ Kept \in Seq(Nat)
      BY <1>1, <2>1 DEF Kept, TextInv
    <3>2. QED
      BY <3>1 DEF ToSet
  <2>5. ToSet(Kept') = (1..spoken') \ dropped' /\ dropped' \subseteq 1..spoken'
    BY <1>1, <1>3, <2>3, <2>4 DEF TextInv
  <2>6. Increasing(Kept)'
    BY <2>3 DEF Increasing
  <2>7. QED
    BY <1>1, <1>3, <2>5, <2>6 DEF TextInv
<1>4. QED
  BY <1>2, <1>3 DEF HandleRecognizedText, Put

\* The consumer takes the oldest phrase of the queue.
LEMMA ConsumeKeepsTexts ==
  ASSUME TextInv, Consume
  PROVE  TextInv'
<1>1. queue # <<>> /\ queue' = Tail(queue) /\ received' = Append(received, Head(queue))
      /\ UNCHANGED <<mailbox, spoken, dropped>>
  BY DEF Consume
<1>2. queue' \in Seq(Nat) /\ received' \in Seq(Nat)
  BY <1>1 DEF TextInv
<1>3. received' \o queue' = received \o queue
  BY <1>1, HeadMovesAcross DEF TextInv
<1>4. Kept' = Kept
  BY <1>1, <1>3 DEF Kept
<1>5. QED
  BY <1>1, <1>2, <1>4 DEF TextInv, Increasing

\* Every step keeps the phrases in order.
LEMMA TextsKept ==
  ASSUME TextInv, [BridgeNext]_vars
  PROVE  TextInv'
<1>1. CASE EmitText
  BY <1>1, EmitKeepsTexts
<1>2. CASE HandleRecognizedText
  BY <1>2, HandleKeepsTexts
<1>3. CASE Consume
  BY <1>3, ConsumeKeepsTexts
<1>4. CASE UNCHANGED textVars
  BY <1>4, TextVarsUnchangedKeepTexts
<1>5. EmitText \/ HandleRecognizedText \/ Consume \/ UNCHANGED textVars
  BY DEF BridgeNext, vars, Listen, ListenEnds, Mute, Cancel, CaptureFails, ThreadStep, Open,
         ReadNext, ChunkRead, RecognizerStops, PhraseHeard, MuteRecorded, RequestStop, Speak, Spoken
<1>6. QED
  BY <1>1, <1>2, <1>3, <1>4, <1>5

----------------------------------------------------------------------------
LEMMA BridgeStarts == BridgeInit => BridgeInv
<1>1. ASSUME BridgeInit PROVE MicrophoneInv
  <2>1. Awaited = {} /\ Orphans = {}
    BY <1>1 DEF BridgeInit, Awaited, Orphans, Active
  <2>2. abandoned = Cardinality(Orphans)
    BY <1>1, <2>1, FS_EmptySet DEF BridgeInit
  <2>3. QED
    BY <1>1, <2>1, <2>2 DEF BridgeInit, MicrophoneInv, ThreadStates
<1>2. ASSUME BridgeInit PROVE TextInv
  <2>1. received = <<>> /\ queue = <<>> /\ mailbox = <<>> /\ spoken = 0 /\ dropped = {}
    BY <1>2 DEF BridgeInit
  <2>2. Kept = <<>>
    BY <2>1 DEF Kept
  <2>3. QED
    BY <2>1, <2>2 DEF TextInv, Increasing, ToSet
<1>3. QED
  BY <1>1, <1>2 DEF BridgeInv

(* Every reachable state of the bridge satisfies the invariant.              *)
THEOREM BridgeInvariant == BridgeSpec => []BridgeInv
<1>1. BridgeInv /\ [BridgeNext]_vars => BridgeInv'
  BY MicrophoneKept, TextsKept DEF BridgeInv
<1>2. QED
  BY BridgeStarts, <1>1, PTL DEF BridgeSpec

(* However many tasks listen, are cancelled or fail, one recognizer has the   *)
(* microphone besides those abandoned by a cancellation, and _listening says *)
(* whether a task awaits one.                                                *)
THEOREM MicrophoneIsHeldOnce == BridgeSpec => []OneMicrophone
<1>1. ASSUME MicrophoneInv PROVE OneMicrophone
  <2>1. IsFiniteSet(Awaited) /\ Cardinality(Awaited) <= 1
    <3>1. CASE Awaited = {}
      BY <3>1, FS_EmptySet
    <3>2. ASSUME NEW t \in Awaited PROVE IsFiniteSet(Awaited) /\ Cardinality(Awaited) <= 1
      <4>1. Awaited = {t}
        BY <1>1 DEF MicrophoneInv
      <4>2. IsFiniteSet({t}) /\ Cardinality({t}) = 1
        BY FS_Singleton
      <4>3. QED
        BY <4>1, <4>2
    <3>3. QED
      BY <3>1, <3>2
  <2>2. DEFINE Running == {t \in Threads : Active(t)}
  <2>3. Cardinality(Running) <= 1 + abandoned
    <3>1. IsFiniteSet(Awaited \cup Orphans)
          /\ Cardinality(Awaited \cup Orphans)
               = Cardinality(Awaited) + Cardinality(Orphans) - Cardinality(Awaited \cap Orphans)
      BY <2>1, OrphansFinite, FS_Union
    <3>2. Awaited \cap Orphans = {}
      BY DEF Awaited, Orphans
    <3>3. Running \in SUBSET (Awaited \cup Orphans)
      BY DEF Awaited, Orphans
    <3>4. Cardinality(Running) <= Cardinality(Awaited \cup Orphans) /\ IsFiniteSet(Running)
      BY <3>1, <3>3, FS_Subset
    <3>5. Cardinality(Awaited \cap Orphans) = 0
      BY <3>2, FS_EmptySet
    <3>6. Cardinality(Running) \in Nat /\ Cardinality(Awaited) \in Nat
          /\ Cardinality(Orphans) \in Nat /\ Cardinality(Awaited \cup Orphans) \in Nat
      BY <2>1, <3>1, <3>4, OrphansFinite, FS_CardinalityType
    <3>7. abandoned = Cardinality(Orphans)
      BY <1>1 DEF MicrophoneInv
    <3>8. QED
      BY <2>1, <3>1, <3>4, <3>5, <3>6, <3>7
  <2>4. QED
    BY <1>1, <2>1, <2>3 DEF OneMicrophone, MicrophoneInv
<1>2. BridgeInv => OneMicrophone
  BY <1>1 DEF BridgeInv
<1>3. QED
  BY BridgeInvariant, <1>2, PTL

(* The phrases taken, queued and posted are in the order in which the threads *)
(* posted them, each once, and only those that met a full queue are missing. *)
THEOREM TextsKeepTheirOrder == BridgeSpec => []TextsInOrder
<1>1. BridgeInv => TextsInOrder
  BY DEF BridgeInv, TextInv, Kept, Increasing, TextsInOrder
<1>2. QED
  BY BridgeInvariant, <1>1, PTL
=============================================================================
