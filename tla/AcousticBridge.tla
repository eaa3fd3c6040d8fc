--------------------------- MODULE AcousticBridge ---------------------------
(***************************************************************************)
(* AcousticBridge: a coroutine waits for a blocking recognizer that runs in *)
(* a thread of the executor; the recognizer posts what it hears to the     *)
(* event loop, which puts it into a bounded queue and calls back.  Nothing  *)
(* in the program creates a bridge yet: the tasks that listen, cancel, stop *)
(* and consume are those its interface and its tests allow.                *)
(***************************************************************************)
EXTENDS Naturals, Sequences, FiniteSets, SequencesExt

CONSTANTS
  Tasks,       \* tasks that may call listen_continuously
  Threads,     \* threads of the executor
  Capacity,    \* maxsize of the queue of recognized texts
  MaxPhrases   \* bound: phrases recognized

None == "none"

ASSUME BridgeAssumption ==
  /\ None \notin Tasks
  /\ IsFiniteSet(Threads)
  /\ Capacity \in Nat \ {0} /\ MaxPhrases \in Nat

VARIABLES
  thread,     \* where each recognizer stands; "free" when it runs none
  waiter,     \* the task that awaits the recognizer of a thread
  muting,     \* the task that records why the bridge is muted
  stop,       \* _stop_event
  listening,  \* _listening
  muted,      \* _mute_mode
  lastError,  \* _last_error
  speaking,   \* Piper runs
  mailbox,    \* callbacks posted to the event loop
  queue,      \* recognized_text_queue
  spoken,     \* phrases posted; each is named by its number
  received,   \* history: phrases taken from the queue
  dropped,    \* history: phrases for which it was full
  abandoned   \* history: recognizers whose task was cancelled

threadVars == <<thread, waiter, muting>>
flagVars == <<stop, listening, muted, lastError>>
textVars == <<mailbox, queue, spoken, received, dropped>>
vars == <<threadVars, flagVars, speaking, textVars, abandoned>>

Active(t) == thread[t] \in {"opening", "checking", "reading"}

Awaited == {t \in Threads : waiter[t] # None}

BridgeInit ==
  /\ thread = [t \in Threads |-> "free"]
  /\ waiter = [t \in Threads |-> None]
  /\ muting = None
  /\ stop = FALSE
  /\ listening = FALSE
  /\ muted = FALSE
  /\ lastError = None
  /\ speaking = FALSE
  /\ mailbox = <<>> /\ queue = <<>>
  /\ spoken = 0
  /\ received = <<>> /\ dropped = {}
  /\ abandoned = 0

----------------------------------------------------------------------------
(* listen_continuously *)

\* Without the test of _listening.
MayListenTwice == ~muted

\* A muted bridge records that it skips; one that listens returns.
MayListen == ~muted /\ ~listening

\* A stop requested before is forgotten.
Listen(k, t) ==
  /\ MayListen
  /\ thread[t] = "free"
  /\ muting # k /\ \A u \in Threads : waiter[u] # k
  /\ stop' = FALSE
  /\ listening' = TRUE
  /\ thread' = [thread EXCEPT ![t] = "opening"]
  /\ waiter' = [waiter EXCEPT ![t] = k]
  /\ UNCHANGED <<muting, muted, lastError, speaking, textVars, abandoned>>

\* The recognizer returned: its task clears the flag.
ListenEnds(t) ==
  /\ waiter[t] # None
  /\ thread[t] = "ended"
  /\ thread' = [thread EXCEPT ![t] = "free"]
  /\ waiter' = [waiter EXCEPT ![t] = None]
  /\ listening' = FALSE
  /\ UNCHANGED <<muting, stop, muted, lastError, speaking, textVars, abandoned>>

\* It raised: the bridge is muted for good, which is recorded first.
Mute(t) ==
  /\ waiter[t] # None
  /\ thread[t] = "failed"
  /\ thread' = [thread EXCEPT ![t] = "free"]
  /\ waiter' = [waiter EXCEPT ![t] = None]
  /\ muting' = waiter[t]
  /\ muted' = TRUE
  /\ lastError' = "input"
  /\ UNCHANGED <<stop, listening, speaking, textVars, abandoned>>

\* The record is written, or not, or the task is cancelled meanwhile.
MuteRecorded ==
  /\ muting # None
  /\ muting' = None
  /\ listening' = FALSE
  /\ UNCHANGED <<thread, waiter, stop, muted, lastError, speaking, textVars, abandoned>>

\* Cancelling the task does not reach a recognizer that runs; one that waits
\* for a thread is withdrawn.
Cancel(t) ==
  /\ waiter[t] # None
  /\ waiter' = [waiter EXCEPT ![t] = None]
  /\ listening' = FALSE
  /\ \/ /\ Active(t)
        /\ abandoned' = abandoned + 1
        /\ UNCHANGED thread
     \/ /\ thread[t] \in {"opening", "ended", "failed"}
        /\ thread' = [thread EXCEPT ![t] = "free"]
        /\ UNCHANGED abandoned
  /\ UNCHANGED <<muting, stop, muted, lastError, speaking, textVars>>

RequestStop ==
  /\ stop' = TRUE
  /\ UNCHANGED <<threadVars, listening, muted, lastError, speaking, textVars, abandoned>>

----------------------------------------------------------------------------
(* recognize_forever *)

\* The result of a recognizer nobody awaits is lost.
Finish(t, end) ==
  /\ thread' = [thread EXCEPT ![t] = IF waiter[t] = None THEN "free" ELSE end]
  /\ abandoned' = IF waiter[t] = None THEN abandoned - 1 ELSE abandoned

\* The model is loaded and the microphone opened.
Open(t) ==
  /\ thread[t] = "opening"
  /\ thread' = [thread EXCEPT ![t] = "checking"]
  /\ UNCHANGED <<waiter, muting, flagVars, speaking, textVars, abandoned>>

\* A library, the model or the microphone is missing, or the capture fails.
CaptureFails(t) ==
  /\ thread[t] \in {"opening", "reading"}
  /\ Finish(t, "failed")
  /\ UNCHANGED <<waiter, muting, flagVars, speaking, textVars>>

\* A stop that reaches only the recognizer of the call it was meant for.
StopSeenIfAwaited(t) == stop /\ waiter[t] # None

StopSeen(t) == stop

ReadNext(t) ==
  /\ thread[t] = "checking"
  /\ ~StopSeen(t)
  /\ thread' = [thread EXCEPT ![t] = "reading"]
  /\ UNCHANGED <<waiter, muting, flagVars, speaking, textVars, abandoned>>

\* It is posted to the loop.
EmitText ==
  /\ spoken < MaxPhrases
  /\ spoken' = spoken + 1
  /\ mailbox' = Append(mailbox, spoken + 1)
  /\ UNCHANGED <<queue, received, dropped>>

\* What the recognizer made of the audio is a phrase, or blank or malformed.
PhraseHeard == EmitText \/ UNCHANGED textVars

\* A chunk was read; it may complete a phrase.
ChunkRead(t) ==
  /\ thread[t] = "reading"
  /\ thread' = [thread EXCEPT ![t] = "checking"]
  /\ PhraseHeard
  /\ UNCHANGED <<waiter, muting, flagVars, speaking, abandoned>>

\* The final result may be a phrase too.
RecognizerStops(t) ==
  /\ thread[t] = "checking"
  /\ StopSeen(t)
  /\ Finish(t, "ended")
  /\ PhraseHeard
  /\ UNCHANGED <<waiter, muting, flagVars, speaking>>

----------------------------------------------------------------------------
(* The event loop *)

PutFirst(q, text) == <<text>> \o q

Put(q, text) == Append(q, text)

\* The callback is called whether or not the queue had room; its errors are
\* recorded.
HandleRecognizedText ==
  /\ mailbox # <<>>
  /\ mailbox' = Tail(mailbox)
  /\ IF Len(queue) < Capacity
     THEN queue' = Put(queue, Head(mailbox)) /\ UNCHANGED dropped
     ELSE dropped' = dropped \cup {Head(mailbox)} /\ UNCHANGED queue
  /\ UNCHANGED <<threadVars, flagVars, speaking, spoken, received, abandoned>>

Consume ==
  /\ queue # <<>>
  /\ received' = Append(received, Head(queue))
  /\ queue' = Tail(queue)
  /\ UNCHANGED <<threadVars, flagVars, speaking, mailbox, spoken, dropped, abandoned>>

\* A muted bridge does not speak; one sentence at a time is enough here.
Speak ==
  /\ ~muted /\ ~speaking
  /\ speaking' = TRUE
  /\ UNCHANGED <<threadVars, flagVars, textVars, abandoned>>

\* Piper ended, failed or took too long; only listening mutes the bridge.
Spoken ==
  /\ speaking
  /\ speaking' = FALSE
  /\ lastError' \in {lastError, "speech"}
  /\ UNCHANGED <<threadVars, stop, listening, muted, textVars, abandoned>>

ThreadStep(t) == Open(t) \/ ReadNext(t) \/ ChunkRead(t) \/ RecognizerStops(t)

BridgeNext ==
  \/ \E k \in Tasks, t \in Threads : Listen(k, t)
  \/ \E t \in Threads : ListenEnds(t) \/ Mute(t) \/ Cancel(t) \/ CaptureFails(t) \/ ThreadStep(t)
  \/ MuteRecorded \/ RequestStop
  \/ HandleRecognizedText \/ Consume
  \/ Speak \/ Spoken

\* Audio arrives as long as the device is open, so each read returns.
BridgeSpec ==
  BridgeInit /\ [][BridgeNext]_vars /\ \A t \in Threads : WF_vars(ThreadStep(t))

----------------------------------------------------------------------------
(* Properties *)

(* One recognizer has the microphone unless a task was cancelled while it     *)
(* waited: every further one was abandoned that way, and the bridge says it   *)
(* listens exactly while a task awaits a recognizer or records its failure.   *)
OneMicrophone ==
  /\ Cardinality({t \in Threads : Active(t)}) <= 1 + abandoned
  /\ Cardinality(Awaited) <= 1
  /\ listening <=> (Awaited # {} \/ muting # None)
  /\ muting # None => muted

(* The consumer gets the phrases in the order in which the recognizers, all   *)
(* of them, posted them; none twice, and none missing but those that met a    *)
(* full queue.                                                               *)
TextsInOrder ==
  LET kept == received \o queue \o mailbox
  IN
  /\ \A i, j \in DOMAIN kept : i < j => kept[i] < kept[j]
  /\ ToSet(kept) = (1..spoken) \ dropped

(* A stop that no later call of listen_continuously takes back ends every     *)
(* recognizer, the abandoned ones included.                                  *)
StopEndsRecognition ==
  <>[]stop => <>[](\A t \in Threads : ~Active(t))
=============================================================================
