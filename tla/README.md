# Verification of the Cognitive Suite (Greys-v3)

TLA+ models of the stateful core of the Cognitive Suite, checked with TLC on small
instances and, for the parts that matter most, proved with TLAPS for every value of the
constants. Paths are relative to the repository: the code is in `src/src/` (main.py,
`core/`, `cognition/`), the docs in `src/docs/`.

## 1. The system

One Python process runs an asyncio event loop (qasync, so that Qt dialogs share it). A
console task reads lines and turns each into an envelope, a plan, a dispatch and a
result. SparkEngine, a second task, looks at the ledgers periodically and raises
"evolutionary doubts". Both ask the user through a dialog and both query a local LLM
through one `IafaTransceiver`. Dream Mode (`--dream`) and ledger compaction
(`--compact-ledgers`) are runs of their own, in other processes, over the same files.
All memory is in append-only JSONL ledgers under `assets/memory`, which nothing locks.

| Component | State | Operations | What is hard about it |
| --- | --- | --- | --- |
| LLM channel: `cognition/iafa_transceiver.py`, `core/external_channel_gate.py`, `core/system_stress_guard.py` | semaphore, circuit breaker, attempts | `query_llm`, `preflight_ollama`, gate decision | gate checked before the semaphore is awaited, retries under the permit, cancellation at every await |
| JSONL ledgers, `core/ledger_compactor.py`, `core/local_ledger_cache.py` | the file, archives, a cached snapshot | append, compact in four steps, read through the cache | several processes, crashes between two writes, a full disk |
| Reflex lifecycle: `core/reflex_promotion_gate.py`, `core/local_intent_router.py`, `core/fast_path_reflex_gate.py`, `core/minimal_neural_layer.py`, `core/reflex_shadow_evaluator.py`, `cognition/deepseek_experience_distiller.py` | orders, shadow evidence, loaded patterns | distil, load, observe, assess, approve, disable, route | the evidence, the orders and the routing feed each other across sessions |
| Dream Mode: `cognition/dream_mode.py`, `cognition/dream_question_ledger.py` | session counters, question ledger, option queue | session, cycle, preflight, local-only reflection | what one session learns from the ledger of another; failures, refusals and switches |
| Human loop: `core/cognitive_loop.py`, `cognition/spark_engine.py`, `ui/evolution_dialog.py`, `core/semantic_fatigue_policy.py`, `main.py` | open dialogs and futures, feedback flag, cooldown, damage | show, answer, audit, route, cancel, quit | two dialogs at once, late signals, cancellation while the user thinks |
| Turn: `main.py`, `core/action_dispatcher.py`, `cognition/ingestion_router.py`, `cognition/llm_planner.py`, `cognition/fallback_engine.py`, IAFA engine | the envelope, the plan, what is in the audit log | take in, fast path, local route, plan, dispatch, respond, run a skill, doubt | the effect precedes its audit; every stage awaits an append that may fail; a swallowed error repeats a dispatch |
| Skill pipeline: `cognition/genesis_analysis.py`, `skill_candidate_review.py`, `skill_promotion_gate.py`, `skill_experimental_promoter.py`, `skill_loader.py` | quarantine, verdicts, backups, the experimental directory | analyse, review, promote, roll back, execute | verdicts keyed by file name in a window of 100 events, a candidate read twice, copies that fail midway |
| Acoustic bridge: `perception/acoustic_bridge.py` | threads at the microphone, stop event, queue of texts | listen, cancel, stop, emit, consume, speak | one stop event for all calls, threads that outlive their task, a full queue |
| Ledger queries and policies: option curator, quarantine, delegation, quorum | the option queue; the others none | curate, score | the curator marks what it read before |
| Classifier, reports, user interface, audit log | see `PROJECT.json` | | mostly pure functions |

How they interact: the console, Spark and the genesis engine share the channel; the
dispatcher's refusal starts the human loop, whose `sandbox_code` answer starts an
analysis, whose candidate the operator reviews and promotes to the directory from which
a later turn runs it; Dream Mode distils patterns that the next session loads as reflexes and the
operator approves; every component appends to ledgers that the compactor rewrites.

`PROJECT.json` lists every component with its status and every hazard with its line.

## 2. Modules

| Module | Models | Built on |
| --- | --- | --- |
| `LlmChannel` | the gate, the breaker and the semaphore as several tasks see them | |
| `RequestLine` | abstract: one line, served in order of arrival | refined by `LlmChannel` |
| `LlmChannelProofs` | theorems about `LlmChannel` | `LlmChannel`, TLAPS |
| `LedgerFile` | one ledger: writers, compactor, cached reader | |
| `ReflexLedger` | the orders about reflexes, kept in a `LedgerFile` | extends `LedgerFile` |
| `ReflexLedgerProofs` | theorems about `LedgerFile` and `ReflexLedger`, and the refinement | `ReflexLedger`, TLAPS |
| `ReflexRegistry` | abstract: a set changed by orders, which housekeeping may shrink | refined by `ReflexLedger` |
| `ReflexRouting` | the life of a reflex and the evidence about it | extends `ReflexRegistry` |
| `ReflexRoutingProofs` | theorems about `ReflexRouting` | `ReflexRouting`, TLAPS |
| `DreamSession` | Dream Mode over its ledgers and restarts | extends `LlmChannel` |
| `DreamSessionProofs` | theorems about `DreamSession`, its operators on the question ledger, and the channel inside it | `DreamSession`, `LlmChannelProofs`, TLAPS |
| `HumanLoop` | dialogs, feedback, Spark's pulse, shutdown | |
| `HumanLoopProofs` | theorems about `HumanLoop` | `HumanLoop`, TLAPS |
| `Turn` | a turn from its line or file to its result, with the audit log it waits for | |
| `TurnProofs` | theorems about `Turn` | `Turn`, TLAPS |
| `SkillPipeline` | candidates, verdicts, promotion, execution | |
| `SkillPipelineProofs` | theorems about `SkillPipeline` | `SkillPipeline`, TLAPS |
| `AcousticBridge` | listening tasks, recognizer threads, the queue of texts | |
| `AcousticBridgeProofs` | theorems about `AcousticBridge` | `AcousticBridge`, TLAPS |

`MC<module>` instantiates a module for TLC; `MC<module>_<run>.cfg` is a run.

### How state and actions correspond to the code

An action is what one task executes between two awaits: within it nothing else of the
process can run. Another process can, so the compactor's and the cached reader's
actions end where the file system becomes visible to others.

* `LlmChannel`. `phase[q]` is where a task stands in `query_llm`: `AdmitNow` runs from
  the gate through the free semaphore to the first request, `AdmitLater` queues it,
  `Resume` is the moment it runs again with the permit `ReleasePermit` handed over.
  `failures`, `isOpen` and `sinceFailure` are the breaker; the time is saturated just
  past the cooldown, the counter at `FailureCap`, which no comparison can tell apart.
  A dropped call leaves its reason in `result`.
* `LedgerFile`. A line is the number of its event, or `Corrupt`. `torn` says that the
  last line has no newline, so that the next append merges with it. `CompactRead`,
  `CompactArchive`, `CompactTruncate`, `CompactRewrite` are the compactor between two
  file system calls; `WriteOver` gives what a file holds when the compactor's handle,
  at position zero, and the appends of others meet. `CacheStat` and `CacheFill`
  separate the `os.stat` from the read.
* `ReflexLedger` gives each event an order; `GetActiveReflexes` reads up to the first
  corrupt line, as the gate does, where other readers skip such lines.
* `ReflexRouting`. `shadow` is the shadow ledger, line by line; `readable` is how far the
  gate's strict reader gets, `cut` and `corrupt` are what a short write leaves. `Persist`
  gives the outcomes of `persist_evaluation`: a line of its own, one that completes a cut
  line, one cut short, nothing (the error is swallowed, or shadow mode is off).
  `Housekeeping` is a compaction, `HousekeepingDies` one that ends during the rewrite.
  `nth`, `route`, `stored`, `against` and `wiped` are histories for the properties.
* `DreamSession`. A step is a cycle, or the part of a cycle up to its query. The
  question is a record (topic, rung, evidence) in place of the hash of its text.
  `Restart` replaces the process at any point, keeps the files and chooses the settings of
  the environment anew; within a process nothing in the code sets them. `Record` appends
  an entry or, as `append_entry` swallows its errors, does not. `CompactLedgers` archives
  the oldest entries at any moment, also while a question is being asked. `guarded` and
  `archived` are histories for the properties. New evidence arrives between cycles, which
  is when a session looks for it.
* `HumanLoop`. `dialog[a].answer` is the future of a task's dialog; clicking sets it,
  `TakeAnswer` is the task resuming with it, the `auditing` phase is the await of the
  audit's executor, `RouteConsoleSelection` and `RouteSparkSelection` are
  `_handle_fallback_selection`. `stopping` means that `stop()` has cancelled Spark: from
  then on its task only takes `SparkCancelled`.

* `Turn`. `pc` is the await the turn stands at. `Dispatch` and `DispatchNotAudited` are
  the dispatcher with an audit append that succeeds or raises: the effect (`written`) is
  the same. `acts` remembers what a turn did and for which plan; `decided`, `offered` and
  `chosen` are what the audit log has of it. A plan keeps the three estimates in
  hundredths, and `IafaScore` is `IAFAEngine.score` in integers. The channel is reduced
  to an answer or none, the dialog to one selection, reflexes to what they match.
* `SkillPipeline`. A candidate file, a skill's file and a backup hold a text, nothing, or
  a text that was cut. Each step of `/promote` between two file system calls is an
  action, since an analysis writes its candidate from an executor's thread meanwhile;
  the verdict window, the second in a backup's name and the second read of the candidate
  (`CopyCandidate`) are as in the code. `scanned`, `overtaken`, `good`, `unsaved` and
  `ran` are histories for the properties.
* `AcousticBridge`. `thread[t]` is where a recognizer stands in `recognize_forever`, and
  `waiter[t]` the task that awaits it: a cancelled task leaves the thread running.
  `mailbox` is `call_soon_threadsafe`.

## 3. Runs

| Run | Question | Bounds and why they are enough |
| --- | --- | --- |
| `llm_channel` | does the channel keep its permit, queue, retries and breaker consistent, is it a line served in order, does every call end, does the breaker close again? | three tasks, the fewest with an owner, a waiter and one more that is cancelled, arrives or probes the host; limit 2, one retry: every guard is met on both sides |
| `ledger_shared` | what can be lost or duplicated when everyone shares a ledger? | five events, two compactions that keep two: the second compaction meets what the first retained |
| `reflexledger_shared` | do orders keep "the last order wins" and implement the registry until the file is damaged, and is a reflex ever active that was not approved? | five orders on two reflexes, two compactions that may die, short writes |
| `reflexrouting_evidence` | does what spoke against a reflex count in its next review, and is the evidence the pipeline's before the first approval? | two reflexes, three stored observations, one line kept by the compactor; any append may fail, complete a cut line or be cut |
| `reflexrouting_blind` | *violated*: eligibility rests on turns the pipeline decided | up to ten observations; the trace needs one, of a turn the reflex routed itself |
| `dream_nights` | do sessions end, give up, respect repetitions, rungs and recorded failures? | two sessions of three cycles, two states of evidence, two rungs, a limit of two failures, three entries kept by the compactor; three settings of the environment, with limits of three and two repetitions, chosen anew for each session: a question can fail, be answered without the degradation and be asked again with it |
| `human_dialogs` | are dialogs, answers, feedback and cancellation kept apart? | two turns, two doubts: both dialogs open at once, with one more to come |
| `human_fatigue` | *violated*: a doubt with too much damage is suppressed | |
| `turn_record` | does a turn act only on what the audit log has, and is what it stores without a record reported? | nine answers on both sides of every test of the planner and of the score, two approved reflexes, two allowed skills, four kinds of input; a turn follows another |
| `turn_unrecorded` | *violated*: a failure is registered | |
| `skill_shelf` | does the shelf change only under approval, what can run, is the last version kept? | two candidates, one with a critical call and one with a reviewed dependency; three verdicts of which two are read, so that one is forgotten; two promotions in two seconds, so that a backup is overwritten; one repair by hand |
| `acousticbridge_listen` | who has the microphone, in which order do texts arrive, does a stop end every recognizer? | two tasks, two threads, so that an abandoned recognizer runs beside a new one; three phrases for a queue of two |

Deadlock is checked, and switched off only where a bound on events, turns or sessions
ends every behaviour (`ledger_shared`, `reflexledger_shared`, `dream_nights` and the two
runs of `HumanLoop`).

Every property of a passing run is broken by a mutant of the code it is about. The
mutated forms stand beside the definitions they mutate (`CancelHolderKeepsPermit` next
to `CancelHolder`), so that a reader sees the mistake each property guards against.

### Fairness

* `LlmChannel`: weak fairness of a task that can run (`Resume`, `Retry`), of answers
  (aiohttp's total timeout ends every request) and of time. No call is assumed to be
  made, except in the antecedent of `BreakerRecovers`, which is about callers that come
  back. Cancellation, load and the outcome of a request are free.
* `DreamSession`: weak fairness of the session as a whole, as one task whose awaits all
  end: the query by its timeout, the preflight by `GREYS_DREAM_PREFLIGHT_TIMEOUT`, the
  sleep by itself.
* `HumanLoop`: weak fairness of the delivery of a cancellation and of bootstrap's
  resumption only. Nothing is assumed of the user, and so `ShutdownCompletes` also
  covers a doubt that nobody answers.
* `AcousticBridge`: weak fairness of each recognizer's thread. The device is open while
  it reads, so audio, silent or not, keeps arriving and each read returns. No phrase, no
  stop and no consumer is assumed.
* `Turn` and `SkillPipeline` state no liveness: a turn may wait for the user for ever.

### What disagrees

Three runs find that the code does not do what a doc or comment of the repository says
(`PROJECT.json`, "findings"): a reflex that certifies itself; a doubt whose damage is
looked up under another signature than it is recorded under; a file whose failure ends
the program before it is registered. (`src/docs/HISTORY.md:206` knows that dismissed
doubts are not stored; the signature is another matter.)

Other divergences met while modelling, which no run checks or whose cases the
properties of a run except:

* An append made while another process compacts the ledger is lost
  (`ledger_compactor.py:108`; `src/docs/LEDGER_COMPACTION_POLICY.md:12` keeps the recent
  events in the main file), and a rollback behind a cut line does not take effect
  (`reflex_promotion_gate.py:128`; `src/docs/REFLEX_PROMOTION_GATE.md:22`).
  `NothingLost` and `LastOrderWins` say exactly when.
* The promotion gate reads as if a sandbox result were required
  (`src/docs/SKILL_PROMOTION_GATE.md`, third criterion), but `sandbox_safe` only looks at
  the human status; and nothing compares the candidate's hash with what was reviewed, so
  an approval passes to whatever the file holds later, and what is copied is not what was
  scanned (`CriticalCodeOvertook` excepts precisely that).
* `/review` passes a "user_outcome" that `_register_tension_event` ignores
  (`main.py:750`); the dispatcher asks the review status of `skill_<action>.py`, which
  names no candidate, so that it is always pending; the risk profile takes the maximum of
  risk levels as strings.
* `GenesisEngine.synthesize_and_install_skill` has no caller; the shipped
  `skill_consultor_tiempo_local.py` has no asynchronous entrypoint and is refused by the
  loader (`src/docs/AUDITORIA_REPO_2026-06-01.md:147` knows).
* A fast-path turn reports "completed" whatever the dispatcher answered, and a skill that
  fails leaves the status "executed"; the error of a PDF's turn raises again
  (`main.py:1193` hashes a value that is None).
* A stop requested before `listen_continuously` is forgotten, a new call clears a stop that
  an earlier recognizer has not seen yet, and a cancelled listen leaves its recognizer at
  the microphone (`acoustic_bridge.py:229`). `OneMicrophone` counts such recognizers as
  abandoned, and `StopEndsRecognition` is about a stop that nobody clears.
* A failure of the LLM whose entry could not be written (`dream_question_ledger.py:58` only
  logs) or was archived is forgotten, and so is one that was answered since in a session
  without the degradation: the question is asked again. `FailedNotAskedAgain` is about
  the failures the ledger has, and says exactly when. Likewise `RepetitionLimit` bounds
  the entries a question has in the ledger, not the times it was asked.
* A shadow evaluation that could not be written is missing from the next review
  (`reflex_shadow_evaluator.py:126` only logs), one behind a corrupt line is not read
  (`reflex_promotion_gate.py:147`), and one older than the last 200 lines of all reflexes
  may be archived; the agreement rate is then that of the rest. `RecentDisagreementsShown`
  says which evaluations count. `LastOrderWins` holds until the registry is damaged, and
  `ActivationWasOrdered`, which holds after it, is about approvals: a rollback hidden by
  damage leaves the reflex active.
* The curator marks the sources of a proposal as superseded even if the proposal could not
  be written (`evolution_option_curator.py:187` only logs), and over an approval given
  meanwhile.

* `src/docs/REFLEX_PROMOTION_GATE.md:11` requires a quorum score of 0.70, which the gate
  never looks at; `approve_promotion` (`reflex_promotion_gate.py:87`) does not ask whether
  the pattern is eligible (doc, line 7); `round(..., 2)` at line 149 lets 26 agreements of
  29 (0.897) pass as 90 % (doc, line 9); main.py:190 and 375 build the evaluator without
  a stress guard (`src/docs/MINIMAL_NEURAL_LAYER.md:34`).
* `src/docs/LEDGER_COMPACTION_POLICY.md:29`: corrupt lines are dropped by a compaction,
  and a crash after the truncation loses the retained events too.
* `iafa_transceiver.py:76`: after the cooldown every caller passes the breaker until one
  query ends, where the comment below announces one attempt. `StaleDrainBound` bounds
  the burst.
* `dream_mode.py:292`: refusals of the gate and unparsable answers count like the
  timeouts `src/docs/DREAM_MODE.md` speaks of; a refused preflight counts as a success;
  a local-only session for the reasons `llm_disabled` or `llm_circuit_open` goes on
  sleeping and cycling when there is no new evidence (doc, line 41).
* Empty reflections leave no entry and are not counted as repetitions
  (`src/docs/EXPERIENCE_MINING_LOOP.md:21`).

## 4. Proofs

TLAPS checks the theorems of eight modules. Their assumptions are the named ASSUMEs of
the modules they extend, which TLC evaluates in the runs: limits are naturals or positive,
`FailureCap >= MaxFailures`, and so on. The program has finitely many tasks and the
executor finitely many threads (`IsFiniteSet(Callers)`, `IsFiniteSet(Threads)`), and the
mark for "no task" is no task. Every safety invariant and every action property a run
checks is the statement of a theorem, for all values of the constants.

* `LlmChannelProofs`. `IInv` has four parts, each preserved by itself or on top of the
  one before. `SemInv` is `PermitAccounting` and `QueueMatchesTasks` with the types of
  the queue: neither is inductive alone, since the permit handed to the head of the
  queue is accounted for only if that head is a task that waits. `AttemptInv` relates
  `attempt` and `phase`, and needs `SemInv` to know that the task which gets the permit
  was not making a request. `BreakerInv` relates the counter and the flag; the
  saturation at `FailureCap >= MaxFailures` keeps it inductive. `MiscInv` is the types
  of the rest. From `ChannelInvariant` follow `ChannelTypes`, `ChannelPermit`,
  `ChannelQueue`, `ChannelRetries` and `ChannelBreaker`, for any number of tasks.
  `ChannelDrain` needs more than the bound it proves: `DrainInv` adds to the stale requests
  sent those still to come, a whole budget for each queued query and the rest of its own
  (`Left`) for the one that has the permit. `ChannelServesInOrder` is the safety part of
  the refinement of `RequestLine`: the line is the owner of the permit followed by the
  queue (`LineShape`, from `SemInv`), and one lemma for each way of joining, leaving and
  giving up maps the actions to those of the line.
* `ReflexLedgerProofs`. `LedgerInv` is proved once for the file and then used for the
  orders kept in it, since a step of `ReflexLedger` is a step of `LedgerFile`. `StoredInv`
  says where events may be. `OrderInv` adds to `OrderPreserved` the order inside the
  snapshot and, once the file is truncated, that whatever others append is younger than
  the snapshot which will be written before it. `MoveInv` follows an event through the
  stages of a compaction. `LossInv` is `NothingLost` with the cut line at the end of
  the file, which has still to take its event. `CacheInv` says that the stat a reader took
  is one of the past, and that within one tick the size only grows, so that a stat equal
  to the present one was taken of the present file. `UndamagedInv`, for the orders, says
  that in a file without damage the archives are older than what is in the file; so an
  order the gate cannot see is older than those it reads (`LastOrderDecides`), and what
  the compactor retains decides on fewer reflexes in the same way (`HousekeepingForgets`).
  `GateImplementsRegistry` is the refinement of `ReflexRegistry`, step by step: each order
  given is the youngest (`OrderIsYoungest`) and changes one reflex (`OrderChangesOne`),
  housekeeping forgets, and damage is for ever (`DamageRemains`).
* `DreamSessionProofs`. What the operators on the question ledger return (`LastEntry`,
  `Repetitions`, the next rung) is proved first. `LedgerInv` has to survive entries that
  are missing because their append failed and entries that are gone because they were
  archived, so it says nothing about how many there are. The counts of a question grow
  from entry to entry (`RepetitionsGrow`): they are different numbers up to the limit,
  which bounds the entries. `FailuresStay` says that what a session with the degradation
  recorded as an answer had not failed, or had been answered without it since
  (`Answered`). `AskingInv` says that what was decided about a question still holds when
  its answer is recorded: meanwhile only the compactor changes the ledger, and
  `CompactionKeepsLedger` shows that a suffix of the entries is as good. `CallerInv` ties
  the stage of the session to the phase of its one caller in `LlmChannel`. The composition
  is proved too: a step of Dream Mode is a step of the channel, leaves it alone or starts
  a process with a new one (`DreamStepOfChannel`), so that the channel's own invariants
  hold over any number of sessions (`ChannelHoldsInDreams`).
* `ReflexRoutingProofs`. `FileInv` bounds the age of a line of the shadow ledger by its
  place, and says that the strict reader stops only at a corrupt line. `AgainstInv` follows
  an evaluation against a reflex: it is in the file, or so many younger ones were stored
  that the compactor may have archived it, or a compactor died with it. Both together give
  `RecentDisagreementsShown`. `VouchInv` says that no reflex is active, or has a line of
  its own making, that was never approved; the evidence before a first approval is blind
  because of it.
* `HumanLoopProofs`. `LoopInv` has a part for each concern, over few variables. `DialogInv` adds
  to `DialogAwaited` and `FirstSignalWins` that the future of an open dialog holds the
  user's first signal; most actions neither open a dialog nor take an answer, and one
  lemma about such a `QuietStep` covers them. `FeedbackInv` strengthens
  `FeedbackWasRequested` by counting the requests taken from a dialog and not yet routed
  (`Pending`). `SpacingInv` says that a pulse under way began after the cooldown and that
  the time since the last doubt ended is at most the time since it was shown, from which
  the action property `DoubtsSpaced` follows. `LoopTypes` follows from all of
  the parts; the places of the two tasks, the outcomes and the flags (`PlaceInv`,
  `RecordsInv`, `FlagsInv`) were strengthened for it.
* `TurnProofs`. `ActsOnRecord` and `EffectsAccounted` are not inductive: whether a dialog
  may open depends on what the stage before it recorded. `StageInv` says, for each place a
  turn can stand at, what the audit log has by then: nothing before the dispatch, exactly
  the plan after it, a status that allows the stage, options before a selection. That the
  fast path, dispatched a second time, has stored nothing rests on the score of its fixed
  plan (`FastPlanExecutes`). The lemmas follow the stages; the answers of the LLM enter
  only through `ValidDecision`.
* `SkillPipelineProofs`. Four parts over the same steps. `ApprovalInv`: the console is busy
  during a promotion, so the verdict it rests on stays the last; what the window shows is
  the end of the ledger (`WindowForgetsOnly`), for any window. `CriticalInv` follows
  critical calls from the shelf to the text a rollback would put back. `SavedInv` says
  that from the backup on the shelf's copy can be done without. The assumption that a
  text is neither "absent" nor "cut" keeps the model's marks apart from file contents.
* `AcousticBridgeProofs`. Two invariants that share no variable. `MicrophoneInv`: at most
  one task awaits a recognizer, none while a task records why the bridge is muted, and
  `abandoned` counts exactly the recognizers nobody awaits (`Orphans`). `TextInv`: what
  was received, queued and posted, in this order, is increasing and is all that was spoken
  but not dropped.

Where a proof needs the least or the greatest of a set of numbers, or what a recursive
function computes (`Readable`), it argues by a least counterexample: the library's theorem
that `<` on the naturals is well founded takes sets, not operators, as parameters, so it can
be instantiated. What takes an operator cannot: the model therefore defines `Readable` by a
recursive function and counts the unreadable lines of a file with `Cardinality`.

Only model-checked, being out of TLAPS's reach, is everything temporal beyond an invariant
or a step: `EveryCallEnds`, `BreakerRecovers`, `StopEndsRecognition`, `SessionEnds`,
`ShutdownCompletes`, and the fairness of `RequestLine` in `ServesInOrder`. The three
properties that are violated are counterexamples and stay with TLC too.

## 5. Not modelled, and why

Prompts, the texts of answers and reports, scoring functions (classifier, option
priorities, delegation, quorum, quarantine, intrusion): one input, one output, no state,
and the unit tests cover them. The process contract: nothing the planner, the router and
the dispatcher hand to it is rejected. The Qt layout, and what the example skills compute.
The option queue's curator, for now.

In `DreamSession` and `ReflexRouting` a compaction is one step: how its four steps meet the
appends of others is `LedgerFile`'s subject. A line lost to a compaction under way is in
these modules one that was not written; that a session acted on it in between is not
covered. A compactor that dies over the question ledger, and corrupt lines in
that ledger, which its reader skips, are left out; a line of the shadow ledger cut just
before its newline counts as cut. The limits on failures, cycles and options are the same
for all sessions of `DreamSession`, which compares them with counters of the session only.
In `Turn` an exception after the record of a fast-path dispatch is left out.

Prices of abstraction taken inside the models: damage does not decay (one half-life), a
clock is a saturating counter, archives are assumed to have distinct names, `start()` of
Spark without a loop and a keyboard interrupt outside of the prompt are left out, and a
Spark reflection has one intent. In `Turn` a ledger other than the audit log is writable
for a whole turn or not at all, and the semantic memory, a list in the process, is the
number of records a turn added. In `SkillPipeline` the loader runs a whole file or refuses
it, tests and dependencies are properties of a candidate, and deleting candidates by hand
is left out. In `AcousticBridge` a blank result of the recognizer is no phrase, and the
errors of the consumer's callback, which are recorded, have no effect.

## 6. Plan

In this order; each step adds its hazards' properties and mutants.

1. `OptionQueue`: the queue's "last record of an option", the curator between what it read
   and what it marks, `/approve-evolution` from the console and Dream Mode's appends from
   another process. Properties: an approval is not taken back but by a curation that read
   the option before; what leaves the review is part of a proposal, unless that could not
   be written; one open proposal for each family.
2. Ledger queries: outcomes looked up in the last 50 events, damage with its half-life,
   composed with `HumanLoop`'s doubts.
3. Proofs for whatever the first two steps add; for `OptionQueue`, that approvals are kept
   outside of the curator's window, by the invariant of a ledger in the order of appending.

New components share runs where the question is the same, so that the list stays one run
for each question.
