# Neo Fatum Chatter: specifications

Neo Fatum Chatter (NFC) is a plugin that holds private conversations: it decides
when to answer, waits for answers that may not come, buffers and merges what the
user writes meanwhile, and contacts the user of its own accord. This directory
holds TLA+ models of the parts of it in which order, timing and failure decide
what happens, the TLC configurations that check them, and proofs that TLAPS checks.

- Model checking: `tlc -workers 2 -config <run>.cfg <module>`, for instance
  `tlc -workers 2 -config turn_faults.cfg MCTurnLoop`. The runs are listed below;
  the longest takes some three minutes.
- Proofs: `tlapm TurnLoopProofs.tla`, likewise `ProactiveProofs`, `SessionStoreProofs`,
  `MemoryProofs`, `PayloadProofs`, `RequestsProofs`, `ExecutionProofs`, `DailyLifeProofs`;
  most take some minutes, `PayloadProofs` and `RequestsProofs` about a quarter of an hour.
- `PROJECT.json` says for every definition which lines of the source it models,
  for every property which mutated definition it catches, and lists the hazards.

## 1. Inventory

Every stream (one private chat) has a session, a generator that is its
conversation loop, and a queue of unread messages that the framework fills. All
of it runs on one asyncio event loop, so that code between two `await`s or
`yield`s is atomic, and everything else interleaves.

| Part | Source | State it keeps | Operations |
| --- | --- | --- | --- |
| Conversation loop | `runtime/orchestrator.py`, `runtime/turn_controller.py`, `domain/turn_trigger.py`, `domain/decision.py` | `_LoopState`: pending tool results, final timeout, failures in a row, interrupts in a row, empty-reply retries; the response's payload chain | prepare a turn, send the request, commit the decision, yield `Wait`/`Stop`/`Failure` |
| Unread policy, accumulation, interruption | `runtime/unread_policy.py`, `runtime/message_buffer.py`, `runtime/interrupt_controller.py` | none of their own | prefer real messages to triggers, merge a burst, poll for interrupting messages and cancel the request |
| Waiting and timeouts | `models.py`, `thinker/timeout_handler.py`, `services/timeout_service.py` | `waiting_config`, `consecutive_timeout_count` | set, clear, expire, count, give up |
| Proactive thinker | `thinker/proactive.py`, `domain/proactive_candidate.py`, `domain/intent.py`, `services/proactive_service.py`, two actions | appointment, candidates, intents, `last_proactive_at`; in the thinker `_selected_candidates`, `_selected_intents` | check, claim (`prepare_trigger`), settle |
| Proactive handler | `handlers/proactive_handler.py` | none | validate, start a cold stream, queue the trigger, roll back |
| Session store | `persistence/session_store.py` | cache, per-stream locks, files, index | get, peek, save, lock |
| Session state, chain | `domain/session_state.py` | the whole session; `chain_payloads` with its cut-off | record messages and plans, extend and trim the chain, reset |
| Context sanitizer | `services/context_sanitizer.py` | none | repair role order and call/result pairs of a payload chain |
| Request snapshot | `snapshot.py`, `handlers/request_snapshot_handler.py` | last request of each stream | capture, restore once after a restart |
| Reply execution | `execution/reply_executor.py`, `actions/reply.py` | none | send segments, stream with a fallback |
| Decision parsing, tools | `parser.py`, `protocol/*.py` | flags of one decision | normalise calls, execute in order, collect results |
| Perception loop | `chatter.py`, `protocol/perception_retry.py` | retries of one request | retry a text-only answer |
| Compression, beliefs | `services/compressor.py`, `services/summary_service.py`, `services/belief_service.py`, `domain/beliefs.py` | summary, background tasks, belief book | summarise in the background |
| Context clearing | `handlers/context_clear_handler.py` | clear boundary | stop the loop, reset sessions |
| World, appraisal | `domain/world.py`, `domain/scene_state.py`, `services/appraisal.py` | two registers, scene; `_s1_task`, `respond_not_before` | switch registers, appraise, delay an answer |
| Daily life, memos, habits | `domain/daily_life.py`, `domain/memo.py`, actions | plan items, bounded books | add, revise, remove |
| Drives, character | `domain/drives.py`, `domain/character_card.py` | real-valued drives; revealed facts | decay, react |
| Plugin | `plugin.py` | scheduler tasks | register, recover interrupted sessions |
| Voice calls | `handlers/voice_call_history_handler.py` | none | add a call to the chain |
| Planning, prompts, media, configuration, logs | `context/`, `prompts/`, `multimodal.py`, `config.py`, `mental_log.py`, `debug/` | pending proactive context; the rest is text | build requests |

How they interact. The framework appends to the unread queue and resumes the
generator when a yielded `Wait` runs out or the queue has grown; the loop reads
and flushes the queue. The thinker is a scheduler task that writes the session,
publishes an event, and has the handler append a trigger to the same queue.
Session objects are shared by the loop, the thinker and the handlers; the
store's lock is taken by some of them and not by the loop's `add_user_message`.
Background tasks (appraisal, compression) write the session when they finish.

What is hard, and what makes each part correct:

- **Loop.** Messages arrive at any suspension point; requests fail, are
  cancelled or answer nothing; deadlines pass between two reads of the clock.
  Correct: no message is lost, used before it is saved, or left lying while the
  loop sleeps; wait and turn exclude each other; the bot's own turns are bounded.
- **Proactive contact.** User and clock act between check, claim, validation,
  queueing and settlement; deliveries fail; the process restarts. Correct: one
  attempt per reason at a time, no trace of a failed one, nothing closed is
  reopened, the user is not contacted for what their message has overtaken,
  distance is kept, appointments are served.
- **Session store.** Tasks between load and save, a loop that changes its session
  without the lock, loads and writes that fail, crash, cancellation. Correct: one
  object per stream, no change overwritten by an older one.
- **Chain, sanitizer, snapshot.** Four repairs, three sources of history, retries,
  clears and restarts. Correct: every request can be sent, nothing said is lost or
  told twice, settled turns and cleared ones stay what they are.
- **Reply execution and parsing.** Ids missing or repeated, replies that fail half
  way, calls that wait for others. Correct: what is reported as sent was sent; calls
  run once and in order; the chain stays complete.
- **Compression, appraisal and clearing.** Background jobs and a handler any step of
  which may fail. Correct: what was cleared does not come back; worlds stay apart.
- **Daily life.** Lazy rollover over midnights, unsaved. Correct: what is shown does
  not depend on who looked, and ends when it ends.

`PROJECT.json` lists the hazards line by line, with the properties that watch them.

## 2. Plan

In the order of their weight for the system.

| Step | Modules | State |
| --- | --- | --- |
| the loop all else serves | `TurnLoop`, abstractly `Inbox`, `TurnLoopProofs` | done |
| the other writer of session and queue | `Proactive`, abstractly `Outreach`, `ProactiveProofs` | done |
| what is sent to the model | `Payloads` on `Lists`, `PayloadProofs`; `Requests`, `RequestsProofs` | done |
| what is done with its answer | `Execution` on `Payloads`; `ExecutionProofs` | done |
| cache, lock, files | `SessionStore`, abstractly `Archive`, `SessionStoreProofs` | done |
| what is remembered and cleared | `Memory`, `MemoryProofs` | done |
| the day | `DailyLife`, abstractly `Diary`, `DailyLifeProofs` | done; memos and habits are not |
| books with few places | candidates, intents, memos with their caps | open |
| the start of the plugin | recovery of interrupted sessions | open |

How they compose: `Requests` and `Execution` are two views of one turn on the
operators of `Payloads`; the first sums up a round of calls by its outcome, the second
starts from a few chains. `TurnLoop` sums up both by what comes back. `Memory` and
`DailyLife` take each operation under the store's lock as one step, which
`SessionStore` justifies as long as unused locks are not cleared (section 9). `Proactive`
takes writes as they succeed.

## 3. The conversation loop: `TurnLoop`, `Inbox`

### Correspondence

`TurnLoop` models `execute_orchestrator` and all it calls that decides about control.
`pc` names the suspension point: `top` (before `prepare_turn_input`),
`accumulating` (the buffer's sleep), `building` (a prepared turn before the request,
while prompts are built), `calling` (the model), `cooling` (the pause after an
interrupt), `deciding` (tools and replies are executed), `recalling` (the second
request of an empty reply), `backoff`, and the yields `waiting`, `stopped`, `failed`.
An action is all the code from one of them to the next.

- `Arrive`, `Trigger`, `Expire`, `DeferElapses`, `Start`, `Resume` are the world outside
  the task: the queue, the handler, the clock, the stream loop manager. `grown` is
  what the framework decides by: has the queue grown since the yield?
- `Suppress`, `SuppressTooLate`, `MergeSuppressed`, `Accumulate`, `Followup`, `Timeout`,
  `Idle`, `NothingFresh`, `Defer`, `Ingest` are the branches of `prepare_turn_input`.
- `Send`, `Interrupt`, `CoolDown`, `Respond`, `RetryableError`, `Backoff`, `FatalError`
  are the request; `RetryEmptyReply`, `RetryResponds`, `RetryFails` the second one.
- `CommitNothing`, `CommitTools`, `CommitWait` are `commit_turn_decision`; `Yield` is the
  probe of the queue just before a yield.

A message is its id, and a queue, batch or chain the set of its ids: the loop decides
by membership only. A `Decision` is the record of what the commit reads; any
combination the parser can produce may be returned. Times are reduced to whether a
deadline has passed. With `ClockCrosses` a deadline may also pass between two reads
of the clock within one turn. The chain's cap is above the number of messages here
and not modelled; what prompts, logs and drives contain is left out.

`Inbox` is what the loop promises: a message is queued once, leaves the queue only
after the chain that survives a restart holds it, and never comes back.

### Runs

| Run | Instance | Shows |
| --- | --- | --- |
| `turn_faults` | 3 messages, 1 trigger, every kind of decision, failing requests, delays, `suppress_early_wake`, deadlines between reads | type, `TimeoutsBounded`, `NoTrappedMessage`, `SuppressedQueued`; the loop implements `Inbox` |
| `turn_live` | 2 messages, 1 trigger, no failures, delays, `suppress_early_wake` on or off and changed at any start (`MCTurnLive`) | `EveryMessageSeen`, `ExpiredWaitHandled`, `NotWaitingInFlight`, `NoTurnBesideBuffer` |

`MCTurnLive` runs the loop with either value of `suppress_early_wake`: `execute()` reads the
configuration when it starts (`orchestrator.py:462`) and keeps what it read, so that another
start may find another value. The action of the loop's task is that of `TurnLoop` with the
value read, by `INSTANCE`; the world outside is the same with both.

Bounds. Three messages let one be in flight, one interrupt it and one arrive in the
pause or during the commit; the trigger adds the internal kind. Limits of 2 (timeouts,
failures, interrupts) and 1 (empty retries) are the smallest at which a counter is
below, at and reset from its limit. Failures are checked with the buffer switched on,
because it adds branches and removes none but one; the proofs cover every value of the
switches.

Deadlock is not checked for the loop: with no message left it may stop for good. That it
rests only when nothing is owed is what the two liveness properties say.

Fairness. `WF(Loop)`, in `MCTurnLive` `WF(EitherLoop)`: asyncio runs a task that is ready, and the requests, sleeps and
tools it awaits end. `WF(Expire)`, `WF(DeferElapses)`: the clock advances.
`WF(grown /\ Start)`: the framework starts the loop when a message comes after `Stop`.
Users and triggers have none. Liveness needs a model service that does not fail
(`LLMFaults = FALSE`): with failures a message may rightly stay until the user writes
again, and section 9 shows what else happens then.

## 4. Proactive contact: `Proactive`, `Outreach`

### Correspondence

`session` is the part of `NFCSession` the thinker reads: appointment, switch, status of
each candidate by `dedupe_key`, which candidates were entered for a commitment
(`firm`), which are older than the user's last message (`older`), intents, activity.
`disk` is what was written last; `pc` is where the scheduler's task is between two
suspension points; `picked` and `intended` are the thinker's two dictionaries.

- `UserMessage`, `BotPlans`, `Reschedule`, `CancelSchedule`, `SetEnabled`, `Clear`,
  `AddIntent`, `Promise` are what the conversation does to the session at any time.
- `CheckSchedule`, `CheckDisk`, `CheckIntents`, `CheckAgenda`, `CheckSilence` are the ways
  through `check_all_sessions`; `Expired`, `Upsert`, `Mark`, `Gate` the book's operations.
- `Prepare` is the claim; `Validate`, `Refuse`, `Fail`, `Enqueue`, `Wake`, `Rollback` are
  the handler; `SettleDelivered`, `SettleUndelivered` the settlement.
- `Due`, `Lapse`, `Cool` are the clock; `Crash` restarts the process with `disk`.

Abstractions. What only the next check would ask of the clock or of the plan is chosen
in the check: which candidates have expired, which intent's urge is the highest (a
commitment past its deadline is full), which items are confirmed, whether it is quiet
time, whether the silence is long enough and chance wills. Each choice is one some
passage of time allows. The clock of the platform, from which a message's timestamp is
taken, is assumed not to run ahead of the local one. Two activities within one second
have different keys here. Fewer than 24 candidates exist, so that none is evicted, and
fewer intents than the queue holds. Writes that are awaited succeed; what the
conversation changes may or may not have been written when the process dies.

`Outreach` is the promise: a reason is opened once, claimed by one attempt at a time,
acted upon while claimed, withdrawn and released if the attempt fails, and closed for ever.

### Runs

| Run | Instance (appointments, intents, items, activity, failures, crashes) | Shows |
| --- | --- | --- |
| `proactive_safe` | 1, 1, 1, 1, 1, 0 | type, `OutreachSpec`, `NoStaleContact`, `SpacedOut` |
| `proactive_live` | 1, 0, 0, 1, 1, 1 | `ScheduleServed`, `ClaimResolved` with a failed delivery and a restart |
| `proactive_schedule_lost` | 2, 0, 0, 1, 0, 0 | disagreement, section 9 |

Bounds. One reason of each route present meets the others; one activity makes a second
silence key and a message that overtakes what was claimed; one failure is enough for a
retry of what was already tried. `PlanApart` in `MCProactive` keeps TLC from following
an item of the day's plan where an appointment, a failure or both other gated routes
have come as well: a session with an appointment never looks at the plan, and what the
routes share is the gate and the settlement, in which any two of them meet.
Safety is checked without crashes: with one, a claim that had already reached the user
is reopened after 300 seconds (`Lapse`), and when the time of the contact was not yet
saved the user may be contacted again within `min_interval` (`SpacedOut` fails with
`MaxCrashes = 1`), which the code accepts. Deadlock is not checked because a paused
stream without reasons rests.

Fairness. `WF(Check)`: the scheduler repeats the task. `WF(Handle)`: the task goes on.
`WF(Time)`: the clock advances. A failing delivery is never forced nor endlessly repeated.
`ScheduleServed` allows the appointment to be replaced or removed and the stream to be
paused; `ClaimResolved` leaves out paused streams and those only on disk, which the
code does not tidy.

## 5. One turn: `Payloads`, `Requests`, `Execution`

### Correspondence

`Payloads` has the chain as a sequence of records (role, what its text says, ids of its
calls, ids its results answer) and, as operators on it, everything the plugin does to
one: `Heal` and `Sanitize` (`services/context_sanitizer.py`), `Prepare` and `Repair`
(before and after a request), `Capture` and `Restore` (`snapshot.py`), `Strip`,
`WithDraft`, `RemoveCalls`, `PurgeReply`. `Valid` and `Sendable` are the framework's
validator, taken from how this code writes about it and guards against it.
`Lists` has the list comprehension of Python, `Those`, its slice `Upto`, and its loop with an
accumulator, `Folded`, as recursive functions: the first is `SelectSeq` and the last
`FoldLeft`, of which the prover knows nothing that would help.

`Requests` is one stream's `response.payloads` through turns. `pc`: `idle` (`execute()` does
not run), `ready` (between turns), `sending` (a prepared turn), `flight` (a request is
out), `execute` (its calls are run), `commit`. `chain` is the loop's, `local` the one inside
`_send_with_perceive_loop`, `request` what was sent; `session` and `disk` hold
`chain_payloads` and `request_snapshot` in memory and in the file.

- `Start` builds the first request's context; `NewMessage`, `Followup`, `Timeout` prepare a
  turn; `Attempt` sends, with the view, the note and the snapshot's history.
- `AnswerText`, `AnswerTextLast`, `AnswerCalls` are the model's answers and the bounded
  retry of text; `Execute` is a round of calls by its outcome, `EmptyReply` the second
  request of a reply without content; `CommitTools`, `CommitWait`, `CommitStop` the commit.
- `Fail` and `Fault` are requests that fail, are cancelled or interrupted, `End`, `GiveUp`
  the ends of `execute()`; `Clear` is the clear command, and a crash brings back `disk`.

`Execution` is one answer of the model, call by call. `Answer` gives the calls their ids
(`Standard`), writes them over the assistant's (`Synced`), drops those that miss an
argument and puts off what speaks beside a question (`PutOff`); then each call is run,
collected for later (`FlushDue`) or intercepted, a reply sends its segments one by one,
and any of it may fail, raise, be refused or leave no result. `Finish` and the decision
follow; an empty reply may be asked for once more (`RetryDue`). What kind of call a
name is, and how a content is cut into segments, are inputs.

### Runs

| Run | Instance | Shows |
| --- | --- | --- |
| `requests` | 2 messages, 1 note, 2 call ids, a persisted chain of 2, 2 rounds, 2 faults | `EveryRequestSendable`, `OwnNoteStripped`, `SnapshotFaithful`, `NoMessageTwice`, `RestartKnowsHistory`, `ClearForgets`, `HistoryStable` |
| `execution` | 3 calls of 6 shapes with ids missing, fresh or repeated, on 3 histories | `RoundAddsTurn`, `ReportedIsGot`, `RunInOrder`, `NothingSaidUnread`, `RetryOnlyEmpty` |

Bounds. Two messages, two rounds and a cap of two are the least at which something is
older than the last turn and is cut off by the cap; two faults make a failure during
the repair of a failure, or a restart after a clear. Three calls are the least at which one
stands between two others; two segments the least of which a part is sent. The call ids
of `Requests` are symmetric. `TypeOK` of these two modules, of `Memory` and of
`DailyLife` documents the state and is in no run.

Deadlock is not checked: the bounded supply of messages and calls ends.

## 6. The session store: `SessionStore`, `Archive`

A task is a call of a tool, a handler, the thinker or a job, or a run of the loop. `pc`
says where it is: it waits for the lock (`want`), loads (`load`), writes (`write`), holds the
session without the lock (`open`: only the loop). An object is named after the task that
made it, and its contents are the tasks whose change it holds, so that a lost change
is visible. `EnterCached`, `EnterLoad`, `EnterKeep`, `Loaded`, `NoFile`, `LoadFails`,
`Written`, `WriteFails`, `Turn`, `Cancel` and `Crash` are what happens between two awaits.
`Locks` is the clearing of unused locks by a save when there are more than 100
(`ManyLocks`).

`Archive` is what the others rely on: one session for each stream, changes that everybody
sees at once, a file that grows with them and comes back after a restart, unless it
could not be read.

| Run | Instance | Shows |
| --- | --- | --- |
| `sessions` | 2 streams, 3 tasks, 1 crash, 1 failure | type, `OneObject`, `ArchiveSpec` |
| `sessions_many_locks` | 2 streams, 4 tasks, `ManyLocks`, no crash, no failure | that `Mutex` fails (section 9) |

Bounds. Two tasks compete while a third is between them or on the other stream; one
failing read before a write is what loses a file. For `sessions_many_locks` four tasks are
needed: one releases the lock of a stream that is not in the cache, one waits for it, one saves
on the other stream and clears the lock, and one takes the new lock. Deadlock is not checked: tasks end.
Streams and tasks are symmetric, in `Archive` too. Proved for any number (section 8).

## 7. What is remembered: `Memory`; the day: `DailyLife`, `Diary`

### Correspondence

In `Memory` a record is the set of the times of the messages it tells of. `Prepare`,
`Answered` and `Commit` are the loop's turn as far as it touches memory, `Defer` the turn
put off; an appraisal sits in `slot` until the next harvest (`Harvests`), which shifts the
register and records what it found in the active world (`Framed`, `Shift`, `Recorded`).
`JobStarts`, `JobReads`, `JobWrites`, `JobEnds` are the stretches of a compression between
its awaits; `Quiesce`, `Boundary`, `Reset` the clear handler, whose steps may each fail.
`Forgotten` is what `reset_context` leaves. `stale` remembers that a loop that saw
cleared messages could not be stopped, or began before the reset.

In `DailyLife` a day has a few slots instead of minutes. `Rolled` and `Expired` are
`ensure_day` and `_expire_items`, whose result, `Today`, is what any operation starts from.
`Add`, `Observe`, `Decide` are `manage_schedule`, `State` and `Clear` `update_self_state`,
`Refused` a statement whose end is no time, which saves what is there without rolling it over,
`Look` whatever only reads (and sometimes saves). `Activity` is `current_activity`, whose
sources are `Says` (a statement), `Recent` (an observation) and `PlannedNow` (a plan).
`Diary` keeps entries until their end and knows nothing of days.

### Runs

| Run | Instance | Shows |
| --- | --- | --- |
| `memory` | 4 messages and clears, 1 compression at a time, rounds of 2, 1 story kept | `NoOldSummary`, `CleanAfterClear`, `StoryThere`, `FactsApart` |
| `memory_old_facts` | the same | disagreement, section 9 |
| `daily_life` | 3 items, days of 3 slots, 2 midnights, lists of 2 and 1 | `SavedIsSeen`, `NotOver`, `PlaceBacked`, `DiarySpec` |

Bounds. Four ticks are a story with two batches, a clear and what comes after it; one
kept story makes the archive overflow. Three slots are the fewest at which a plan can
run through midnight and still end before it could start again; after two midnights a
plan of the first evening that nobody looked at must be gone; three items push one out
of a list of two. The plans made are of two kinds (without an end of their own, through
midnight), statements may end at any slot or none; the proofs of section 8 leave plans
free, those without times included.

Deadlock is not checked in either: their clocks are bounded.

Fairness. None in sections 5 to 7: what is asked there is that nothing wrong is sent,
kept or shown. Whether a request is ever made is the loop's affair (section 3).

## 8. What is proved

`TurnLoopProofs`, for any sets of messages, decisions, limits and switches, from the
assumptions named in `TurnLoop` (messages and triggers are disjoint, limits are naturals,
switches are Booleans):

| Theorem | Says | Argument |
| --- | --- | --- |
| `TypeCorrect` | `Spec => []TypeOK` | one step per action |
| `TimeoutsCorrect` | `TimeoutsBounded` | inductive with the types: a wait is granted only below the limit |
| `NothingTrapped` | `NoTrappedMessage` | inductive with the types: every yield probes the queue, and afterwards only arrivals change it, which set `grown` |
| `QueueCorrect` | `QueueInv` | see below |
| `BufferQueued` | `SuppressedQueued` | part of `QueueInv` |
| `InboxImplemented` | `Spec => InboxSpec` | with `QueueInv` every action is a step or stutter of `Inbox` |
| `WaitCorrect`, `WaitsApart`, `BufferApart` | `NotWaitingInFlight`, `NoTurnBesideBuffer`, if not `ClockCrosses` | `WaitInv` |

`QueueInv` is the strengthening the refinement needs: the users' messages of the turn in
preparation are queued, those of a turn that is being sent are queued and in the chain, the
buffered ones are queued, and nothing is both queued and flushed. Without it a flush could
not be known to take only saved messages. `WaitInv` says that there is no wait and no buffer
while a turn is in flight or tool results are pending, and no tool results are pending while
a turn is in flight: the turn that follows the results clears neither. It needs that no
deadline falls between two reads of the clock. With `ClockCrosses` an empty turn can start
beside the buffer.

`SessionStoreProofs`, for any sets of streams and tasks, any numbers of crashes and
failures, as long as unused locks are not cleared (`~ManyLocks`):

| Theorem | Says | Argument |
| --- | --- | --- |
| `TypeCorrect` | `TypeOK` | part of `IInv` |
| `NoOldCopy` | `OneObject` | part of `IInv` |
| `ImplementsArchive` | `Spec => ArchiveSpec` | with `IInv` every step is one of `Archive` or none |

`IInv` adds to types and mutual exclusion (`Mutex`, which without the clearing is what
`asyncio.Lock` gives): while a task loads, nobody has an object of the
stream (`LoadsOnce`); an object belongs to the stream it is cached for (`Owned`); who holds
a session holds the cached one (`Held`); there is one lock (`OneLock`); what is being
written is no older than the file (`Writes`, `Files`). `OneLock` is what fails with the
clearing.

`ProactiveProofs`, for any numbers of appointments, intents, items, activities and failures:

| Theorem | Says | Argument |
| --- | --- | --- |
| `TypeCorrect` | `Spec => []TypeOK`, with crashes | `TypeInv`: with the types, who holds a claim where |
| `NeverStale` | `Spec => NoStaleContact`, with crashes | the trigger is queued in the step of the second validation, which sees whatever came before it; the types say that it is the claim that is queued |
| `KeepsDistance` | `Spec => SpacedOut`, if `MaxCrashes = 0` | `Calm` |
| `ImplementsOutreach` | `Spec => OutreachSpec`, if `MaxCrashes = 0` | with `IInv` every step is one of `Outreach` or none |

The steps are summed up before they are used: whatever a check does only tidies (`Tidier`: a
candidate is entered, gated, expired or cancelled) and selects at most one that may be acted
upon (`Selects`); whatever the conversation does only cancels (`Talks`). `IInv` adds to the
types: only the claim in flight is `dispatching`, so that one attempt holds at most one
reason (`OneClaim`); a reason that was acted upon is closed, or is just being settled
(`MadeOnce`); lately contacted is cooling, or is just being settled, and what is selected or
claimed was let through while nothing was cooling, or is exempt (`Calm`). Without `MadeOnce`
a claim could not be known to be the first that is acted upon, which is what `Outreach`
asks. Both need that the process does not crash: a crash brings back a claim and an unsaved
time, so that a reason that had reached the user is reopened 300 seconds later (section 4).

`MemoryProofs`, for any numbers of messages, clears and compressions:

| Theorem | Says | Argument |
| --- | --- | --- |
| `SummaryForgets` | `NoOldSummary` | a job that reads after the clear reads new messages, and one that began before it writes nothing |
| `RegisterHasStory` | `StoryThere` | every event that makes the register `story` finds or makes one |
| `ClearedIsGone` | `CleanAfterClear` | `Clean` |
| `RecordedOnce` | `FactsApart` | `Apart` |

`Clean`: unless the handler failed to stop a loop, what is unread, in the context or in the
view of a loop is newer than the clear, and while a clear is under way no loop runs with
what it is about to forget. `Apart`: the scene, the story and the archived ones are
disjoint, and neither an unread message nor one of an appraisal that is still to be
harvested is told of in any of them, so that what comes next is new to all. The first says
why the handler has to stop the loop before it resets the session, the second why an
appraisal must be taken from its slot as it is applied.

`PayloadProofs`, for all chains. The library's induction takes a predicate, which no
prover here can put one in for. `PayloadProofs` starts from the library's theorem that `<` is
well founded and from that of the minimum of a set instead: a set of naturals that has 0 and
the next of each has all (`SetInduction`), a function defined by recursion on a natural
exists (`Recursion`), and `Those` picks, in order and without repetition, the elements that
pass (`OnlyPicks`, `OnlyFacts`). `DailyLifeProofs` starts with the same three parts, being about
the same lists and no chain.

| Theorem | Says | Argument |
| --- | --- | --- |
| `SanitizedSendable` | the sanitizer makes of any chain one that is `Sendable` | `Sound` |
| `PreparedOnce` | preparing a chain twice is preparing it once | `SettledPrepared` |
| `CapturedIsRestored` | a settled chain is captured and restored with all it says and all its turns | `Groups` |

`RequestsProofs`, for any numbers of messages, notes, calls, answers and faults, under
`RequestsAssumption` (messages and notes are told apart by their text, and from the words the
plugin puts in):

| Theorem | Says | Argument |
| --- | --- | --- |
| `TypeCorrect` | `Spec => []TypeOK` | part of `IInv` |
| `NotesAreStripped` | `OwnNoteStripped` | `ChainOK` |
| `ForgetsForGood` | `ClearForgets` | all parts of `IInv` |
| `OneNoteARequest` | of the notes of this process a request has its own only | `RequestOK` |
| `RequestsCanBeSent` | `EveryRequestSendable` | `SInv`, with `IInv` |
| `SnapshotIsFaithful` | `SnapshotFaithful` | `Captured`, with `SInv` and `IInv` |
| `RestartsKnowHistory` | `RestartKnowsHistory` | `KInv`, with `Captured`, `SInv` and `IInv` |
| `NothingToldTwice` | `NoMessageTwice` | `TellInv`, with `Captured`, `SInv` and `IInv` |
| `HistoryKept` | `HistoryStable` | `HoldInv`, with `TellInv`, `Captured`, `SInv` and `IInv` |

A vocabulary W is a set of texts, `Chains(W)` are the chains that say nothing else. Every
operator of `Payloads`, also those that loop over a chain (`SanitizeFacts`, `RepairFacts`,
`RestoreFacts`), makes of chains of W one of W, if W has the plugin's own words, and `StripFacts`
takes a note out of it. `IInv` gives each part of the state its vocabulary: nothing says a
message of before the last clear or a note still to come; a request says, of the notes of this
process, its own only, because the local response that a retry sends back still has it; the
chain, the persisted chain and the text of the turn say none. The snapshot may say all of
them, since it is captured with the note in it: that is harmless as long as the process runs,
because it is not restored a second time (`SessionOK`), and it is why a note that is sent
again is from before a restart. TLC checked `IInv` on the instance of `requests` first.

What makes a chain one that can be sent is said pairwise, so that it can be kept by
steps: in a `Settled` chain an assistant comes after a user or a result (`Follows`), a result
belongs to the group of one assistant whose calls it answers and which no other result answers
(`Owned`), and every call is answered in its group (`Met`). `SettledSendable` leads from there
to `Sendable`. `Sound` is what the sanitizer's loop keeps: the chain made so far is settled but
for the open calls, which are those of its last assistant, and nothing but pinned payloads and
results came after that. It holds whatever goes in, so `SanitizeSettles` has no hypothesis
about the chain. In a settled chain there is nothing to heal, to merge or to part
(`SettledHealed`, `SettledRepaired`, `SettledPrepared`), which gives `PreparedOnce`: a chain that
is prepared before each request and after each turn stays the same, and the provider's cache
of its prefix valid.

That the model never has the last word needs more, because the sanitizer does not see to it:
a chain of pinned payloads, or one that ends with an answer, passes it. A chain is `Ready` for a note
if it is settled, its pinned payloads come first (`Fronted`), who speaks first is a user who
says nothing of the note (`Greets`), and who speaks last is a user or a result. `Greets` is there
because the note is taken out again: without another user before it the first answer would be
left without a greeting, and be dropped. `SInv` says where this holds: the request in flight, and the
local chain that is sent again, are ready for their note (`Sending`); the loop's chain is
settled and greeted while a request is made of it, and without a note somebody asks in it
(`Reading`); the calls to be run come last, after a chain that is ready (`Called`); when the
model is asked to read on, some result survives the sanitizer (`Decided`); the snapshot still to be
restored says nothing of the note (`Unread`). The hard cases are the rounds in which calls
fail or are put off: `ExecutedFacts` and `RoundPrepared` show that what is left of the last
assistant has all its results, or that the assistant goes and the word before it is the last. TLC
checked `SInv` on the instance of `requests` first, with `q` in `Called` the chain without its
last payload.

The next two compare chains. Of a settled chain the turns are its `Groups`: its assistants
with calls, in order, because every call is answered and in its group (`SettledTurns`). That
makes turns a thing one can count on through an append, a filter, a merge of neighbours and
the repairs (`GroupsAppend`, `GroupsOnly`, `GroupsConcat`, `SettledKeeps`). `Captured`: as long
as a request is in flight, the snapshot is the one taken of it and the stream counts as
restored. `KInv` follows the conversation a process was started with: until the first attempt
it is what the snapshot would bring back; from the first attempt until one ends it is in
the request in flight, or in the local chain that is sent again. That the stream counts as
restored from the first attempt on, and not from the first answer, is why the property ends
with an attempt that fails. TLC checked both on the instance of `requests` first.

That no message is told twice relates the three places a text can come back from, and none of
them is safe alone. `Recalls` says of two chains that the users of the second say of the messages
what users of the first do, in the same order; every sanitizer, repair, capture and
restore, and the purge of a reply, recalls its chain (`StepEcho`, `RejoinEcho`, `RestoredRecalls`),
so each of them tells as little as its chain (`TellsRecalls`). What remains are the places where two
sources meet, which `TellInv` is about. History that is still to be put in and the loop's
chain tell nothing in common (`ChainTells`), since `execute()` starts without the persisted chain as
long as a snapshot is to be restored, and what arrives afterwards is new to both
(`InputTells`, `InjectTells`). The persisted chain is given the text of a turn before its request:
that text is the last user's, so the invariant follows the last text of the chain through every
repair and through the note that is put after it and taken out again (`LastText`, `Echoes`,
`RequestTells`). Either it is what was persisted of this turn already, or it has a message that is
new, and then it has all of the earlier text it was merged with (`TurnSaved`, `Covers`,
`PreSaveTells`): this is where the exception in the property comes from. TLC checked `TellInv` on
the instance of `requests` first.

That the history stays is about the turns of a chain that is not settled, in the middle of a
round. `HoldInv` says what such a chain has kept. At `ready` the chain is `Held`: its calls are
met, and it starts with a settled chain that has all its turns but at most one (`After`). At
`commit` it is a `Round` of a settled chain: that chain, the calls of the answer that are left, and
the results of those that were run. The request in flight, and the local chain that is sent
again, carry the loop's chain (`Carries`): they have what it tells and start with its turns, and
taking the note out again loses no message, because no text of a user mixes the two (`Bare`).
Until the snapshot is restored the chain has no calls (`Uncalled`), so that history put in before
it comes before no turn. Two chains are compared by `Stays`, the turns but the last one being a
prefix. Preparing keeps the turns of a settled chain at the start, whatever follows it
(`SanitizeKeeps`, `HealStarts`, `HeldPrepared`); a round touches its own group only (`RoundHeld`,
`RoundPurged`); an answer to a request is put after what the loop's chain carried into it
(`ContinuedCallsKeep`). TLC checked `HoldInv` on the instance of `requests` first.

`ExecutionProofs`, for answers of any number of calls, any ids and any histories, under `ExecutionAssumption` (generated ids are
distinct and the provider gives none of them, `GivenIds`; the histories are prepared, with the
pinned payloads first and a user in them, as a request is):

| Theorem | Says | Argument |
| --- | --- | --- |
| `ReportsWhatWasGot` | `ReportedIsGot` | `Honest`: what was reported so far, with what the reply under way has sent, is what the user got |
| `SaysNothingUnread` | `NothingSaidUnread` | `Quiet`: once the model asks, no call that speaks is left in the round |
| `RunsInOrder` | `RunInOrder` | `Ordered`: what has run and what is queued, one after the other, are calls passed so far, in their order; what is queued does not speak. `Taken`: they are all the calls passed so far that have their arguments. `Fates`, see below: only such calls fail |
| `RoundsAddTurn` | `RoundAddsTurn` | `ChainInv`, `Fates`, `RoundInv`, `Whole` |
| `RetriesOnlyEmpty` | `RetryOnlyEmpty` | `Spared`, `Blank`: while no reply broke none is among the failed calls, and in a mute round the replies passed so far had nothing to say |

`RunInOrder` speaks of the calls that were not put off: when a decision is made each of them
that has its arguments has run, once, and the others have not. The calls that failed are
no longer in the list then, so that what has run is compared with those that are left and the
failed ones together. `Ordered` is what makes the queue of collected calls sound: that it is
flushed before whatever speaks is needed at each call, not only in the end.

`RoundAddsTurn` compares the chain before a round with the one after, of whatever number of calls.
A call that has no result yet has failed, is queued or is still ahead (`Owing`), and each of these
is a call of the round, was not passed over twice and had its arguments (`Fates`). `RoundInv`
says that the chain is then in the state the sanitizer's loop keeps (`Sound`), with what is
owing as the open calls: the answer's payload with only results of its calls after it, and before
it the turns that were there (`Begun`). A step answers some of what is owing, so that at the end
of the round only the failed are left, whose removal settles the chain (`FinishSettles`): that is
`Whole`. What the loop then does with the chain, the retry of an empty reply included, keeps
`ChainInv`: the pinned payloads come first, the user speaks, and a chain the model is asked with is
settled. An answer none of whose calls has an id loses its payload before the parser runs (`own` is
false); the property does not speak of it.

`DailyLifeProofs`, for days of any length, lists of any size, any plans and any number of
midnights, under `DailyLifeAssumption`:

| Theorem | Says | Argument |
| --- | --- | --- |
| `TypeCorrect` | `Spec => []TypeOK` | `Possible` |
| `NothingShownLate` | `NotOver` | `Possible`: what survives a rollover has not ended |
| `PlaceHasGround` | `PlaceBacked` | `Founded` |
| `RestartShowsTheSame` | `SavedIsSeen` | `Alike` |
| `KeepsTheDiary` | `Spec => DiarySpec` | with `IInv` every step is one of `Diary` or none |

`Possible`: both lives, in memory and on disk, are ones the code can make at this time:
lists in the order of their ids and within their caps, at most one statement, stamps that
fit the times, no date in the future. `Founded`: the place of a statement has its statement
in the list, or that was pushed out. `Alike`: the two lives show the same at this moment and
at every later one; the present alone is not inductive, because time passes without anybody
looking. The heart of it is `LookLater`: a look before a time does not change what a look at
that time shows, however many midnights lie between; with it a look that is not saved, which
changes memory only, keeps the two alike. `SameDiary`: the same goes on in both, which the
refinement needs for a restart. The refinement rests on `Going`, the plans neither called
off nor ended, being what a look leaves alone: what the rollover or the expiry removes has
ended, or its day has (`GoingLooked`, `GoingOn`).

Only model-checked:

- `OutreachSpec` and `SpacedOut` do not hold with crashes; the properties of `SessionStore` do not with
  `ManyLocks`.
- all liveness (`EveryMessageSeen`, `ExpiredWaitHandled`, `ScheduleServed`, `ClaimResolved`), because
  the prover handles neither `ENABLED` nor weak fairness of compound actions.

## 9. Where code and documentation disagree

Three are runs that must fail.

- `proactive_schedule_lost`: the tool's description says an appointment is kept until it
  is replaced or cancelled. `settle_trigger` removes whatever appointment the session has
  when another contact is settled, also one made in between.
- `memory_old_facts`: a clear is said to take back the session's context and to stop the old
  runtime first. Neither `reset_context` nor the handler touches `_s1_task`: the appraisal of
  a batch from before the clear is harvested by the next turn, and its facts come back.
- `sessions_many_locks`: `lock()` is said to make the reads and writes of a stream follow
  one another (`session_store.py:46`). With more than 100 locks a save clears those that are not
  locked and whose stream is not cached (`session_store.py:180`), also one that was just released
  and has a waiter: asyncio hands the lock over only when the waiter runs. The next caller makes a
  new lock, and two tasks are between get and save of one stream.

The others are stated in the modules, each with the words it is taken from, and are
reproduced by checking the property in the run's instance with the change given.

| Property | In | What the code does |
| --- | --- | --- |
| `OnlyNewInterrupts` (`TurnLoop`) | `turn_live`, with `LLMFaults = TRUE` | a message of a failed request, unread and in the chain, is not among the known ids of the next one and cancels it (`unread_policy.py:89`) |
| `ExpiredWaitHandled` (`TurnLoop`) | `turn_live`, with `LLMFaults = TRUE` | such a message makes a timeout look like new messages; nothing is fresh, and the loop waits without a deadline (`src/README.md:123`) |
| `DroppedStaysDropped` (`TurnLoop`) | `turn_live` | a buffered trigger is dropped from the queue and merged from the buffer (`unread_policy.py:58`) |
| `FiredWasContacted` (`Proactive`) | `proactive_safe`, no items | an intent left in `_selected_intents` by a failed delivery is marked as fired by the next contact (`proactive.py:47`) |
| `NoStaleNote` (`Requests`) | `requests` | the note of a request is in its snapshot, and after a restart in every request (`MECHANISM.md:197`) |
| `FailedReplyNotReported` (`Execution`) | `execution` | a reply that left no result is reported with that of an earlier one of the same id (`tests/test_parser_execution.py:192`) |
| `OneCompression` (`Memory`) | `memory`, 2 jobs, 3 ticks | the trigger for an empty summary looks neither at a running job nor at the mark (`compressor.py:69`) |
| `PlaceEnds` (`DailyLife`) | `daily_life` | a statement pushed out of the list leaves its place behind (`test_world_fusion_contract.py:391`) |
| `NotEarly` (`DailyLife`) | `daily_life` | a plan through midnight is shown in the morning before it starts (`daily_life.py:237`) |

Met while modelling, without a property of their own:

- Loop: a retry after a backoff and a tool follow-up can both be replaced by an untimed
  wait, for the reason of `ExpiredWaitHandled` above.
- Proactive: a topic that is promised later keeps the route a message cancels; a
  commitment's urge passes the threshold hours before its deadline; a stream paused
  between claim and queueing is still contacted; a cancelled candidate at the head of the
  intent queue hides those behind it.
- Requests: when the first attempt after a restart fails, the stream counts as restored and
  its history is gone from the loop; the prompt of an empty-reply retry is persisted as
  the user's text in a follow-up; a perception retry with a view shows its note twice.
- Execution: a reply that raised or was not run counts as one without content, and the model
  is told so; the draft of an unsent perception is looked for in the whole chain; when no
  call of an answer has an id, the calls of an older turn are overwritten; an exception
  half way through a reply takes what was sent out of the record.
- Memory: the count of register mismatches survives a clear; rounds that end while a
  compression runs are zeroed; facts appraised in one register are recorded in the other
  when it has shifted meanwhile.
- Daily life: an observation of 23:50 is forgotten at midnight; finished plans take places in
  the list, so that open ones are pushed out; an `idempotency_key` of a plan makes an
  observation with it return the plan.

## 10. Not modelled

See `components` in `PROJECT.json` for each part. Prompt building, media conversion,
provider formats, configuration declarations and logging have no control that the
properties tell apart; drives and urges are real-valued and enter as nondeterministic
choices; memos, habits and the character card are texts that one call edits; the plugin's
start decides by the age of messages in the framework's database. The framework (queue,
stream loop, scheduler, event bus, payload validator, database) is external and modelled
by how this code uses it.
