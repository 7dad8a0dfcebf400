------------------------------ MODULE TurnLoop ------------------------------
(***************************************************************************)
(* The conversation loop of one private chat stream: the generator         *)
(* execute_orchestrator (runtime/orchestrator.py), the turn preparation    *)
(* and commit it calls (runtime/turn_controller.py), the unread policy,    *)
(* the interruptible request and the wait/timeout rules.                   *)
(*                                                                         *)
(* The loop is one asyncio task.  A step of this module is the code        *)
(* between two points where the task may be suspended and another task     *)
(* (the framework receiving a message, the proactive handler, a timer)     *)
(* may run; `pc' names the suspension point.                               *)
(*                                                                         *)
(* Time is abstracted to whether a deadline has passed.  A message is its  *)
(* id; a chain, a queue or a batch is the set of the ids in it, because    *)
(* the loop decides by membership only.                                    *)
(***************************************************************************)
EXTENDS Naturals

CONSTANTS
    Users,             \* ids of messages the user may send
    Triggers,          \* ids of internal proactive triggers ("proactive_...")
    Decisions,         \* the decisions the model may take, see Decision
    MaxTimeouts,       \* wait.max_consecutive_timeouts
    MaxFailures,       \* general.max_consecutive_llm_failures, 0 = no limit
    MaxInterrupts,     \* buffer.max_consecutive_interrupts
    MaxEmptyRetries,   \* general.max_empty_reply_retries
    InterruptEnabled,  \* buffer.interrupt_enabled
    SuppressEarlyWake, \* wait.suppress_early_wake
    DeferEnabled,      \* appraisal.enabled and appraisal.defer_enabled
    LLMFaults,         \* may a request raise?
    ClockCrosses       \* may a deadline pass between two reads of the clock?

Message == Users \cup Triggers

(***************************************************************************)
(* What commit_turn_decision reads of a Decision.  A visible, failed or    *)
(* infra-failed reply is a reply; silence is do_nothing without a reply;   *)
(* calls of information tools are third-party calls.                       *)
(***************************************************************************)
Decision ==
    {d \in [meaningful : BOOLEAN, reply : BOOLEAN, visible : BOOLEAN,
            failed : BOOLEAN, infra : BOOLEAN, silence : BOOLEAN,
            info : BOOLEAN, third : BOOLEAN, wait : BOOLEAN] :
        /\ d.reply \/ d.silence \/ d.info \/ d.third => d.meaningful
        /\ d.visible \/ d.failed => d.reply
        /\ d.infra => d.failed
        /\ d.silence => ~d.reply}

ASSUME MessageAssumption == Users \cap Triggers = {}
ASSUME DecisionAssumption == Decisions \subseteq Decision
ASSUME LimitAssumption ==
    /\ MaxTimeouts \in Nat /\ MaxFailures \in Nat
    /\ MaxInterrupts \in Nat /\ MaxEmptyRetries \in Nat
ASSUME SwitchAssumption ==
    {InterruptEnabled, SuppressEarlyWake, DeferEnabled, LLMFaults, ClockCrosses}
        \subseteq BOOLEAN

VARIABLES
    unread,        \* the framework's unread queue of the stream
    flushed,       \* messages moved from unread to the history
    grown,         \* has unread grown since the loop yielded?
    waiting,       \* session.waiting_config: "no", "armed" or "expired"
    timeouts,      \* session.consecutive_timeout_count
    suppressed,    \* session.suppressed_messages
    appraising,    \* is there a task in session._s1_task?
    deferred,      \* is session.respond_not_before in the future?
    context,       \* is session.pending_proactive_context set?
    chain,         \* ids in the user entries of session.chain_payloads
    pc,            \* where the loop is suspended
    wake,          \* what the yielded Wait waits for
    payload,       \* ids found in the text of response.payloads
    turn,          \* unread_msgs of the current turn
    kind,          \* what the current turn was prepared for
    known,         \* known_ids of the request in flight
    interruptible, \* is the request sent through _send_interruptable?
    interrupters,  \* interrupt_msgs
    pendingTools,  \* loop_state.has_pending_tool_results
    finalTimeout,  \* loop_state.is_final_timeout
    failures,      \* loop_state.consecutive_llm_failures
    interrupts,    \* loop_state.consecutive_interrupts
    retries,       \* loop_state.empty_reply_retries
    seen           \* history variable: ids a completed request has carried

queueVars   == <<unread, flushed>>
waitVars    == <<waiting, timeouts, suppressed>>
s1Vars      == <<appraising, deferred>>
turnVars    == <<turn, kind, known, interruptible, interrupters>>
counterVars == <<failures, interrupts, retries>>
vars == <<unread, flushed, grown, waiting, timeouts, suppressed, appraising,
          deferred, context, chain, pc, wake, payload, turn, kind, known,
          interruptible, interrupters, pendingTools, finalTimeout, failures,
          interrupts, retries, seen>>

FlagTypeOK ==
    /\ grown \in BOOLEAN
    /\ appraising \in BOOLEAN /\ deferred \in BOOLEAN /\ context \in BOOLEAN
    /\ interruptible \in BOOLEAN
    /\ pendingTools \in BOOLEAN /\ finalTimeout \in BOOLEAN

DataTypeOK ==
    /\ unread \subseteq Message /\ flushed \subseteq Message
    /\ waiting \in {"no", "armed", "expired"}
    /\ timeouts \in Nat
    /\ suppressed \subseteq Message
    /\ chain \subseteq Message
    /\ pc \in {"top", "accumulating", "building", "calling", "cooling",
               "backoff", "deciding", "recalling",
               "waiting", "stopped", "failed"}
    /\ wake \in {"message", "session", "defer"}
    /\ payload \subseteq Message /\ turn \subseteq Message
    /\ kind \in {"none", "user", "followup", "timeout", "empty"}
    /\ known \subseteq Message
    /\ interrupters \subseteq Message
    /\ failures \in Nat /\ interrupts \in Nat /\ retries \in Nat
    /\ seen \subseteq Message

TypeOK == FlagTypeOK /\ DataTypeOK

Init ==
    /\ unread = {} /\ flushed = {} /\ grown = FALSE
    /\ waiting = "no" /\ timeouts = 0 /\ suppressed = {}
    /\ appraising = FALSE /\ deferred = FALSE /\ context = FALSE
    /\ chain = {}
    /\ pc = "stopped" /\ wake = "message"
    /\ payload = {} /\ turn = {} /\ kind = "none" /\ known = {}
    /\ interruptible = FALSE /\ interrupters = {}
    /\ pendingTools = FALSE /\ finalTimeout = FALSE
    /\ failures = 0 /\ interrupts = 0 /\ retries = 0
    /\ seen = {}
-----------------------------------------------------------------------------
(* The framework and the other tasks.                                      *)

\* The user sends a message: the framework appends it to the unread queue.
Arrive(m) ==
    /\ m \in Users \ (unread \cup flushed)
    /\ unread' = unread \cup {m}
    /\ grown' = TRUE
    /\ UNCHANGED <<flushed, waitVars, s1Vars, context, chain, pc, wake, payload,
                   turnVars, pendingTools, finalTimeout, counterVars, seen>>

\* ProactiveHandler._wake_stream: context and trigger are set under one lock,
\* then the wait state is removed so that the next tick resumes the loop.
Trigger(p) ==
    /\ p \in Triggers \ (unread \cup flushed)
    /\ unread' = unread \cup {p}
    /\ context' = TRUE
    /\ grown' = TRUE
    /\ UNCHANGED <<flushed, waitVars, s1Vars, chain, pc, wake, payload,
                   turnVars, pendingTools, finalTimeout, counterVars, seen>>

\* The deadline started_at + max_wait_seconds passes.
Expire ==
    /\ waiting = "armed"
    /\ waiting' = "expired"
    /\ UNCHANGED <<queueVars, grown, timeouts, suppressed, s1Vars, context, chain,
                   pc, wake, payload, turnVars, pendingTools, finalTimeout,
                   counterVars, seen>>

\* The instant respond_not_before passes.
DeferElapses ==
    /\ deferred
    /\ deferred' = FALSE
    /\ UNCHANGED <<queueVars, grown, waitVars, appraising, context, chain, pc,
                   wake, payload, turnVars, pendingTools, finalTimeout,
                   counterVars, seen>>

\* The stream loop calls execute() again after Stop or Failure: the response
\* chain is rebuilt from session.chain_payloads and _LoopState starts afresh.
Start ==
    /\ pc \in {"stopped", "failed"}
    /\ unread # {}
    /\ pc' = "top"
    /\ payload' = chain
    /\ pendingTools' = FALSE /\ finalTimeout' = FALSE
    /\ failures' = 0 /\ interrupts' = 0 /\ retries' = 0
    /\ UNCHANGED <<queueVars, grown, waitVars, s1Vars, context, chain, wake,
                   turnVars, seen>>

\* The framework resumes a yielded Wait when the unread count has grown beyond
\* its value at the yield, or when the time the Wait carries has run out; its
\* clock is not the session's, so that may be before the session's deadline.
Resume ==
    /\ pc = "waiting"
    /\ grown \/ wake # "message"
    /\ pc' = "top"
    /\ UNCHANGED <<queueVars, grown, waitVars, s1Vars, context, chain, wake,
                   payload, turnVars, pendingTools, finalTimeout, counterVars,
                   seen>>
-----------------------------------------------------------------------------
(* Yields, and what a turn takes from the queue.                           *)

\* Mutant: a Wait without its time.
SuspendUntimed(w) == pc' = "waiting" /\ wake' = "message" /\ grown' = FALSE

Suspend(w) == pc' = "waiting" /\ wake' = w /\ grown' = FALSE
End(state) == pc' = state /\ grown' = FALSE /\ UNCHANGED wake

\* Mutant: the whole queue is flushed instead of the batch.
FlushAll(batch) == unread' = {} /\ flushed' = flushed \cup unread \cup batch

Flush(batch) == unread' = unread \ batch /\ flushed' = flushed \cup batch

\* prefer_real_unreads: when real messages and triggers meet, the triggers are
\* flushed and only the real messages are used.
Preferred == IF unread \cap Users # {} THEN unread \cap Users ELSE unread
Prefer == Flush(unread \ Preferred)

\* Mutant: a message takes one off the timeout count instead of resetting it.
AcceptCountingDown(batch) ==
    /\ turn' = batch /\ kind' = "user"
    /\ timeouts' = timeouts - 1 /\ waiting' = "no"
    /\ pendingTools' = FALSE
    /\ pc' = "building"

\* Mutant: clear_waiting is forgotten.
AcceptStillWaiting(batch) ==
    /\ turn' = batch /\ kind' = "user"
    /\ timeouts' = 0 /\ UNCHANGED waiting
    /\ pendingTools' = FALSE
    /\ pc' = "building"

\* The turn is given a batch of messages: add_user_message for each (which
\* resets the timeout count) and, if the session was waiting, clear_waiting.
Accept(batch) ==
    /\ turn' = batch /\ kind' = "user"
    /\ timeouts' = 0 /\ waiting' = "no"
    /\ pendingTools' = FALSE
    /\ pc' = "building"
-----------------------------------------------------------------------------
(* prepare_turn_input, entered at the top of the loop.                     *)

\* While waiting, new messages are only collected into suppressed_messages.
Suppress ==
    /\ pc = "top" /\ SuppressEarlyWake
    /\ Preferred # {} /\ waiting = "armed"
    /\ Prefer
    /\ suppressed' = suppressed \cup Preferred
    /\ finalTimeout' = FALSE
    /\ Suspend("session")
    /\ UNCHANGED <<waiting, timeouts, s1Vars, context, chain, payload, turnVars,
                   pendingTools, counterVars, seen>>

\* The same branch when the deadline passes between the timeout check and the
\* computation of the remaining time: no signal, no continue, an empty turn.
SuppressTooLate ==
    /\ pc = "top" /\ SuppressEarlyWake /\ ClockCrosses
    /\ Preferred # {} /\ waiting = "armed"
    /\ Prefer
    /\ suppressed' = suppressed \cup Preferred
    /\ waiting' = "expired"
    /\ turn' = {} /\ kind' = "empty"
    /\ finalTimeout' = FALSE
    /\ pc' = "building"
    /\ UNCHANGED <<grown, timeouts, s1Vars, context, chain, wake, payload, known,
                   interruptible, interrupters, pendingTools, counterVars, seen>>

\* _build_suppressed_batch_turn, entered with new messages once the session no
\* longer waits, or at the timeout with nothing new.
MergeSuppressed ==
    /\ pc = "top" /\ suppressed # {}
    /\ IF Preferred # {} THEN SuppressEarlyWake /\ waiting # "armed"
                         ELSE ~pendingTools /\ waiting = "expired"
    /\ Prefer
    /\ suppressed' = {}
    /\ finalTimeout' = FALSE
    /\ LET batch == (suppressed \cup Preferred) \ payload
       IN  \/ /\ batch # {}
              /\ Accept(batch)
              /\ UNCHANGED <<grown, wake>>
           \/ /\ batch = {}
              /\ pendingTools' = FALSE
              /\ Suspend("message")
              /\ UNCHANGED <<waiting, timeouts, turn, kind>>
    /\ UNCHANGED <<s1Vars, context, chain, payload, known, interruptible,
                   interrupters, counterVars, seen>>

\* Mutant: the buffer is forgotten once the session no longer waits.
BufferingWhileArmed == SuppressEarlyWake /\ waiting = "armed"

\* The two branches of early-wake suppression come before accumulation.
Buffering == SuppressEarlyWake /\ (waiting = "armed" \/ suppressed # {})

\* New messages otherwise open the accumulation window.
Accumulate ==
    /\ pc = "top" /\ Preferred # {} /\ ~Buffering
    /\ Prefer
    /\ pc' = "accumulating"
    /\ UNCHANGED <<grown, waitVars, s1Vars, context, chain, wake, payload, turnVars,
                   pendingTools, finalTimeout, counterVars, seen>>

\* A request that only carries the tool results of the previous one.
Followup ==
    /\ pc = "top" /\ Preferred = {} /\ pendingTools
    /\ pendingTools' = FALSE /\ finalTimeout' = FALSE
    /\ turn' = {} /\ kind' = "followup"
    /\ pc' = "building"
    /\ UNCHANGED <<queueVars, grown, waitVars, s1Vars, context, chain, wake, payload,
                   known, interruptible, interrupters, counterVars, seen>>

\* TimeoutService.build_timeout_result: count the timeout, clear the wait, and
\* decide whether this was the last one.
Timeout ==
    /\ pc = "top" /\ Preferred = {} /\ ~pendingTools
    /\ waiting = "expired" /\ suppressed = {}
    /\ timeouts' = timeouts + 1
    /\ waiting' = "no"
    /\ finalTimeout' = (timeouts' >= MaxTimeouts)
    /\ turn' = {} /\ kind' = "timeout"
    /\ pc' = "building"
    /\ UNCHANGED <<queueVars, grown, suppressed, s1Vars, context, chain, wake, payload,
                   known, interruptible, interrupters, pendingTools, counterVars, seen>>

\* Nothing to do: wait for the rest of the session's wait, or for a message.
Idle ==
    /\ pc = "top" /\ Preferred = {} /\ ~pendingTools /\ waiting # "expired"
    /\ Suspend(IF waiting = "armed" THEN "session" ELSE "message")
    /\ finalTimeout' = FALSE
    /\ UNCHANGED <<queueVars, waitVars, s1Vars, context, chain, payload, turnVars,
                   pendingTools, counterVars, seen>>
-----------------------------------------------------------------------------
(* The end of the accumulation window.                                     *)

Fresh == unread \ payload

\* Every message is already in the chain: filter_messages_already_in_payloads
\* leaves nothing, and the loop waits for a new message.
NothingFresh ==
    /\ pc = "accumulating" /\ Fresh = {}
    /\ Suspend("message")
    /\ finalTimeout' = FALSE
    /\ UNCHANGED <<queueVars, waitVars, s1Vars, context, chain, payload, turnVars,
                   pendingTools, counterVars, seen>>

\* harvest_pending_appraisal: an unfinished or failed appraisal leaves
\* respond_not_before alone, a finished one sets a delay or removes it.
Harvest ==
    IF appraising THEN {deferred, FALSE} \cup {DeferEnabled /\ waiting = "no"}
                  ELSE {deferred}

\* The previous batch's appraisal is harvested or cancelled, and the delay it
\* asked for is honoured before the batch is used.
Defer ==
    /\ pc = "accumulating" /\ Fresh # {}
    /\ appraising' = FALSE
    /\ TRUE \in Harvest /\ deferred' = TRUE
    /\ Suspend("defer")
    /\ finalTimeout' = FALSE
    /\ UNCHANGED <<queueVars, waitVars, context, chain, payload, turnVars,
                   pendingTools, counterVars, seen>>

\* The batch is used, and a new appraisal of it may be started.
Ingest ==
    /\ pc = "accumulating" /\ Fresh # {}
    /\ FALSE \in Harvest /\ deferred' = FALSE
    /\ appraising' \in {FALSE, DeferEnabled}
    /\ Accept(Fresh)
    /\ finalTimeout' = FALSE
    /\ UNCHANGED <<queueVars, grown, suppressed, context, chain, wake, payload, known,
                   interruptible, interrupters, counterVars, seen>>
-----------------------------------------------------------------------------
(* The request.                                                            *)

\* build_user_payload adds the batch to the chain (merging it into a trailing
\* user payload), the user entry is saved before the request is sent, and the
\* request is interruptible unless it carries a transient payload or the loop
\* was interrupted too often.  A pending proactive context is consumed here and
\* replaces the trigger's line; it and plugins' contributions are transient.
Send ==
    /\ pc = "building"
    /\ IF kind = "user"
       THEN LET shown == turn \ (IF context THEN Triggers ELSE {})
            IN  /\ payload' = payload \cup shown
                /\ chain' = chain \cup shown
                /\ context' = FALSE
                /\ known' = turn
       ELSE known' = unread /\ UNCHANGED <<payload, chain, context>>
    /\ \E transient \in BOOLEAN :
        /\ kind = "timeout" \/ (kind = "user" /\ context) => transient
        /\ kind \in {"followup", "empty"} => ~transient
        /\ interruptible' = /\ InterruptEnabled /\ ~transient
                            /\ interrupts < MaxInterrupts
    /\ pc' = "calling"
    /\ UNCHANGED <<queueVars, grown, waitVars, s1Vars, wake, turn, kind, interrupters,
                   pendingTools, finalTimeout, counterVars, seen>>

\* filter_interrupt_messages: new ids that are not internal triggers.
Interrupting == (unread \cap Users) \ known

\* A poll finds new messages: the request is cancelled and the loop cools down.
Interrupt ==
    /\ pc = "calling" /\ interruptible
    /\ Interrupting # {}
    /\ interrupters' = Interrupting
    /\ interrupts' = interrupts + 1
    /\ pc' = "cooling"
    /\ UNCHANGED <<queueVars, grown, waitVars, s1Vars, context, chain, wake, payload,
                   turn, kind, known, interruptible, pendingTools, finalTimeout,
                   failures, retries, seen>>

\* After the cooldown the cancelled turn's messages are flushed, the
\* interrupting ones logged with add_user_message, and the wait cleared.
CoolDown ==
    /\ pc = "cooling"
    /\ Flush(turn)
    /\ timeouts' = 0 /\ waiting' = "no"
    /\ pc' = "top"
    /\ UNCHANGED <<grown, suppressed, s1Vars, context, chain, wake, payload, turnVars,
                   pendingTools, finalTimeout, counterVars, seen>>

\* The request completes: the turn's messages are flushed, both counts restart
\* and a finished appraisal is harvested without waiting for a running one.
Respond ==
    /\ pc = "calling"
    /\ Flush(turn)
    /\ failures' = 0 /\ interrupts' = 0
    /\ seen' = seen \cup payload \cup turn
    /\ deferred' \in Harvest
    /\ appraising' \in {appraising, FALSE}
    /\ appraising' => deferred' = deferred
    /\ pc' = "deciding"
    /\ UNCHANGED <<grown, waitVars, context, chain, wake, payload, turnVars,
                   pendingTools, finalTimeout, retries>>

LimitReached(count) == MaxFailures > 0 /\ count >= MaxFailures

\* A retryable error: rate limit, timeout, API error or other LLMError.
RetryableError ==
    /\ pc = "calling" /\ LLMFaults
    /\ failures' = failures + 1
    /\ pc' = "backoff"
    /\ UNCHANGED <<queueVars, grown, waitVars, s1Vars, context, chain, wake, payload,
                   turnVars, pendingTools, finalTimeout, interrupts, retries, seen>>

\* After the backoff: give up at the limit, else go round the loop.
Backoff ==
    /\ pc = "backoff"
    /\ IF LimitReached(failures) THEN End("failed")
                                 ELSE pc' = "top" /\ UNCHANGED <<grown, wake>>
    /\ UNCHANGED <<queueVars, waitVars, s1Vars, context, chain, payload, turnVars,
                   pendingTools, finalTimeout, counterVars, seen>>

\* Authentication, token limit and unknown errors end the loop, whether met by
\* the turn's request or by the request of an empty-reply retry.
FatalError ==
    /\ pc \in {"calling", "recalling"} /\ LLMFaults
    /\ failures' \in {failures, failures + 1}
    /\ End("failed")
    /\ UNCHANGED <<queueVars, waitVars, s1Vars, context, chain, payload, turnVars,
                   pendingTools, finalTimeout, interrupts, retries, seen>>
-----------------------------------------------------------------------------
(* The decision, its empty-reply retries and its commit.                   *)

\* empty_reply_retry_due: the model replied without any visible text, and not
\* because sending failed.
EmptyReplyDue(d) ==
    d.reply /\ ~d.visible /\ ~d.infra /\ retries < MaxEmptyRetries

\* The empty call is purged, a hint added, and the chain sent again.
RetryEmptyReply(d) ==
    /\ pc = "deciding" /\ EmptyReplyDue(d)
    /\ retries' = retries + 1
    /\ pc' = "recalling"
    /\ UNCHANGED <<queueVars, grown, waitVars, s1Vars, context, chain, wake, payload,
                   turnVars, pendingTools, finalTimeout, failures, interrupts, seen>>

RetryResponds ==
    /\ pc = "recalling"
    /\ failures' = 0
    /\ pc' = "deciding"
    /\ UNCHANGED <<queueVars, grown, waitVars, s1Vars, context, chain, wake, payload,
                   turnVars, pendingTools, finalTimeout, interrupts, retries, seen>>

\* A retryable error of the retry's request: give up at the limit, else resend.
RetryFails ==
    /\ pc = "recalling" /\ LLMFaults
    /\ failures' = failures + 1
    /\ IF LimitReached(failures') THEN End("failed")
                                  ELSE UNCHANGED <<pc, grown, wake>>
    /\ UNCHANGED <<queueVars, waitVars, s1Vars, context, chain, payload, turnVars,
                   pendingTools, finalTimeout, interrupts, retries, seen>>

\* Mutant: no probe of the queue before the yield.
YieldUnprobed(signal) == signal

\* The signal of a commit is yielded only if no message has arrived that the
\* chain does not hold yet; else the loop goes on.
Yield(signal) ==
    IF Fresh # {} THEN pc' = "top" /\ UNCHANGED <<grown, wake>> ELSE signal

\* The retry count restarts after a reply with visible text.
Commits(d) ==
    /\ pc = "deciding" /\ ~EmptyReplyDue(d)
    /\ retries' = IF d.reply /\ d.visible THEN 0 ELSE retries

EndsAtOnce(d) == ~d.meaningful \/ (d.silence /\ ~d.wait)

\* No decision, or do_nothing without a wait: Stop, the wait left as it is.
CommitNothing(d) ==
    /\ Commits(d) /\ EndsAtOnce(d)
    /\ Yield(End("stopped"))
    /\ UNCHANGED <<queueVars, waitVars, s1Vars, context, chain, payload, turnVars,
                   pendingTools, finalTimeout, failures, interrupts, seen>>

\* Tools without a reply: the next request carries their results.
CallsTools(d) == ~d.reply /\ (d.info \/ (d.third /\ ~d.silence))

CommitTools(d) ==
    /\ Commits(d) /\ ~EndsAtOnce(d) /\ CallsTools(d)
    /\ pendingTools' = TRUE
    /\ pc' = "top"
    /\ UNCHANGED <<queueVars, grown, waitVars, s1Vars, context, chain, wake, payload,
                   turnVars, finalTimeout, failures, interrupts, seen>>

\* Mutant: apply_rules without the timeout limit.
GrantedAlways(d) == d.wait

\* config.wait.apply_rules: a wait is granted below the timeout limit.
Granted(d) == d.wait /\ timeouts < MaxTimeouts

\* The wait that remains: none if the reply failed entirely, none after the
\* last timeout.
Waits(d) == Granted(d) /\ ~(d.failed /\ ~d.visible) /\ ~finalTimeout

\* set_waiting, then Wait until the deadline; or clear_waiting, then Stop.
CommitWait(d) ==
    /\ Commits(d) /\ ~EndsAtOnce(d) /\ ~CallsTools(d)
    /\ IF Waits(d)
       THEN waiting' = "armed" /\ Yield(Suspend("session"))
       ELSE waiting' = "no" /\ Yield(End("stopped"))
    /\ UNCHANGED <<queueVars, timeouts, suppressed, s1Vars, context, chain, payload,
                   turnVars, pendingTools, finalTimeout, failures, interrupts, seen>>
-----------------------------------------------------------------------------
Prepare == \/ Suppress \/ SuppressTooLate \/ MergeSuppressed \/ Accumulate
           \/ Followup \/ Timeout \/ Idle \/ NothingFresh \/ Defer \/ Ingest

Request == \/ Send \/ Interrupt \/ CoolDown \/ Respond
           \/ RetryableError \/ Backoff \/ FatalError

Commit == \/ RetryResponds \/ RetryFails
          \/ \E d \in Decisions : \/ RetryEmptyReply(d) \/ CommitNothing(d)
                                  \/ CommitTools(d) \/ CommitWait(d)

\* The steps of the loop's own task.
Loop == Resume \/ Prepare \/ Request \/ Commit

Next ==
    \/ \E m \in Users : Arrive(m)
    \/ \E p \in Triggers : Trigger(p)
    \/ Expire \/ DeferElapses \/ Start
    \/ Loop

Spec == Init /\ [][Next]_vars

\* The event loop runs the task whenever it can run; the clock advances; the
\* framework starts the loop when a message arrives after Stop.  Nothing makes
\* the user send a message or the thinker trigger.
Fairness ==
    /\ WF_vars(Loop)
    /\ WF_vars(Expire) /\ WF_vars(DeferElapses)
    /\ WF_vars(grown /\ Start)

FairSpec == Spec /\ Fairness
-----------------------------------------------------------------------------
(* Safety.                                                                 *)

InFlight == pc \in {"building", "calling", "cooling", "backoff", "deciding",
                    "recalling"}

\* While a turn is in flight the session does not wait: otherwise a message
\* that interrupts it would be suppressed, and a Stop that does not clear the
\* wait (no decision, do_nothing) would leave it armed.  Every way into a turn
\* has to clear it.
NotWaitingInFlight == InFlight => waiting = "no"

\* max_consecutive_timeouts bounds the bot's own turns without a message from
\* the user, tool follow-ups and interrupted turns included: the count never
\* exceeds it and no wait is set at the limit.
TimeoutsBounded ==
    /\ timeouts <= MaxTimeouts
    /\ waiting # "no" => timeouts < MaxTimeouts

\* The probe before a yield: a message that was already queued at the yield,
\* and so does not wake the loop, is in the chain, or the wait is timed.
NoTrappedMessage ==
    pc \in {"waiting", "stopped"} /\ ~grown =>
        \/ unread \subseteq payload
        \/ pc = "waiting" /\ wake # "message"

\* Buffered user messages stay in the framework's queue until they are merged:
\* suppressed_messages is not persisted, so nothing else would keep them.
SuppressedQueued == suppressed \cap Users \subseteq unread

\* While messages are buffered no request is in flight: they are used once, in
\* one merged batch, and a turn never runs beside them.
NoTurnBesideBuffer == InFlight => suppressed \cap Users = {}

\* The loop implements the inbox: queue, persisted chain and history move as
\* Inbox allows whatever fails and whenever messages arrive.
TheInbox == INSTANCE Inbox WITH queue <- unread, saved <- chain,
                                consumed <- flushed
InboxSpec == TheInbox!Spec
-----------------------------------------------------------------------------
(* Liveness; both need a model service that does not fail.                 *)

\* Every message of the user is carried by a request that completes, however
\* arrivals, interrupts, suppression and delays interleave.
EveryMessageSeen == \A m \in Users : m \in unread ~> m \in seen

\* A wait that has expired is acted upon: a timeout turn, a merged batch or a
\* turn of new messages clears it.
ExpiredWaitHandled == waiting = "expired" ~> waiting # "expired"
-----------------------------------------------------------------------------
(* What the documentation says of the loop and the code does not do.       *)

\* unread_policy.py, filter_interrupt_messages: a message already known does
\* not cancel the model's output.
OnlyNewInterrupts == pc = "cooling" => interrupters \cap payload = {}

\* unread_policy.py, prefer_real_unreads: a dropped trigger is not processed
\* again.
DroppedStaysDropped ==
    pc \in {"building", "calling"} => turn \cap Triggers \subseteq unread
=============================================================================
