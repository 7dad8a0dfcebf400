--------------------------- MODULE TurnLoopProofs ---------------------------
(***************************************************************************)
(* Proofs about the conversation loop, for any sets of messages, any set   *)
(* of decisions, any limits and any setting of the switches.               *)
(***************************************************************************)
EXTENDS TurnLoop, TLAPS

\* The types hold at the start,
LEMMA TypeInit == Init => TypeOK
<1>1. Init => FlagTypeOK
  BY Zenon DEF Init, FlagTypeOK
<1>2. Init => DataTypeOK
  BY DEF Init, DataTypeOK
<1> QED  BY <1>1, <1>2 DEF TypeOK

\* each step keeps those of the data,
LEMMA DataTypeStep == DataTypeOK /\ [Next]_vars => DataTypeOK'
<1> SUFFICES ASSUME DataTypeOK, [Next]_vars
             PROVE  DataTypeOK'
  OBVIOUS
<1> USE DEF DataTypeOK, queueVars, waitVars, s1Vars, turnVars, counterVars
<1>1. ASSUME NEW m \in Users, Arrive(m) PROVE DataTypeOK'
  BY <1>1 DEF Arrive, Message
<1>2. ASSUME NEW p \in Triggers, Trigger(p) PROVE DataTypeOK'
  BY <1>2 DEF Trigger, Message
<1>3. CASE Expire \/ DeferElapses
  BY <1>3 DEF Expire, DeferElapses
<1>4. CASE Start
  BY <1>4 DEF Start
<1>5. CASE Resume
  BY <1>5 DEF Resume
<1>6. CASE Suppress
  BY <1>6 DEF Suppress, Prefer, Flush, Preferred, Suspend
<1>7. CASE SuppressTooLate
  BY <1>7 DEF SuppressTooLate, Prefer, Flush, Preferred
<1>8. CASE MergeSuppressed
  BY <1>8 DEF MergeSuppressed, Prefer, Flush, Preferred, Accept, Suspend
<1>9. CASE Accumulate
  BY <1>9 DEF Accumulate, Prefer, Flush, Preferred
<1>10. CASE Followup
  BY <1>10 DEF Followup
<1>11. CASE Timeout
  BY <1>11 DEF Timeout
<1>12. CASE Idle
  BY <1>12 DEF Idle, Suspend
<1>13. CASE NothingFresh
  BY <1>13 DEF NothingFresh, Suspend
<1>14. CASE Defer
  BY <1>14 DEF Defer, Suspend
<1>15. CASE Ingest
  BY <1>15, SwitchAssumption DEF Ingest, Accept, Fresh
<1>16. CASE Send
  BY <1>16 DEF Send
<1>17. CASE Interrupt
  BY <1>17 DEF Interrupt, Interrupting
<1>18. CASE CoolDown
  BY <1>18 DEF CoolDown, Flush
<1>19. CASE Respond
  BY <1>19, SwitchAssumption DEF Respond, Flush, Harvest
<1>20. CASE RetryableError \/ Backoff
  BY <1>20 DEF RetryableError, Backoff, End
<1>21. CASE FatalError
  BY <1>21 DEF FatalError, End
<1>22. CASE RetryResponds \/ RetryFails
  BY <1>22 DEF RetryResponds, RetryFails, End
<1>23. ASSUME NEW d \in Decisions, RetryEmptyReply(d) PROVE DataTypeOK'
  BY <1>23 DEF RetryEmptyReply
<1>24. ASSUME NEW d \in Decisions, CommitNothing(d) PROVE DataTypeOK'
  BY <1>24 DEF CommitNothing, Commits, Yield, End
<1>25. ASSUME NEW d \in Decisions, CommitTools(d) PROVE DataTypeOK'
  BY <1>25 DEF CommitTools, Commits
<1>26. ASSUME NEW d \in Decisions, CommitWait(d) PROVE DataTypeOK'
  BY <1>26 DEF CommitWait, Commits, Yield, End, Suspend
<1>27. CASE UNCHANGED vars
  BY <1>27 DEF vars
<1> QED
  BY <1>1, <1>2, <1>3, <1>4, <1>5, <1>6, <1>7, <1>8, <1>9, <1>10, <1>11, <1>12,
     <1>13, <1>14, <1>15, <1>16, <1>17, <1>18, <1>19, <1>20, <1>21, <1>22,
     <1>23, <1>24, <1>25, <1>26, <1>27
  DEF Next, Loop, Prepare, Request, Commit

\* those of the flags,
LEMMA FlagTypeStep == FlagTypeOK /\ [Next]_vars => FlagTypeOK'
<1> SUFFICES ASSUME FlagTypeOK, [Next]_vars
             PROVE  FlagTypeOK'
  OBVIOUS
<1> USE DEF FlagTypeOK, queueVars, waitVars, s1Vars, turnVars, counterVars
<1>1. ASSUME NEW m \in Users, Arrive(m) PROVE FlagTypeOK'
  BY <1>1 DEF Arrive, Message
<1>2. ASSUME NEW p \in Triggers, Trigger(p) PROVE FlagTypeOK'
  BY <1>2 DEF Trigger, Message
<1>3. CASE Expire \/ DeferElapses
  BY <1>3 DEF Expire, DeferElapses
<1>4. CASE Start
  BY <1>4 DEF Start
<1>5. CASE Resume
  BY <1>5 DEF Resume
<1>6. CASE Suppress
  BY <1>6 DEF Suppress, Prefer, Flush, Preferred, Suspend
<1>7. CASE SuppressTooLate
  BY <1>7 DEF SuppressTooLate, Prefer, Flush, Preferred
<1>8. CASE MergeSuppressed
  BY <1>8 DEF MergeSuppressed, Prefer, Flush, Preferred, Accept, Suspend
<1>9. CASE Accumulate
  BY <1>9 DEF Accumulate, Prefer, Flush, Preferred
<1>10. CASE Followup
  BY <1>10 DEF Followup
<1>11. CASE Timeout
  BY <1>11 DEF Timeout
<1>12. CASE Idle
  BY <1>12 DEF Idle, Suspend
<1>13. CASE NothingFresh
  BY <1>13 DEF NothingFresh, Suspend
<1>14. CASE Defer
  BY <1>14 DEF Defer, Suspend
<1>15. CASE Ingest
  BY <1>15, SwitchAssumption DEF Ingest, Accept, Fresh
<1>16. CASE Send
  BY <1>16 DEF Send
<1>17. CASE Interrupt
  BY <1>17 DEF Interrupt, Interrupting
<1>18. CASE CoolDown
  BY <1>18 DEF CoolDown, Flush
<1>19. CASE Respond
  BY <1>19, SwitchAssumption DEF Respond, Flush, Harvest
<1>20. CASE RetryableError \/ Backoff
  BY <1>20 DEF RetryableError, Backoff, End
<1>21. CASE FatalError
  BY <1>21 DEF FatalError, End
<1>22. CASE RetryResponds \/ RetryFails
  BY <1>22 DEF RetryResponds, RetryFails, End
<1>23. ASSUME NEW d \in Decisions, RetryEmptyReply(d) PROVE FlagTypeOK'
  BY <1>23 DEF RetryEmptyReply
<1>24. ASSUME NEW d \in Decisions, CommitNothing(d) PROVE FlagTypeOK'
  BY <1>24 DEF CommitNothing, Commits, Yield, End
<1>25. ASSUME NEW d \in Decisions, CommitTools(d) PROVE FlagTypeOK'
  BY <1>25 DEF CommitTools, Commits
<1>26. ASSUME NEW d \in Decisions, CommitWait(d) PROVE FlagTypeOK'
  BY <1>26 DEF CommitWait, Commits, Yield, End, Suspend
<1>27. CASE UNCHANGED vars
  BY <1>27 DEF vars
<1> QED
  BY <1>1, <1>2, <1>3, <1>4, <1>5, <1>6, <1>7, <1>8, <1>9, <1>10, <1>11, <1>12,
     <1>13, <1>14, <1>15, <1>16, <1>17, <1>18, <1>19, <1>20, <1>21, <1>22,
     <1>23, <1>24, <1>25, <1>26, <1>27
  DEF Next, Loop, Prepare, Request, Commit

\* and so all of them.
LEMMA TypeStep == TypeOK /\ [Next]_vars => TypeOK'
BY DataTypeStep, FlagTypeStep DEF TypeOK

\* Every variable of the loop keeps its type.
THEOREM TypeCorrect == Spec => []TypeOK
BY TypeInit, TypeStep, PTL DEF Spec
-----------------------------------------------------------------------------
(***************************************************************************)
(* The timeout limit.  The invariant is inductive once the types are known.*)
(***************************************************************************)
LEMMA TimeoutsStep == TypeOK /\ TimeoutsBounded /\ [Next]_vars => TimeoutsBounded'
<1> SUFFICES ASSUME TypeOK, TimeoutsBounded, [Next]_vars
             PROVE  TimeoutsBounded'
  OBVIOUS
<1> USE LimitAssumption
    DEF TypeOK, DataTypeOK, TimeoutsBounded, queueVars, waitVars, s1Vars, turnVars,
        counterVars
<1>1. ASSUME NEW m \in Users, Arrive(m) PROVE TimeoutsBounded'
  BY <1>1 DEF Arrive, Message
<1>2. ASSUME NEW p \in Triggers, Trigger(p) PROVE TimeoutsBounded'
  BY <1>2 DEF Trigger, Message
<1>3. CASE Expire
  BY <1>3 DEF Expire
<1>4. CASE DeferElapses
  BY <1>4 DEF DeferElapses
<1>5. CASE Start
  BY <1>5 DEF Start
<1>6. CASE Resume
  BY <1>6 DEF Resume
<1>7. CASE Suppress
  BY <1>7 DEF Suppress, Prefer, Flush, Preferred, Suspend
<1>8. CASE SuppressTooLate
  BY <1>8 DEF SuppressTooLate, Prefer, Flush, Preferred
<1>9. CASE MergeSuppressed
  BY <1>9 DEF MergeSuppressed, Prefer, Flush, Preferred, Accept, Suspend
<1>10. CASE Accumulate
  BY <1>10 DEF Accumulate, Prefer, Flush, Preferred, Buffering
<1>11. CASE Followup
  BY <1>11 DEF Followup
<1>12. CASE Timeout
  BY <1>12 DEF Timeout
<1>13. CASE Idle
  BY <1>13 DEF Idle, Suspend
<1>14. CASE NothingFresh
  BY <1>14 DEF NothingFresh, Suspend, Fresh
<1>15. CASE Defer
  BY <1>15 DEF Defer, Suspend
<1>16. CASE Ingest
  BY <1>16 DEF Ingest, Accept, Fresh
<1>17. CASE Send
  BY <1>17 DEF Send
<1>18. CASE Interrupt
  BY <1>18 DEF Interrupt
<1>19. CASE CoolDown
  BY <1>19 DEF CoolDown, Flush
<1>20. CASE Respond
  BY <1>20 DEF Respond, Flush
<1>21. CASE RetryableError \/ Backoff
  BY <1>21 DEF RetryableError, Backoff, End
<1>22. CASE FatalError
  BY <1>22 DEF FatalError, End
<1>23. CASE RetryResponds \/ RetryFails
  BY <1>23 DEF RetryResponds, RetryFails, End
<1>24. ASSUME NEW d \in Decisions, RetryEmptyReply(d) PROVE TimeoutsBounded'
  BY <1>24 DEF RetryEmptyReply
<1>25. ASSUME NEW d \in Decisions, CommitNothing(d) PROVE TimeoutsBounded'
  BY <1>25 DEF CommitNothing, Commits, Yield, End, Fresh
<1>26. ASSUME NEW d \in Decisions, CommitTools(d) PROVE TimeoutsBounded'
  BY <1>26 DEF CommitTools, Commits
<1>27. ASSUME NEW d \in Decisions, CommitWait(d) PROVE TimeoutsBounded'
  BY <1>27 DEF CommitWait, Commits, Yield, End, Suspend, Fresh, Waits, Granted
<1>28. CASE UNCHANGED vars
  BY <1>28 DEF vars
<1> QED
  BY <1>1, <1>2, <1>3, <1>4, <1>5, <1>6, <1>7, <1>8, <1>9, <1>10, <1>11,
     <1>12, <1>13, <1>14, <1>15, <1>16, <1>17, <1>18, <1>19, <1>20, <1>21,
     <1>22, <1>23, <1>24, <1>25, <1>26, <1>27, <1>28
  DEF Next, Loop, Prepare, Request, Commit

\* However turns, tool follow-ups, interrupts and errors interleave, the bot
\* never takes more than max_consecutive_timeouts turns of its own, and sets no
\* wait once it has taken the last one.
THEOREM TimeoutsCorrect == Spec => []TimeoutsBounded
<1>1. Init => TimeoutsBounded
  BY LimitAssumption DEF Init, TimeoutsBounded
<1> QED
  BY <1>1, TimeoutsStep, TypeCorrect, PTL DEF Spec
-----------------------------------------------------------------------------
(***************************************************************************)
(* No message is trapped at a yield.  Inductive as it stands: every yield  *)
(* that no clock ends establishes it, and only an arrival, which sets      *)
(* `grown', adds to the queue.                                             *)
(***************************************************************************)
LEMMA TrapStep == TypeOK /\ NoTrappedMessage /\ [Next]_vars => NoTrappedMessage'
<1> SUFFICES ASSUME TypeOK, NoTrappedMessage, [Next]_vars
             PROVE  NoTrappedMessage'
  OBVIOUS
<1> USE DEF TypeOK, DataTypeOK, NoTrappedMessage, queueVars, waitVars, s1Vars, turnVars,
            counterVars
<1>1. ASSUME NEW m \in Users, Arrive(m) PROVE NoTrappedMessage'
  BY <1>1 DEF Arrive, Message
<1>2. ASSUME NEW p \in Triggers, Trigger(p) PROVE NoTrappedMessage'
  BY <1>2 DEF Trigger, Message
<1>3. CASE Expire
  BY <1>3 DEF Expire
<1>4. CASE DeferElapses
  BY <1>4 DEF DeferElapses
<1>5. CASE Start
  BY <1>5 DEF Start
<1>6. CASE Resume
  BY <1>6 DEF Resume
<1>7. CASE Suppress
  BY <1>7 DEF Suppress, Prefer, Flush, Preferred, Suspend
<1>8. CASE SuppressTooLate
  BY <1>8 DEF SuppressTooLate, Prefer, Flush, Preferred
<1>9. CASE MergeSuppressed
  BY <1>9 DEF MergeSuppressed, Prefer, Flush, Preferred, Accept, Suspend
<1>10. CASE Accumulate
  BY <1>10 DEF Accumulate, Prefer, Flush, Preferred, Buffering
<1>11. CASE Followup
  BY <1>11 DEF Followup
<1>12. CASE Timeout
  BY <1>12 DEF Timeout
<1>13. CASE Idle
  BY <1>13 DEF Idle, Suspend, Preferred
<1>14. CASE NothingFresh
  BY <1>14 DEF NothingFresh, Suspend, Fresh
<1>15. CASE Defer
  BY <1>15 DEF Defer, Suspend
<1>16. CASE Ingest
  BY <1>16 DEF Ingest, Accept, Fresh
<1>17. CASE Send
  BY <1>17 DEF Send
<1>18. CASE Interrupt
  BY <1>18 DEF Interrupt
<1>19. CASE CoolDown
  BY <1>19 DEF CoolDown, Flush
<1>20. CASE Respond
  BY <1>20 DEF Respond, Flush
<1>21. CASE RetryableError \/ Backoff
  BY <1>21 DEF RetryableError, Backoff, End
<1>22. CASE FatalError
  BY <1>22 DEF FatalError, End
<1>23. CASE RetryResponds \/ RetryFails
  BY <1>23 DEF RetryResponds, RetryFails, End
<1>24. ASSUME NEW d \in Decisions, RetryEmptyReply(d) PROVE NoTrappedMessage'
  BY <1>24 DEF RetryEmptyReply
<1>25. ASSUME NEW d \in Decisions, CommitNothing(d) PROVE NoTrappedMessage'
  BY <1>25 DEF CommitNothing, Commits, Yield, End, Fresh
<1>26. ASSUME NEW d \in Decisions, CommitTools(d) PROVE NoTrappedMessage'
  BY <1>26 DEF CommitTools, Commits
<1>27. ASSUME NEW d \in Decisions, CommitWait(d) PROVE NoTrappedMessage'
  BY <1>27 DEF CommitWait, Commits, Yield, End, Suspend, Fresh
<1>28. CASE UNCHANGED vars
  BY <1>28 DEF vars
<1> QED
  BY <1>1, <1>2, <1>3, <1>4, <1>5, <1>6, <1>7, <1>8, <1>9, <1>10, <1>11,
     <1>12, <1>13, <1>14, <1>15, <1>16, <1>17, <1>18, <1>19, <1>20, <1>21,
     <1>22, <1>23, <1>24, <1>25, <1>26, <1>27, <1>28
  DEF Next, Loop, Prepare, Request, Commit

\* The probe before each yield suffices: a message queued before the loop
\* sleeps is in the chain, or the sleep is timed.
THEOREM NothingTrapped == Spec => []NoTrappedMessage
<1>1. Init => NoTrappedMessage
  BY DEF Init, NoTrappedMessage
<1> QED
  BY <1>1, TrapStep, TypeCorrect, PTL DEF Spec
-----------------------------------------------------------------------------
(***************************************************************************)
(* The queue.  A turn's messages are flushed long after they were read, so *)
(* the invariant says where they are meanwhile: the user's are still in    *)
(* the queue, and once the request is under way in the saved chain.  A     *)
(* buffer beside a turn with messages would break this when the turn is    *)
(* flushed; hence the conjuncts about `suppressed'.                        *)
(***************************************************************************)
Sending == pc \in {"building", "calling", "cooling"}

QueueInv ==
    /\ unread \cap flushed = {}
    /\ suppressed \subseteq unread \cup flushed
    /\ suppressed \cap Users \subseteq unread
    /\ suppressed # {} => SuppressEarlyWake
    /\ pc = "accumulating" => suppressed = {}
    /\ Sending => /\ turn \subseteq unread \cup flushed
                  /\ turn \cap Users \subseteq unread
                  /\ turn = {} \/ suppressed = {}
    /\ pc = "building" /\ kind # "user" => turn = {}
    /\ pc \in {"calling", "cooling"} => turn \cap Users \subseteq chain

\* The queue invariant holds at the start,
LEMMA QueueInit == Init => QueueInv
BY DEF Init, QueueInv, Sending

\* and each step keeps it.
LEMMA QueueStep == TypeOK /\ QueueInv /\ [Next]_vars => QueueInv'
<1> SUFFICES ASSUME TypeOK, QueueInv, [Next]_vars
             PROVE  QueueInv'
  OBVIOUS
<1> USE MessageAssumption
    DEF TypeOK, DataTypeOK, Message, QueueInv, Sending, queueVars, waitVars, s1Vars,
        turnVars, counterVars
<1>1. ASSUME NEW m \in Users, Arrive(m) PROVE QueueInv'
  BY <1>1 DEF Arrive, Message
<1>2. ASSUME NEW p \in Triggers, Trigger(p) PROVE QueueInv'
  BY <1>2 DEF Trigger, Message
<1>3. CASE Expire
  BY <1>3 DEF Expire
<1>4. CASE DeferElapses
  BY <1>4 DEF DeferElapses
<1>5. CASE Start
  BY <1>5 DEF Start
<1>6. CASE Resume
  BY <1>6 DEF Resume
<1>7. CASE Suppress
  BY <1>7 DEF Suppress, Prefer, Flush, Preferred, Suspend
<1>8. CASE SuppressTooLate
  BY <1>8 DEF SuppressTooLate, Prefer, Flush, Preferred
<1>9. CASE MergeSuppressed
  BY <1>9 DEF MergeSuppressed, Prefer, Flush, Preferred, Accept, Suspend
<1>10. CASE Accumulate
  BY <1>10 DEF Accumulate, Prefer, Flush, Preferred, Buffering
<1>11. CASE Followup
  BY <1>11 DEF Followup
<1>12. CASE Timeout
  BY <1>12 DEF Timeout
<1>13. CASE Idle
  BY <1>13 DEF Idle, Suspend
<1>14. CASE NothingFresh
  BY <1>14 DEF NothingFresh, Suspend, Fresh
<1>15. CASE Defer
  BY <1>15 DEF Defer, Suspend
<1>16. CASE Ingest
  BY <1>16 DEF Ingest, Accept, Fresh
<1>17. CASE Send
  BY <1>17 DEF Send
<1>18. CASE Interrupt
  BY <1>18 DEF Interrupt
<1>19. CASE CoolDown
  BY <1>19 DEF CoolDown, Flush
<1>20. CASE Respond
  BY <1>20 DEF Respond, Flush
<1>21. CASE RetryableError \/ Backoff
  BY <1>21 DEF RetryableError, Backoff, End
<1>22. CASE FatalError
  BY <1>22 DEF FatalError, End
<1>23. CASE RetryResponds \/ RetryFails
  BY <1>23 DEF RetryResponds, RetryFails, End
<1>24. ASSUME NEW d \in Decisions, RetryEmptyReply(d) PROVE QueueInv'
  BY <1>24 DEF RetryEmptyReply
<1>25. ASSUME NEW d \in Decisions, CommitNothing(d) PROVE QueueInv'
  BY <1>25 DEF CommitNothing, Commits, Yield, End, Fresh
<1>26. ASSUME NEW d \in Decisions, CommitTools(d) PROVE QueueInv'
  BY <1>26 DEF CommitTools, Commits
<1>27. ASSUME NEW d \in Decisions, CommitWait(d) PROVE QueueInv'
  BY <1>27 DEF CommitWait, Commits, Yield, End, Suspend, Fresh
<1>28. CASE UNCHANGED vars
  BY <1>28 DEF vars
<1> QED
  BY <1>1, <1>2, <1>3, <1>4, <1>5, <1>6, <1>7, <1>8, <1>9, <1>10, <1>11,
     <1>12, <1>13, <1>14, <1>15, <1>16, <1>17, <1>18, <1>19, <1>20, <1>21,
     <1>22, <1>23, <1>24, <1>25, <1>26, <1>27, <1>28
  DEF Next, Loop, Prepare, Request, Commit

\* So it holds throughout: every batch in the making is one the queue has or had.
THEOREM QueueCorrect == Spec => []QueueInv
BY QueueInit, QueueStep, TypeCorrect, PTL DEF Spec

\* suppressed_messages is a second list of messages the framework still holds:
\* a crash between buffering and merging loses none of the user's.
THEOREM BufferQueued == Spec => []SuppressedQueued
<1>1. QueueInv => SuppressedQueued
  BY DEF QueueInv, SuppressedQueued
<1> QED
  BY <1>1, QueueCorrect, PTL
-----------------------------------------------------------------------------
(***************************************************************************)
(* Waiting and requesting exclude each other, provided that no deadline    *)
(* falls between two reads of the clock: SuppressTooLate, which starts an  *)
(* empty turn beside the wait and the buffer, is the one step that breaks  *)
(* it.  Followup clears neither; it relies on there being no wait and no   *)
(* buffer while tool results are pending.                                  *)
(***************************************************************************)
WaitInv ==
    /\ InFlight \/ pendingTools => waiting = "no" /\ suppressed = {}
    /\ InFlight => ~pendingTools

\* Each step keeps waiting and requesting apart.
LEMMA WaitStep ==
  ASSUME ~ClockCrosses
  PROVE  TypeOK /\ QueueInv /\ WaitInv /\ [Next]_vars => WaitInv'
<1> SUFFICES ASSUME TypeOK, QueueInv, WaitInv, [Next]_vars
             PROVE  WaitInv'
  OBVIOUS
<1> USE DEF TypeOK, DataTypeOK, QueueInv, WaitInv, InFlight, queueVars, waitVars,
            s1Vars, turnVars, counterVars
<1>1. ASSUME NEW m \in Users, Arrive(m) PROVE WaitInv'
  BY <1>1 DEF Arrive, Message
<1>2. ASSUME NEW p \in Triggers, Trigger(p) PROVE WaitInv'
  BY <1>2 DEF Trigger, Message
<1>3. CASE Expire
  BY <1>3 DEF Expire
<1>4. CASE DeferElapses
  BY <1>4 DEF DeferElapses
<1>5. CASE Start
  BY <1>5 DEF Start
<1>6. CASE Resume
  BY <1>6 DEF Resume
<1>7. CASE Suppress
  BY <1>7 DEF Suppress, Prefer, Flush, Preferred, Suspend
<1>8. CASE SuppressTooLate
  BY <1>8 DEF SuppressTooLate, Prefer, Flush, Preferred
<1>9. CASE MergeSuppressed
  BY <1>9 DEF MergeSuppressed, Prefer, Flush, Preferred, Accept, Suspend
<1>10. CASE Accumulate
  BY <1>10 DEF Accumulate, Prefer, Flush, Preferred, Buffering
<1>11. CASE Followup
  BY <1>11 DEF Followup
<1>12. CASE Timeout
  BY <1>12 DEF Timeout
<1>13. CASE Idle
  BY <1>13 DEF Idle, Suspend
<1>14. CASE NothingFresh
  BY <1>14 DEF NothingFresh, Suspend, Fresh
<1>15. CASE Defer
  BY <1>15 DEF Defer, Suspend
<1>16. CASE Ingest
  BY <1>16 DEF Ingest, Accept, Fresh
<1>17. CASE Send
  BY <1>17 DEF Send
<1>18. CASE Interrupt
  BY <1>18 DEF Interrupt
<1>19. CASE CoolDown
  BY <1>19 DEF CoolDown, Flush
<1>20. CASE Respond
  BY <1>20 DEF Respond, Flush
<1>21. CASE RetryableError \/ Backoff
  BY <1>21 DEF RetryableError, Backoff, End
<1>22. CASE FatalError
  BY <1>22 DEF FatalError, End
<1>23. CASE RetryResponds \/ RetryFails
  BY <1>23 DEF RetryResponds, RetryFails, End
<1>24. ASSUME NEW d \in Decisions, RetryEmptyReply(d) PROVE WaitInv'
  BY <1>24 DEF RetryEmptyReply
<1>25. ASSUME NEW d \in Decisions, CommitNothing(d) PROVE WaitInv'
  BY <1>25 DEF CommitNothing, Commits, Yield, End, Fresh
<1>26. ASSUME NEW d \in Decisions, CommitTools(d) PROVE WaitInv'
  BY <1>26 DEF CommitTools, Commits
<1>27. ASSUME NEW d \in Decisions, CommitWait(d) PROVE WaitInv'
  BY <1>27 DEF CommitWait, Commits, Yield, End, Suspend, Fresh
<1>28. CASE UNCHANGED vars
  BY <1>28 DEF vars
<1> QED
  BY <1>1, <1>2, <1>3, <1>4, <1>5, <1>6, <1>7, <1>8, <1>9, <1>10, <1>11,
     <1>12, <1>13, <1>14, <1>15, <1>16, <1>17, <1>18, <1>19, <1>20, <1>21,
     <1>22, <1>23, <1>24, <1>25, <1>26, <1>27, <1>28
  DEF Next, Loop, Prepare, Request, Commit

\* So they are apart throughout.
THEOREM WaitCorrect ==
  ASSUME ~ClockCrosses
  PROVE  Spec => []WaitInv
<1>1. Init => WaitInv
  BY DEF Init, WaitInv, InFlight
<1>2. TypeOK /\ QueueInv /\ WaitInv /\ [Next]_vars => WaitInv'
  BY WaitStep
<1> QED
  BY <1>1, <1>2, TypeCorrect, QueueCorrect, PTL DEF Spec

\* Every way into a turn has cleared the wait, although follow-ups, buffered
\* batches, interrupts and empty-reply retries each enter it differently.
THEOREM WaitsApart ==
  ASSUME ~ClockCrosses
  PROVE  Spec => []NotWaitingInFlight
<1>1. WaitInv => NotWaitingInFlight
  BY DEF WaitInv, NotWaitingInFlight
<1> QED
  BY <1>1, WaitCorrect, PTL

\* Buffered messages are merged once: no turn runs beside them.
THEOREM BufferApart ==
  ASSUME ~ClockCrosses
  PROVE  Spec => []NoTurnBesideBuffer
<1>1. WaitInv => NoTurnBesideBuffer
  BY DEF WaitInv, NoTurnBesideBuffer
<1> QED
  BY <1>1, WaitCorrect, PTL
-----------------------------------------------------------------------------
(***************************************************************************)
(* The refinement.  Arrivals receive, Send saves, and whatever flushes     *)
(* consumes the part of its batch that is still queued; the rest stutters. *)
(***************************************************************************)
InboxStep == [TheInbox!Next]_(TheInbox!inboxVars)

\* A flush consumes of its batch what is still queued, its messages of users being saved.
LEMMA FlushConsumes ==
  ASSUME NEW batch \in SUBSET Message,
         Flush(batch), UNCHANGED chain,
         batch \subseteq unread \cup flushed,
         unread \cap batch \cap Users \subseteq chain
  PROVE  InboxStep
<1> DEFINE queued == unread \cap batch
<1>1. /\ queued \in SUBSET (Users \cup Triggers)
      /\ queued \subseteq unread
      /\ queued \cap Users \subseteq chain
      /\ unread' = unread \ queued
      /\ flushed' = flushed \cup queued
  BY DEF Message, Flush
<1>2. TheInbox!Consume(queued)
  BY <1>1 DEF TheInbox!Consume
<1> QED
  BY <1>1, <1>2 DEF InboxStep, TheInbox!Next

\* Preferring the newest trigger flushes triggers only.
LEMMA PreferConsumes ==
  ASSUME TypeOK, Prefer, UNCHANGED chain
  PROVE  InboxStep
<1>1. /\ unread \ Preferred \in SUBSET Message
      /\ (unread \ Preferred) \cap Users = {}
  BY DEF TypeOK, DataTypeOK, Preferred
<1> QED
  BY <1>1, FlushConsumes DEF Prefer

\* A step that leaves queue, chain and flushed alone stutters.
LEMMA InboxStutter ==
  ASSUME UNCHANGED <<unread, chain, flushed>>
  PROVE  InboxStep
BY DEF InboxStep, TheInbox!inboxVars

\* Every step is one of the inbox or stutters.
LEMMA InboxRefined == TypeOK /\ QueueInv /\ [Next]_vars => InboxStep
<1> SUFFICES ASSUME TypeOK, QueueInv, [Next]_vars
             PROVE  InboxStep
  OBVIOUS
<1> USE DEF queueVars
<1>1. ASSUME NEW m \in Message, Arrive(m) \/ Trigger(m) PROVE InboxStep
  <2>1. TheInbox!Receive(m)
    BY <1>1 DEF Arrive, Trigger, TheInbox!Receive
  <2> QED
    BY <2>1 DEF InboxStep, TheInbox!Next, Message
<1>2. CASE Expire \/ DeferElapses \/ Start \/ Resume
  BY <1>2, InboxStutter DEF Expire, DeferElapses, Start, Resume
<1>3. CASE Suppress \/ SuppressTooLate \/ MergeSuppressed \/ Accumulate
  BY <1>3, PreferConsumes DEF Suppress, SuppressTooLate, MergeSuppressed, Accumulate
<1>4. CASE Followup \/ Timeout \/ Idle \/ NothingFresh \/ Defer \/ Ingest
  BY <1>4, InboxStutter DEF Followup, Timeout, Idle, NothingFresh, Defer, Ingest
<1>5. CASE Send
  <2>1. CASE kind = "user"
    <3> DEFINE shown == turn \ (IF context THEN Triggers ELSE {})
    <3>1. chain' = chain \cup shown /\ UNCHANGED <<unread, flushed>>
      BY <1>5, <2>1 DEF Send
    <3>2. shown \in SUBSET (Users \cup Triggers) /\ shown \cap Users \subseteq unread
      BY <1>5 DEF Send, TypeOK, DataTypeOK, QueueInv, Sending, Message
    <3>3. TheInbox!Save(shown)
      BY <3>1, <3>2 DEF TheInbox!Save
    <3> QED
      BY <3>2, <3>3 DEF InboxStep, TheInbox!Next
  <2>2. CASE kind # "user"
    BY <1>5, <2>2, InboxStutter DEF Send
  <2> QED
    BY <2>1, <2>2
<1>6. CASE CoolDown \/ Respond
  <2>1. Flush(turn) /\ UNCHANGED chain
    BY <1>6 DEF CoolDown, Respond
  <2>2. /\ turn \in SUBSET Message
        /\ turn \subseteq unread \cup flushed
        /\ unread \cap turn \cap Users \subseteq chain
    BY <1>6 DEF CoolDown, Respond, TypeOK, DataTypeOK, QueueInv, Sending
  <2> QED
    BY <2>1, <2>2, FlushConsumes
<1>7. CASE Interrupt \/ RetryableError \/ Backoff \/ FatalError
  BY <1>7, InboxStutter DEF Interrupt, RetryableError, Backoff, FatalError
<1>8. CASE RetryResponds \/ RetryFails
  BY <1>8, InboxStutter DEF RetryResponds, RetryFails
<1>9. ASSUME NEW d \in Decisions,
             RetryEmptyReply(d) \/ CommitNothing(d) \/ CommitTools(d) \/ CommitWait(d)
      PROVE  InboxStep
  BY <1>9, InboxStutter DEF RetryEmptyReply, CommitNothing, CommitTools, CommitWait
<1>10. CASE UNCHANGED vars
  BY <1>10, InboxStutter DEF vars
<1> QED
  BY <1>1, <1>2, <1>3, <1>4, <1>5, <1>6, <1>7, <1>8, <1>9, <1>10
  DEF Next, Loop, Prepare, Request, Commit, Message

\* Whatever fails and whenever messages arrive, a user's message leaves the
\* framework's queue only after the chain that survives a restart holds it, and
\* is never queued, saved or consumed again: flush_unreads after the request
\* only ever removes what update_chain saved before it.
THEOREM InboxImplemented == Spec => InboxSpec
<1>1. Init => TheInbox!Init
  BY DEF Init, TheInbox!Init
<1>2. TypeOK /\ QueueInv /\ [Next]_vars => [TheInbox!Next]_(TheInbox!inboxVars)
  BY InboxRefined DEF InboxStep
<1> QED
  BY <1>1, <1>2, TypeCorrect, QueueCorrect, PTL DEF Spec, InboxSpec, TheInbox!Spec
=============================================================================
