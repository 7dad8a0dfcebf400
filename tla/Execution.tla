----------------------------- MODULE Execution -----------------------------
(***************************************************************************)
(* From an answer with tool calls to a decision: parser.parse_tool_calls,  *)
(* the calls it intercepts, puts off and runs, the segments a reply sends  *)
(* (execution/reply_executor.py, actions/reply.py), the decision built of  *)
(* it all (protocol/decision_parser.py) and what the loop does with it.    *)
(*                                                                         *)
(* A call is [id, kind, segs, bad]: what it is, how many segments are left *)
(* of a reply's content once it was cleaned, and whether a required        *)
(* argument is missing (no argument of a reply or of do_nothing is).       *)
(***************************************************************************)
EXTENDS Payloads

CONSTANTS
    Shapes,         \* the calls the model makes, without their ids
    FreshIds,       \* the ids the parser makes itself, in order
    Histories,      \* chains the first answer may find
    MaxCalls,       \* bound: calls in all answers together
    MaxEmptyRetries \* config.general.max_empty_reply_retries

\* What the histories say, and what the plugin puts in.
Texts == Words \cup UNION {UNION {h[i].text : i \in DOMAIN h} : h \in Histories}

\* The ids the provider gives, in one answer or across answers.
GivenIds == CallIds \ ToSet(FreshIds)

\* The first answer is to a request, which was prepared: the pinned payloads come
\* first in it, and the user speaks.
ASSUME ExecutionAssumption ==
    /\ IsFiniteSet(CallIds) /\ FreshIds \in Seq(CallIds) /\ IsInjective(FreshIds)
    /\ MaxCalls \in Nat /\ MaxCalls <= Len(FreshIds) /\ MaxEmptyRetries \in Nat
    /\ Shapes \subseteq [kind : {"reply", "silence", "info", "side"}, segs : Nat, bad : BOOLEAN]
    /\ \A s \in Shapes : s.bad => s.kind \in {"info", "side"}
    /\ \A h \in Histories :
         /\ h \in Chains(Texts) /\ Prepare(h) = h
         /\ \E i \in DOMAIN h : h[i].role = "user"
         /\ \A i, j \in DOMAIN h : i < j /\ IsPinned(h[j]) => IsPinned(h[i])

VARIABLES
    pc,         \* "ask", "run", "send", "decided", "end"
    chain,      \* response.payloads
    calls,      \* the standardized calls that are not put off
    at,         \* the call the parser is at
    queue,      \* pending_third_party_calls
    failed,     \* failed_call_ids
    own,        \* the answer's own payload is in the chain
    sending,    \* the reply that is being sent: its segments and those sent
    result,     \* ToolCallResult
    used,       \* calls so far, and retries of empty replies
    seen        \* history, for the properties only, see NewSeen

vars == <<pc, chain, calls, at, queue, failed, own, sending, result, used, seen>>

\* said: the visible segments; execFailed, infraFailed: the failure flags.
NewResult == [reply |-> FALSE, silence |-> FALSE, side |-> FALSE, info |-> FALSE,
              said |-> <<>>, execFailed |-> FALSE, infraFailed |-> FALSE]

\* This answer's: what the user got, the calls in the order they ran, replies
\* that ended in an exception or without a result, and the turns before it.
NewSeen(c) == [got |-> <<>>, ran |-> <<>>, broken |-> {}, turns |-> c]

Nothing == [segs |-> <<>>, sent |-> <<>>]

TypeOK ==
    /\ pc \in {"ask", "run", "send", "decided", "end"}
    /\ at \in 1..(MaxCalls + 1) /\ own \in BOOLEAN
    /\ failed \subseteq CallIds
    /\ \A i \in DOMAIN calls : calls[i].id # NoId
    /\ \A i \in DOMAIN queue : queue[i].kind \in {"info", "side"}
    /\ Len(sending.sent) <= Len(sending.segs)

Init ==
    /\ pc = "ask" /\ chain \in Histories
    /\ calls = <<>> /\ at = 1 /\ queue = <<>> /\ failed = {} /\ own = FALSE
    /\ sending = Nothing /\ result = NewResult
    /\ used = [calls |-> 0, retries |-> 0]
    /\ seen = NewSeen(<<>>)

IdsOf(cs)      == {cs[i].id : i \in DOMAIN cs}
Speaks(call)   == call.kind \in {"reply", "silence"}
Answers(ids)   == [i \in 1..Cardinality(ids) |-> Result({SetToSeq(ids)[i]})]

-----------------------------------------------------------------------------
(* The calls of an answer                                                  *)

\* Mutant: only a call without an id gets a new one.
StandardKeepsDuplicates(raw) ==
    [i \in DOMAIN raw |->
        IF raw[i].id = NoId THEN [raw[i] EXCEPT !.id = FreshIds[used.calls + i]] ELSE raw[i]]

\* _standardize_calls: a call without an id, or with that of an earlier call of
\* the answer, gets an id of its own.
Standard(raw) ==
    [i \in DOMAIN raw |->
        IF raw[i].id = NoId \/ \E j \in 1..(i - 1) : raw[j].id = raw[i].id
        THEN [raw[i] EXCEPT !.id = FreshIds[used.calls + i]]
        ELSE raw[i]]

\* _sync_assistant_tool_calls: the calls go over those of the last assistant
\* that has any, one for one.  When the answer's own payload is not there any
\* more (none of its calls had an id) that is an older turn.
Synced(c, cs, mine) ==
    LET callers == {i \in DOMAIN c : c[i].role = "assistant" /\ HasCalls(c[i])}
        last    == CHOOSE i \in callers : \A j \in callers : j <= i
        size    == Cardinality(c[last].calls)
        over    == IF Len(cs) < size THEN Len(cs) ELSE size
    IN IF callers = {} \/ cs = <<>> THEN {c}
       ELSE IF mine THEN {[c EXCEPT ![last].calls = IdsOf(cs)]}
       ELSE {[c EXCEPT ![last].calls = IdsOf(SubSeq(cs, 1, over)) \cup kept] :
               kept \in kSubset(size - over, c[last].calls)}

\* Mutant: a reply in the same answer is sent before the results are read.
PutOffNever(cs) == {}

\* A call the model must read the result of puts off what speaks beside it.
PutOff(cs) ==
    IF \E i \in DOMAIN cs : cs[i].kind = "info"
    THEN {cs[i].id : i \in {i \in DOMAIN cs : Speaks(cs[i])}}
    ELSE {}

\* (After a retry only heal_orphan_tool_results runs: the chain was prepared to
\* be sent, so there is nothing else that Repair would change.)
Answer(raw) ==
    /\ raw # <<>>
    /\ LET answered == Repair(Append(chain, Assistant({}, IdsOf(raw))))
           cs       == Standard(raw)
           mine     == IdsOf(raw) # {NoId}
           missing  == {cs[i].id : i \in {i \in DOMAIN cs : cs[i].bad}}
       IN /\ \E synced \in Synced(answered, cs, mine) :
               chain' = RemoveCalls(synced \o Answers(missing), PutOff(cs))
          /\ calls' = Those(cs, LAMBDA call : call.id \notin PutOff(cs))
          /\ own' = mine
          /\ result' = [NewResult EXCEPT !.side = missing # {}]
    /\ used' = [used EXCEPT !.calls = @ + Len(raw)]
    /\ seen' = NewSeen(Turns(chain))
    /\ at' = 1 /\ queue' = <<>> /\ failed' = {} /\ sending' = Nothing
    /\ pc' = "run"

-----------------------------------------------------------------------------
(* The calls are run                                                       *)

Here == calls[at]

Running(kinds) == pc = "run" /\ at <= Len(calls) /\ Here.kind \in kinds

\* A call that was answered already, because an argument is missing.
Skip ==
    /\ Running({"info", "side"}) /\ Here.bad
    /\ result' = [result EXCEPT !.info = @ \/ Here.kind = "info"]
    /\ at' = at + 1
    /\ UNCHANGED <<pc, chain, calls, queue, failed, own, sending, used, seen>>

Queue ==
    /\ Running({"info", "side"}) /\ ~Here.bad
    /\ queue' = Append(queue, Here)
    /\ result' = [result EXCEPT !.side = TRUE, !.info = @ \/ Here.kind = "info"]
    /\ at' = at + 1
    /\ UNCHANGED <<pc, chain, calls, failed, own, sending, used, seen>>

\* Mutant: what is queued is run only after all that speaks.
FlushDueLast == queue # <<>> /\ at > Len(calls)

\* What is queued is run before the next call that speaks, and at the end.
FlushDue == queue # <<>> /\ (at <= Len(calls) => Speaks(Here))

\* run_tool_call on the queue: each call ends with a result, or without one
\* (not registered, no message to act on, an exception).
Flush ==
    /\ pc = "run" /\ FlushDue
    /\ \E none \in SUBSET IdsOf(queue) :
         /\ chain' = chain \o Answers(IdsOf(queue) \ none)
         /\ failed' = failed \cup none
    /\ seen' = [seen EXCEPT !.ran = @ \o [i \in DOMAIN queue |-> queue[i].id]]
    /\ queue' = <<>>
    /\ UNCHANGED <<pc, calls, at, own, sending, result, used>>

StaySilent ==
    /\ Running({"silence"}) /\ ~FlushDue
    /\ \/ chain' = Append(chain, Result({Here.id})) /\ UNCHANGED failed
       \/ failed' = failed \cup {Here.id} /\ UNCHANGED chain
    /\ result' = [result EXCEPT !.silence = TRUE]
    /\ seen' = [seen EXCEPT !.ran = Append(@, Here.id)]
    /\ at' = at + 1
    /\ UNCHANGED <<pc, calls, queue, own, sending, used>>

-----------------------------------------------------------------------------
(* A reply                                                                 *)

HasDraft == \E i \in DOMAIN chain : chain[i].role = "assistant" /\ "draft" \in chain[i].text

\* An empty content is filled from the last draft in the chain, as extracted or
\* as it is.
Content ==
    IF Here.segs > 0 THEN [n \in 1..Here.segs |-> <<Here.id, n>>]
    ELSE IF HasDraft THEN <<<<Here.id, "draft">>>>
    ELSE <<>>

StartReply ==
    /\ Running({"reply"}) /\ ~FlushDue
    /\ sending' = [segs |-> Content, sent |-> <<>>]
    /\ result' = [result EXCEPT !.reply = TRUE]
    /\ seen' = [seen EXCEPT !.ran = Append(@, Here.id)]
    /\ pc' = "send"
    /\ UNCHANGED <<chain, calls, at, queue, failed, own, used>>

NextSegment == sending.segs[Len(sending.sent) + 1]

\* A segment is sent whole, after part of it was streamed or at once.
SendSegment ==
    /\ pc = "send" /\ Len(sending.sent) < Len(sending.segs)
    /\ sending' = [sending EXCEPT !.sent = Append(@, NextSegment)]
    /\ seen' = [seen EXCEPT !.got = Append(@, NextSegment)]
    /\ UNCHANGED <<pc, chain, calls, at, queue, failed, own, result, used>>

\* The reply's call is done: how, what it reports, the flags it leaves.
ReplyDone(said, execFailed, infraFailed) ==
    /\ result' = [result EXCEPT !.said = @ \o said, !.execFailed = execFailed,
                                !.infraFailed = infraFailed]
    /\ sending' = Nothing /\ at' = at + 1 /\ pc' = "run"
    /\ UNCHANGED <<calls, queue, own, used>>

WithResult == chain' = Append(chain, Result({Here.id})) /\ UNCHANGED failed

ReplySent ==
    /\ pc = "send" /\ sending.segs # <<>> /\ sending.sent = sending.segs
    /\ WithResult /\ ReplyDone(sending.sent, FALSE, FALSE)
    /\ UNCHANGED seen

\* No content is left: refused, and not a failure to send.
ReplyEmpty ==
    /\ pc = "send" /\ sending.segs = <<>>
    /\ WithResult /\ ReplyDone(<<>>, FALSE, FALSE)
    /\ UNCHANGED seen

\* Mutant: all segments are reported when one could not be sent.
ReportedAll == sending.segs

Reported == sending.sent

\* A segment cannot be sent: the reply stops there and reports those before.
SendFails ==
    /\ pc = "send" /\ Len(sending.sent) < Len(sending.segs)
    /\ WithResult /\ ReplyDone(Reported, TRUE, TRUE)
    /\ UNCHANGED seen

\* An exception: a result without a report, what was sent is not known.
ReplyRaises ==
    /\ pc = "send" /\ Len(sending.sent) < Len(sending.segs)
    /\ WithResult /\ ReplyDone(<<>>, TRUE, result.infraFailed)
    /\ seen' = [seen EXCEPT !.broken = @ \cup {Here.id}]

\* The call was not run: no result.  The parser reads the latest result with
\* the call's id wherever it is in the chain, so an earlier turn's report is
\* taken for this reply's when the provider gave that id before.
OldReport == {i \in DOMAIN chain : chain[i].role = "result" /\ Here.id \in chain[i].results}

ReplySkipped ==
    /\ pc = "send" /\ sending.sent = <<>>
    /\ failed' = failed \cup {Here.id} /\ UNCHANGED chain
    /\ \/ ReplyDone(<<>>, TRUE, result.infraFailed)
       \/ OldReport # {} /\ ReplyDone(<<<<Here.id, "old">>>>, FALSE, FALSE)
    /\ seen' = [seen EXCEPT !.broken = @ \cup {Here.id}]

-----------------------------------------------------------------------------
(* The decision                                                            *)

Left(c, ids) == RemoveCalls(c, ids)

Finish ==
    /\ pc = "run" /\ at > Len(calls) /\ queue = <<>>
    /\ LET kept == Those(calls, LAMBDA call : call.id \notin failed) IN
       /\ calls' = kept
       /\ chain' \in Synced(Left(chain, failed), kept, own)
    /\ pc' = "decided"
    /\ UNCHANGED <<at, queue, failed, own, sending, result, used, seen>>

ChoseSilence    == result.silence /\ ~result.reply
ThirdPartyCalls == \E i \in DOMAIN calls : ~Speaks(calls[i])

\* Mutant: an empty reply is one that reports nothing, whatever the cause.
RetryDueAlways == result.reply /\ result.said = <<>> /\ used.retries < MaxEmptyRetries

\* empty_reply_retry_due
RetryDue ==
    /\ result.reply /\ result.said = <<>> /\ ~result.infraFailed
    /\ used.retries < MaxEmptyRetries

\* The results are for the model to read now.
FollowupDue ==
    /\ ~RetryDue /\ ~result.reply
    /\ result.info \/ (ThirdPartyCalls /\ ~ChoseSilence)

Retry ==
    /\ pc = "decided" /\ RetryDue
    /\ LET empty  == {calls[i].id : i \in {i \in DOMAIN calls :
                                             calls[i].kind = "reply" /\ calls[i].segs = 0}}
       IN chain' = Prepare(Append(Prepare(PurgeReply(chain, empty)), User({"retry"})))
    /\ used' = [used EXCEPT !.retries = @ + 1]
    /\ pc' = "ask"
    /\ UNCHANGED <<calls, at, queue, failed, own, sending, result, seen>>

Followup ==
    /\ pc = "decided" /\ FollowupDue
    /\ chain' = Prepare(chain)
    /\ pc' = "ask"
    /\ UNCHANGED <<calls, at, queue, failed, own, sending, result, used, seen>>

\* The turn is over: wait for the user, or stop.
End ==
    /\ pc = "decided" /\ ~RetryDue /\ ~FollowupDue
    /\ chain' \in {WithSuspend(chain), chain}
    /\ pc' = "end"
    /\ UNCHANGED <<calls, at, queue, failed, own, sending, result, used, seen>>

Call(id, s) == [id |-> id, kind |-> s.kind, segs |-> s.segs, bad |-> s.bad]
Batches     == BoundedSeq({Call(id, s) : id \in GivenIds \cup {NoId}, s \in Shapes},
                          MaxCalls - used.calls)

\* What the plugin does by itself, once the model has answered.
Step ==
    \/ Skip \/ Queue \/ Flush \/ StaySilent
    \/ StartReply \/ SendSegment \/ ReplySent \/ ReplyEmpty
    \/ SendFails \/ ReplyRaises \/ ReplySkipped
    \/ Finish \/ Retry \/ Followup \/ End

Next == Step \/ (pc = "ask" /\ \E raw \in Batches : Answer(raw))

Spec == Init /\ [][Next]_vars

-----------------------------------------------------------------------------
(* Properties                                                              *)

\* Whatever was intercepted, put off or failed, a round leaves a chain that can
\* be sent as it is: each call that stays has its one result, in its own turn.
\* The earlier turns it leaves alone, ids used before or not.  (An answer none
\* of whose calls has an id loses its payload before the parser runs; its
\* results are repaired away with the older turn they are put upon.)
RoundAddsTurn ==
    pc = "decided" /\ own => Sendable(chain) /\ IsPrefix(seen.turns, Turns(chain))

\* What the decision reports, and the session stores as said, is what the user
\* got, segment by segment, over all replies of the answer.
ReportedIsGot ==
    pc = "decided" /\ seen.broken = {} => result.said = seen.got

\* Nothing is run twice, and what misses an argument is not run at all.  When the
\* round is over every other call that was not put off has run, none was lost in
\* the queue, and what speaks kept its place between the other calls.
RunInOrder ==
    LET due == {i \in DOMAIN calls : ~calls[i].bad} IN
    /\ IsInjective(seen.ran)
    /\ \A i \in DOMAIN calls \ due : calls[i].id \notin ToSet(seen.ran)
    /\ pc = "decided" =>
         /\ ToSet(seen.ran) = {calls[i].id : i \in due} \cup failed
         /\ \A i, j \in due : i < j =>
              \E m, n \in DOMAIN seen.ran :
                 m < n /\ seen.ran[m] = calls[i].id /\ seen.ran[n] = calls[j].id

\* While the model waits for what it asked about it has said nothing, and it is
\* asked again: no reply goes out beside a question, wherever it stood.
NothingSaidUnread ==
    pc = "decided" /\ result.info => seen.got = <<>> /\ FollowupDue

\* The model is asked to say it again only when it gave nothing to say: what it
\* said and could not be sent is not asked for twice.  (With several replies in
\* an answer the last one alone decides; an exception or a call that is not run
\* leaves no trace of a failure to send.)
RetryOnlyEmpty ==
    LET replies == {i \in DOMAIN calls : calls[i].kind = "reply"} IN
    pc = "decided" /\ RetryDue /\ seen.broken = {} /\ Cardinality(replies) = 1
        => seen.got = <<>> /\ \A i \in replies : calls[i].segs = 0

\* tests/test_parser_execution.py:192, a failed reply is not reported as output:
\* what is reported as said reached the user.
FailedReplyNotReported ==
    pc = "decided" => ToSet(result.said) \subseteq ToSet(seen.got)
=============================================================================
