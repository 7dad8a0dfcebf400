------------------------------ MODULE Requests ------------------------------
(***************************************************************************)
(* The response chain of one stream through turns, retries, interrupts,    *)
(* waits, restarts of execute() and restarts of the process, with the two  *)
(* things the session keeps of it: chain_payloads and request_snapshot.    *)
(* What one round of tool calls does is summed up by its outcome here      *)
(* (Execute); Execution.tla has the rounds themselves.                     *)
(***************************************************************************)
EXTENDS Payloads

CONSTANTS
    Messages,       \* the user's messages, in the order they arrive
    Notes,          \* the transient notes, one for each request that has one
    MaxRetries,     \* config.general.max_compat_retries
    MaxSaved,       \* config.prompt.max_context_payloads
    MaxAnswers,     \* bound: rounds of tool calls
    MaxFaults       \* bound: failed, cancelled or interrupted requests, crashes,
                    \* ends of execute() and clears, all together

\* A message or a note has a text of its own, so that a text says which it is.
ASSUME RequestsAssumption ==
    /\ MaxRetries \in Nat /\ MaxSaved \in Nat \ {0}
    /\ MaxAnswers \in Nat /\ MaxFaults \in Nat
    /\ Messages \in Seq(ToSet(Messages)) /\ Notes \in Seq(ToSet(Notes))
    /\ IsInjective(Messages) /\ IsInjective(Notes)
    /\ ToSet(Messages) \cap ToSet(Notes) = {}
    /\ (ToSet(Messages) \cup ToSet(Notes)) \cap Words = {}

VARIABLES
    pc,         \* where execute() is; "idle": it does not run
    chain,      \* response.payloads of the loop
    local,      \* response.payloads inside _send_with_perceive_loop
    request,    \* the payloads of the request in flight
    note,       \* text of this request's transient payload, or {}
    loop,       \* the loop's and the session's flags, see NewLoop
    pre,        \* pre_send_user_text and chain_user_pre_saved
    session,    \* in memory: chain_payloads, request_snapshot, restored flag
    restored,   \* the stream is in NFCRequestSnapshotHandler._restored_streams
    disk,       \* chain_payloads and request_snapshot as last saved
    used,       \* messages that arrived, notes made, answers, faults so far
    past        \* history, for the properties only: notes sent since the process
                \* started, the conversation it was started with, whether
                \* an attempt ended since, and what the last clear forgot

vars == <<pc, chain, local, request, note, loop, pre, session, restored, disk, used, past>>

\* waiting: session.is_waiting(); tools: has_pending_tool_results; asking: in
\* the retry of an empty reply; fresh: the response is still the first request.
NewLoop    == [waiting |-> FALSE, tools |-> FALSE, asking |-> FALSE, fresh |-> TRUE,
               tries |-> 0]
NewPre     == [text |-> {}, saved |-> FALSE]
NewSession == [saved |-> <<>>, snap |-> <<>>, flag |-> FALSE]
OnDisk(s)  == [saved |-> s.saved, snap |-> s.snap]

Init ==
    /\ pc = "idle" /\ chain = <<>> /\ local = <<>> /\ request = <<>> /\ note = {}
    /\ loop = NewLoop /\ pre = NewPre
    /\ session = NewSession /\ restored = FALSE /\ disk = OnDisk(NewSession)
    /\ used = [messages |-> 0, notes |-> 0, answers |-> 0, faults |-> 0]
    /\ past = [notes |-> {}, owed |-> <<>>, ended |-> FALSE, forgotten |-> {}]

-----------------------------------------------------------------------------
(* The persisted chain                                                     *)

\* A chain entry is text only.  strip_persisted_system_reminders takes the
\* prompt after a draft out of it; the prompt after an empty reply stays.
Entry(role, text) == [role |-> role, text |-> text \ {"followup"}]

FromFirstUser(entries) ==
    LET users == {i \in DOMAIN entries : entries[i].role = "user"}
    IN IF users = {} THEN <<>>
       ELSE SubSeq(entries, CHOOSE i \in users : \A j \in users : i <= j, Len(entries))

\* update_chain: append what says something, keep the last MaxSaved entries,
\* start with a user.
UpdateChain(entries, new) ==
    LET all == entries \o Those(new, LAMBDA e : e.text # {}) IN
    IF Len(all) <= MaxSaved THEN all
    ELSE FromFirstUser(SubSeq(all, Len(all) - MaxSaved + 1, Len(all)))

\* restore_chain_payloads
SavedPayloads(entries) ==
    LET from == FromFirstUser(entries)
    IN [i \in DOMAIN from |-> IF from[i].role = "user" THEN User(from[i].text)
                              ELSE Assistant(from[i].text, {})]

Save(s) == session' = s /\ disk' = OnDisk(s)

-----------------------------------------------------------------------------
(* execute() starts                                                        *)

\* The snapshot is still to be restored by the first request: the persisted
\* chain, the summary and the narrative stay out of the initial context.
ToRestore == session.snap # <<>> /\ ~session.flag

\* Mutant: the persisted chain is put in although the snapshot comes as well.
InitialHistoryAlways == <<User({"now"})>> \o SavedPayloads(session.saved)

InitialHistory ==
    IF ToRestore THEN <<>> ELSE <<User({"now"})>> \o SavedPayloads(session.saved)

Start ==
    /\ pc = "idle"
    /\ pc' = "ready"
    /\ chain' = <<System, Tools>> \o InitialHistory
    /\ loop' = NewLoop /\ pre' = NewPre
    /\ Save(session)
    /\ UNCHANGED <<local, request, note, restored, used, past>>

-----------------------------------------------------------------------------
(* prepare_turn_input                                                      *)

\* A user payload at the tail takes the new text in, else one is added.
AddInput(c, text) ==
    IF c # <<>> /\ Last(c).role = "user"
    THEN [c EXCEPT ![Len(c)].text = @ \cup text]
    ELSE Append(c, User(text))

LastUserText(c) ==
    LET users == {i \in DOMAIN c : c[i].role = "user"}
    IN IF users = {} THEN {} ELSE c[CHOOSE i \in users : \A j \in users : j <= i].text

\* The user text is persisted before the request, once for each text.
PreSave(c) ==
    LET text == LastUserText(c) IN
    IF text = {} \/ (text = pre.text /\ pre.saved)
    THEN UNCHANGED <<session, disk, pre>>
    ELSE /\ Save([session EXCEPT !.saved = UpdateChain(@, <<Entry("user", text)>>)])
         /\ pre' = [text |-> text, saved |-> TRUE]

\* The turn's contributions, if it has any, make the note of its request.
MayHaveNote ==
    \/ note' = {} /\ used' = [used EXCEPT !.messages = @ + 1]
    \/ /\ used.notes < Len(Notes)
       /\ note' = {Notes[used.notes + 1]}
       /\ used' = [used EXCEPT !.messages = @ + 1, !.notes = @ + 1]

NewMessage ==
    /\ pc = "ready" /\ used.messages < Len(Messages)
    /\ LET text == {Messages[used.messages + 1]}
           c    == Prepare(AddInput(Prepare(chain), text))
       IN chain' = c /\ PreSave(c)
    /\ MayHaveNote
    /\ loop' = [loop EXCEPT !.waiting = FALSE, !.tools = FALSE]
    /\ pc' = "sending"
    /\ UNCHANGED <<local, request, restored, past>>

\* The results of tools the model waits for are in the chain.
Followup ==
    /\ pc = "ready" /\ loop.tools
    /\ chain' = Prepare(chain) /\ PreSave(Prepare(chain))
    /\ loop' = [loop EXCEPT !.tools = FALSE]
    /\ pc' = "sending"
    /\ UNCHANGED <<local, request, note, restored, used, past>>

\* The wait runs out: the prompt is a note, nothing is added to the chain.
Timeout ==
    /\ pc = "ready" /\ loop.waiting /\ used.notes < Len(Notes)
    /\ note' = {Notes[used.notes + 1]}
    /\ used' = [used EXCEPT !.notes = @ + 1]
    /\ chain' = Prepare(WithSuspend(Prepare(chain)))
    /\ loop' = [loop EXCEPT !.waiting = FALSE]
    /\ pc' = "sending"
    /\ UNCHANGED <<local, request, pre, session, disk, restored, past>>

-----------------------------------------------------------------------------
(* One request: the view, the event handler, the answer                    *)

\* build_request_view: the note is the last payload of the request.
View(c) == IF note = {} THEN c ELSE Append(c, User(note))

\* Mutant: a request with a note has no place for the history.
WithHistoryUnlessNote(c) ==
    IF restored \/ note # {} THEN c ELSE Inject(c, Restore(session.snap))

\* The history goes into the first request the process makes for the stream.
WithHistory(c) == IF restored THEN c ELSE Inject(c, Restore(session.snap))

Sent(c) == Repair(WithHistory(View(c)))

\* The request of the loop's chain, or of the response that was only text;
\* NFCRequestSnapshotHandler.execute restores, repairs, captures and saves.
Attempt ==
    /\ pc = "sending"
    /\ LET c == Prepare(IF loop.tries = 0 THEN chain ELSE local) IN
       /\ chain' = IF loop.tries = 0 THEN c ELSE chain
       /\ local' = c
       /\ request' = Sent(c)
       /\ Save([session EXCEPT !.snap = Capture(Sent(c)), !.flag = @ \/ ~restored])
    /\ restored' = TRUE
    /\ past' = [past EXCEPT !.notes = @ \cup note]
    /\ pc' = "flight"
    /\ UNCHANGED <<note, loop, pre, used>>

\* The local response and the note are gone.
NoRequest == local' = <<>> /\ request' = <<>> /\ note' = {}

Fault == used.faults < MaxFaults /\ used' = [used EXCEPT !.faults = @ + 1]

\* The provider fails or new messages cancel the task: the loop goes on with
\* the chain it had; in the retry of an empty reply it sends it once more.  A
\* view sends a request of its own, so history put in by the handler is not in
\* the loop's chain; when that chain is itself the request that failed, whether
\* it kept the history is the framework's choice.
Fail ==
    /\ pc = "flight" /\ Fault
    /\ chain' \in IF loop.fresh /\ loop.tries = 0 /\ note = {}
                  THEN {chain, request} ELSE {chain}
    /\ pc' = IF loop.asking THEN "sending" ELSE "ready"
    /\ loop' = [loop EXCEPT !.tries = 0]
    /\ past' = [past EXCEPT !.ended = TRUE]
    /\ NoRequest
    /\ UNCHANGED <<pre, session, restored, disk>>

\* Text instead of calls: an unsent draft and a prompt, and another request.
AnswerText ==
    /\ pc = "flight" /\ loop.tries < MaxRetries
    /\ local' = WithDraft(Append(request, Assistant({"said"}, {})))
    /\ loop' = [loop EXCEPT !.tries = @ + 1]
    /\ request' = <<>> /\ pc' = "sending"
    /\ UNCHANGED <<chain, note, pre, session, restored, disk, used, past>>

\* Mutant: the chain continues the response as it came, note included.
ContinuedWithNote(r, text, ids) == Repair(Append(r, Assistant(text, ids)))

\* The response continues the request; the loop takes the note out again.
Continued(r, text, ids) ==
    LET c == Append(r, Assistant(text, ids)) IN
    Repair(IF note = {} THEN c ELSE Strip(c, note))

Answer(text, ids) ==
    /\ pc = "flight" /\ used.answers < MaxAnswers
    /\ used' = [used EXCEPT !.answers = @ + 1]
    /\ chain' = Continued(request, text, ids)
    /\ loop' = [loop EXCEPT !.tries = 0, !.asking = FALSE, !.fresh = FALSE]
    /\ past' = [past EXCEPT !.ended = TRUE]
    /\ NoRequest
    /\ UNCHANGED <<pre, session, restored, disk>>

AnswerCalls(ids) == Answer({}, ids) /\ pc' = "execute"

\* Text, and no retry left: the decision has no call to run.
AnswerTextLast == loop.tries = MaxRetries /\ Answer({"said"}, {}) /\ pc' = "commit"

-----------------------------------------------------------------------------
(* The calls and the decision                                              *)

OpenCalls ==
    IF chain # <<>> /\ Last(chain).role = "assistant" THEN Last(chain).calls ELSE {}

\* The calls that were answered, those that left no result behind, and those
\* put off to the next round, of which some were refused with a result before.
Executed(done, failed, off) ==
    RemoveCalls(RemoveCalls(IF done = {} THEN chain ELSE Append(chain, Result(done)), off),
                failed)

Execute ==
    /\ pc = "execute"
    /\ \E failed, off \in SUBSET OpenCalls : \E refused \in SUBSET off :
         /\ failed \cap off = {}
         /\ chain' = Executed((OpenCalls \ (failed \cup off)) \cup refused, failed, off)
    /\ pc' = "commit"
    /\ UNCHANGED <<local, request, note, loop, pre, session, restored, disk, used, past>>

TailCalls ==
    LET makers == {i \in DOMAIN chain : HasCalls(chain[i]) /\ IsTail(chain, i)}
    IN UNION {chain[i].calls : i \in makers}

\* An empty reply: its call and result go and the model is asked again.  A reply
\* that was put off or left no result has no call in the chain to remove.
EmptyReply ==
    /\ pc = "commit" /\ Last(chain).role # "assistant"
    /\ \E ids \in SUBSET TailCalls :
         chain' = Prepare(Append(Prepare(PurgeReply(chain, ids)), User({"retry"})))
    /\ loop' = [loop EXCEPT !.asking = TRUE]
    /\ pc' = "sending"
    /\ UNCHANGED <<local, request, note, pre, session, restored, disk, used, past>>

\* commit_turn_decision: a visible reply is added to the persisted chain.
Reply(visible) ==
    IF visible /\ pre.text # {}
    THEN Save([session EXCEPT !.saved = UpdateChain(@,
            (IF pre.saved THEN <<>> ELSE <<Entry("user", pre.text)>>)
              \o <<Entry("assistant", {"said"})>>)])
    ELSE UNCHANGED <<session, disk>>

\* The model reads the results of its tools at once, or what is left when none
\* of them gave one.
CommitTools ==
    /\ pc = "commit" /\ Last(chain).role # "assistant"
    /\ loop' = [loop EXCEPT !.tools = TRUE]
    /\ pc' = "ready"
    /\ UNCHANGED <<chain, local, request, note, pre, session, restored, disk, used, past>>

CommitWait ==
    /\ pc = "commit"
    /\ \E visible \in BOOLEAN : Reply(visible)
    /\ chain' = WithSuspend(chain)
    /\ loop' = [loop EXCEPT !.waiting = TRUE]
    /\ pc' = "ready"
    /\ UNCHANGED <<local, request, note, pre, restored, used, past>>

-----------------------------------------------------------------------------
(* execute() ends and the chain goes with it                               *)

End == pc' = "idle" /\ chain' = <<>> /\ NoRequest /\ loop' = NewLoop /\ pre' = NewPre

\* Stop after the decision.
CommitStop ==
    /\ pc = "commit" /\ Fault
    /\ \E visible \in BOOLEAN : Reply(visible)
    /\ End
    /\ UNCHANGED <<restored, past>>

\* A Failure: an error that is not retried, or one too many.
GiveUp ==
    /\ pc = "flight" /\ Fault /\ End
    /\ past' = [past EXCEPT !.ended = TRUE]
    /\ UNCHANGED <<session, restored, disk>>

\* Mutant: the clear forgets the chain and leaves the snapshot.
ClearedKeepsSnapshot == [NewSession EXCEPT !.snap = session.snap]

Cleared == NewSession

\* ContextClearHandler: the generator is closed, the session reset and saved,
\* and the stream forgotten by the snapshot handler.
Clear ==
    /\ Fault /\ End
    /\ Save(Cleared)
    /\ restored' = FALSE
    /\ past' = [past EXCEPT !.owed = <<>>,
                            !.forgotten = ToSet(SubSeq(Messages, 1, used.messages))]

\* The process dies anywhere and comes back with what the disk has.
Crash ==
    /\ Fault /\ End
    /\ session' = [saved |-> disk.saved, snap |-> disk.snap, flag |-> FALSE]
    /\ restored' = FALSE
    /\ past' = [past EXCEPT !.notes = {}, !.owed = Restore(disk.snap), !.ended = FALSE]
    /\ UNCHANGED disk

Next ==
    \/ Start \/ NewMessage \/ Followup \/ Timeout
    \/ Attempt \/ Fail \/ AnswerText \/ AnswerTextLast
    \/ \E ids \in (SUBSET CallIds) \ {{}} : AnswerCalls(ids)
    \/ Execute \/ EmptyReply \/ CommitTools \/ CommitWait
    \/ CommitStop \/ GiveUp \/ Clear \/ Crash

Spec == Init /\ [][Next]_vars

-----------------------------------------------------------------------------
(* Properties                                                              *)

Told(c) == Said(c) \cap ToSet(Messages)

TypeOK ==
    /\ pc \in {"idle", "ready", "sending", "flight", "execute", "commit"}
    /\ \A c \in {chain, local, request, session.snap} : \A i \in DOMAIN c :
         /\ c[i].role \in {"system", "tool", "user", "assistant", "result"}
         /\ c[i].calls \cup c[i].results \subseteq CallIds
         /\ c[i].calls # {} => c[i].role = "assistant"
         /\ c[i].results # {} => c[i].role = "result"
    /\ Len(session.saved) <= MaxSaved
    /\ loop.tries \in 0..MaxRetries

\* The provider refuses a request whose roles are out of order, which has a call
\* without its result or in which the model has the last word: whatever failed,
\* was cut short or came back from disk, no request the plugin makes is such a one.
EveryRequestSendable ==
    pc = "flight" => Sendable(request) /\ LastRole(request) \in {"user", "result"}

\* A note is for one request: between turns nothing of the notes made since
\* the process started is left in the chain.
OwnNoteStripped == pc = "ready" => Said(chain) \cap past.notes = {}

\* As long as execute() runs, no repair of the chain drops what the user said,
\* and the settled turns stay as they were: repairs, failures and reused call
\* ids touch the last group only.  (The prefix keeps the provider's cache warm.)
HistoryStable ==
    [][pc # "idle" /\ pc' # "idle" =>
         /\ Told(chain) \subseteq Told(chain')
         /\ Turns(chain) # <<>> => IsPrefix(Front(Turns(chain)), Turns(chain'))]_vars

\* What a restart would bring back is the request as it was sent, with all that
\* was said in it and all its calls and results.
SnapshotFaithful ==
    pc = "flight" =>
        /\ Said(Restore(session.snap)) = Said(request)
        /\ Turns(Restore(session.snap)) = Turns(request)

\* The three ways history gets into a request (the loop's chain, the persisted
\* chain, the snapshot) never tell the model a message twice.  It comes again
\* only in a text that has a later message as well: its request was interrupted
\* or all its calls failed, and the next message was merged into it.
NoMessageTwice ==
    pc = "flight" =>
        \A i, j \in {i \in DOMAIN request : request[i].role = "user"} :
            i < j => LET earlier == request[i].text \cap ToSet(Messages)
                         later   == request[j].text \cap ToSet(Messages)
                     IN earlier \cap later # {} =>
                            earlier \subseteq later /\ earlier # later

\* The first request after a restart has the whole conversation the process was
\* started with, calls and results included, also when it is made several times
\* because the model answered with text.  (When the first attempt fails, the
\* loop's chain is without it and the stream counts as restored.)
RestartKnowsHistory ==
    pc = "flight" /\ ~past.ended =>
        /\ Told(past.owed) \subseteq Told(request)
        /\ IsPrefix(Turns(past.owed), Turns(request))

\* Nothing from before a clear is ever sent or stored again.
ClearForgets ==
    /\ Told(request) \cap past.forgotten = {}
    /\ Told(session.snap) \cap past.forgotten = {}
    /\ \A i \in DOMAIN session.saved : session.saved[i].text \cap past.forgotten = {}

\* MECHANISM.md:197: the note "is stripped after sending and no longer stays in
\* the response chain (the old implementation took it across restarts)".
NoStaleNote ==
    pc = "flight" => Said(request) \cap ToSet(Notes) \subseteq note

=============================================================================
