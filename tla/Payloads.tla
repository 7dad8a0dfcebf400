------------------------------ MODULE Payloads ------------------------------
(***************************************************************************)
(* The payload chain sent to the model, and every operation of the plugin  *)
(* that rewrites one: the two sanitizers (services/context_sanitizer.py),  *)
(* the snapshot's capture and restore (snapshot.py), the transient view    *)
(* (runtime/request_view.py), the unsent draft (protocol/) and the removal *)
(* of calls that failed (parser.py).                                       *)
(*                                                                         *)
(* A payload is a record.  "text" is the set of things its text parts say  *)
(* (a message, "draft", "suspend", ...: what the rules below distinguish), *)
(* "calls" the ids of its tool calls and "results" the call ids its tool   *)
(* results answer.  NoId stands for the calls the provider gave no id.     *)
(***************************************************************************)
EXTENDS Lists, FiniteSets, SequencesExt

CONSTANT CallIds    \* ids of calls: the provider's, and those the parser makes

NoId == ""

ASSUME PayloadsAssumption == NoId \notin CallIds

Payload(role, text, calls, results) ==
    [role |-> role, text |-> text, calls |-> calls, results |-> results]
System                 == Payload("system", {}, {}, {})
Tools                  == Payload("tool", {}, {}, {})
User(text)             == Payload("user", text, {}, {})
Assistant(text, calls) == Payload("assistant", text, calls, {})
Result(ids)            == Payload("result", {}, {}, ids)

Suspend == Assistant({"suspend"}, {})
Bridge  == User({"bridge"})

\* What a text says that is neither a message nor a note: the time at the start
\* of the first request, the answers, and what the plugin puts in.
Words == {"now", "said", "suspend", "bridge", "draft", "followup", "retry"}

\* The payloads that say what is in W, and the chains of them.  Calls are an
\* assistant's and results a tool's; messages and notes are said by users only,
\* who always say something.
Roles == {"system", "tool", "user", "assistant", "result"}

Lines(W) ==
    {p \in [role : Roles, text : SUBSET W, calls : SUBSET CallIds, results : SUBSET CallIds] :
        /\ p.calls # {} => p.role = "assistant"
        /\ p.results # {} => p.role = "result"
        /\ p.role = "assistant" => p.text \subseteq Words
        /\ p.text # {} => p.role \in {"user", "assistant"}
        /\ p.role = "user" => p.text # {}}

Chains(W) == Seq(Lines(W))

IsPinned(p)   == p.role \in {"system", "tool"}
HasCalls(p)   == p.calls # {}
Ids(p)        == p.calls \ {NoId}
IsSuspend(p)  == p.role = "assistant" /\ ~HasCalls(p) /\ p.text = {"suspend"}
Continues(p)  == p.role = "result" \/ IsPinned(p)

\* What the role rules see of a chain.
Conversation(c) == Those(c, LAMBDA p : ~IsPinned(p))

-----------------------------------------------------------------------------
(* The framework's validator: an assistant follows a user or a result, the *)
(* results right after it answer its calls, each once and no other.        *)

\* The conversation payloads that answer the assistant at index i.
AnswersOf(k, i) ==
    {j \in (i + 1)..Len(k) : \A n \in (i + 1)..j : k[n].role = "result"}

Valid(c) ==
    LET k == Conversation(c) IN
    /\ k # <<>> => k[1].role = "user"
    /\ \A i \in DOMAIN k :
         /\ k[i].role = "assistant" => k[i - 1].role \in {"user", "result"}
         /\ k[i].role = "result" =>
              \E a \in 1..(i - 1) :
                 /\ i \in AnswersOf(k, a)
                 /\ k[i].results # {}
                 /\ k[i].results \subseteq k[a].calls
                 /\ \A j \in AnswersOf(k, a) \ {i} : k[j].results \cap k[i].results = {}

Answered(k, i) == UNION {k[j].results : j \in AnswersOf(k, i)}

\* A chain that may be sent has no call left open, not even the last one.
Sendable(c) ==
    LET k == Conversation(c) IN
    Valid(c) /\ \A i \in DOMAIN k : k[i].calls \subseteq Answered(k, i)

-----------------------------------------------------------------------------
(* heal_orphan_tool_results: the groups of an assistant with calls and the *)
(* pinned or result payloads that follow it.                               *)

\* The assistant whose group the payload at index j is in, or 0.
Caller(c, j) ==
    LET before == {i \in 1..(j - 1) : /\ c[i].role = "assistant" /\ Ids(c[i]) # {}
                                      /\ \A k \in (i + 1)..j : Continues(c[k])}
    IN IF before = {} THEN 0 ELSE CHOOSE i \in before : TRUE

GroupOf(c, i)  == {j \in (i + 1)..Len(c) : \A k \in (i + 1)..j : Continues(c[k])}
Matched(c, i)  == Ids(c[i]) \cap UNION {c[j].results : j \in GroupOf(c, i)}
IsTail(c, i)   == \A j \in (i + 1)..Len(c) : j \in GroupOf(c, i)
Missing(c, i)  == Ids(c[i]) \ Matched(c, i)

\* A group before the tail with a call nobody answered is history: dropped.
Broken(c, i)   == Missing(c, i) # {} /\ ~IsTail(c, i)
\* The tail group of a turn that ran in part loses the calls that did not.
Partial(c, i)  == Missing(c, i) # {} /\ IsTail(c, i) /\ Matched(c, i) # {}

\* The results at index j that are the first to answer a call of the group.
FirstAnswers(c, i, j) ==
    (c[j].results \cap Ids(c[i]))
        \ UNION {c[k].results : k \in {k \in GroupOf(c, i) : k < j}}

HealedAt(c, j) ==
    LET p == c[j]
        i == Caller(c, j)
    IN CASE p.role = "assistant" /\ HasCalls(p) ->
              IF Ids(p) = {} \/ Broken(c, j) THEN <<>>
              ELSE IF Partial(c, j) THEN <<[p EXCEPT !.calls = Matched(c, j)]>>
              ELSE <<p>>
         [] p.role = "result" ->
              IF i = 0 \/ Broken(c, i) \/ FirstAnswers(c, i, j) = {} THEN <<>>
              ELSE <<[p EXCEPT !.results = FirstAnswers(c, i, j)]>>
         [] IsPinned(p) /\ i # 0 /\ Broken(c, i) -> <<>>
         [] OTHER -> <<p>>

Heal(c) == FlattenSeq([j \in DOMAIN c |-> HealedAt(c, j)])

-----------------------------------------------------------------------------
(* sanitize_payload_chain: one pass with the calls still open ("pending"), *)
(* declared by the payload at index "at" of what was kept so far ("out").  *)

LastRole(c) == LET k == Conversation(c) IN IF k = <<>> THEN "none" ELSE Last(k).role

LastIndex(c) == CHOOSE i \in DOMAIN c :
                    ~IsPinned(c[i]) /\ \A j \in (i + 1)..Len(c) : IsPinned(c[j])

\* drop_pending_calls: the open calls go, and the payload if nothing is left.
DropPending(acc) ==
    LET left == [acc.out[acc.at] EXCEPT !.calls = @ \ acc.pending] IN
    IF acc.pending = {} THEN acc
    ELSE [out     |-> IF left.text = {} /\ left.calls = {}
                      THEN RemoveAt(acc.out, acc.at)
                      ELSE ReplaceAt(acc.out, acc.at, left),
          pending |-> {},
          at      |-> 0]

Keep(acc, p) == [acc EXCEPT !.out = Append(@, p)]

Open(acc, p) ==
    [out |-> Append(acc.out, p), pending |-> Ids(p), at |-> Len(acc.out) + 1]

MergeText(c, i, p) == [c EXCEPT ![i].text = @ \cup p.text]

AddAssistant(acc, p) ==
    LET last == LastRole(acc.out)
        i    == LastIndex(acc.out)
    IN IF last = "none" THEN acc
       ELSE IF last # "assistant" THEN Open(acc, p)
       ELSE IF p.text = {} /\ ~HasCalls(p) THEN acc
       ELSE IF HasCalls(acc.out[i]) \/ HasCalls(p) THEN Open(Keep(acc, Bridge), p)
       ELSE [acc EXCEPT !.out = MergeText(@, i, p)]

AddResult(acc, p) ==
    LET hit == p.results \cap acc.pending IN
    IF hit = {} THEN acc
    ELSE [acc EXCEPT !.out = Append(@, Result(hit)), !.pending = @ \ hit]

SanitizeStep(acc, p) ==
    CASE IsPinned(p)          -> Keep(acc, p)
      [] p.role = "user"      -> Keep(DropPending(acc), p)
      [] p.role = "assistant" -> AddAssistant(DropPending(acc), p)
      [] p.role = "result"    -> AddResult(acc, p)

Sanitize(c) ==
    DropPending(Folded(SanitizeStep, [out |-> <<>>, pending |-> {}, at |-> 0], c)).out

Prepare(c) == Sanitize(Heal(c))

-----------------------------------------------------------------------------
(* repair_post_send_chain: no suspend marker, whole groups, and no two     *)
(* assistants in a row; the calls of the tail stay, they are about to run. *)

Rejoin(out, p) ==
    LET i == LastIndex(out) IN
    IF p.role # "assistant" \/ LastRole(out) # "assistant" THEN Append(out, p)
    ELSE IF HasCalls(out[i]) \/ HasCalls(p) THEN out \o <<Bridge, p>>
    ELSE MergeText(out, i, p)

Repair(c) == Folded(Rejoin, <<>>, Heal(Those(c, LAMBDA p : ~IsSuspend(p))))

\* append_suspend_payload_if_tool_result_tail
WithSuspend(c) == IF c # <<>> /\ Last(c).role = "result" THEN Append(c, Suspend) ELSE c

-----------------------------------------------------------------------------
(* The view of one request, the draft of a text answer and failed calls.   *)

\* strip_transient_payloads: the notes are recognised as objects.
Strip(c, note) == Repair(Those(c, LAMBDA p : p.text \cap note = {}))

\* Mutant: the draft is sent back without a prompt.
WithDraftOnly(c) == [c EXCEPT ![Len(c)].text = {"draft"}]

\* rewrite_response_as_unsent_draft, then the followup prompt.
WithDraft(c) == [c EXCEPT ![Len(c)].text = {"draft"}] \o <<User({"followup"})>>

\* Mutant: from every assistant that makes a call of that id.
RemoveCallsEverywhere(c, ids) == [i \in DOMAIN c |-> [c[i] EXCEPT !.calls = @ \ ids]]

\* _remove_failed_tool_calls: from the last assistant that makes one of them.
RemoveCalls(c, ids) ==
    LET makers == {i \in DOMAIN c : c[i].role = "assistant" /\ c[i].calls \cap ids # {}}
        i      == CHOOSE i \in makers : \A j \in makers : j <= i
        left   == [c[i] EXCEPT !.calls = @ \ ids]
    IN IF makers = {} THEN c
       ELSE IF left.text = {} /\ left.calls = {} THEN RemoveAt(c, i)
       ELSE ReplaceAt(c, i, left)

\* _purge_empty_reply_artifacts: the calls, then the results right after.
PurgeReply(c, ids) ==
    LET makers == {i \in DOMAIN c : c[i].role = "assistant" /\ c[i].calls \cap ids # {}}
        i      == CHOOSE i \in makers : \A j \in makers : j <= i
        purged == [j \in DOMAIN c |-> IF j \in GroupOf(c, i)
                                      THEN [c[j] EXCEPT !.results = @ \ ids] ELSE c[j]]
    IN IF makers = {} THEN c
       ELSE Those(RemoveCalls(purged, ids),
                  LAMBDA p : p.role = "result" => p.results # {})

-----------------------------------------------------------------------------
(* The request snapshot.                                                   *)

\* Mutant: an assistant that says nothing is empty, whatever it calls.
CaptureDropsCallers(c) == Those(c, LAMBDA p : p.role # "tool" /\ p.text \cup p.results # {})

\* capture_payload_snapshot drops the tools, the markers and what is empty.
\* The pattern for runtime prompts is anchored at the start of a text, where
\* the wait prompt has its <inner_response_to_silence> tag: it keeps them.
Capture(c) ==
    Those(c, LAMBDA p : /\ p.role # "tool" /\ ~IsSuspend(p)
                        /\ p.role \in {"user", "assistant"} => p.text # {} \/ HasCalls(p))

\* restore_payload_snapshot: "safe" payloads are complete turns; a turn whose
\* calls were never all answered is taken back to where it started.
RestoreStep(acc, p) ==
    LET back == IF acc.pending = {} THEN acc
                ELSE [acc EXCEPT !.out = Upto(@, acc.rollback), !.pending = {}]
        hit  == p.results \cap acc.pending
        done == Append(acc.out, Result(hit))
    IN CASE p.role = "system" -> acc
         [] p.role = "user" ->
              [back EXCEPT !.out = Append(@, p), !.start = back.safe]
         [] p.role = "assistant" /\ acc.out # <<>> ->
              LET out == Append(back.out, p) IN
              [back EXCEPT !.out = out, !.pending = Ids(p),
                           !.safe = IF Ids(p) = {} THEN Len(out) ELSE @,
                           !.rollback = IF Ids(p) = {} THEN @ ELSE back.start]
         [] p.role = "result" /\ hit # {} ->
              [acc EXCEPT !.out = done, !.pending = @ \ hit,
                          !.safe = IF acc.pending \ hit = {} THEN Len(done) ELSE @]
         [] OTHER -> acc

RestoredTurns(snap) ==
    LET end == Folded(RestoreStep, [out |-> <<>>, pending |-> {}, safe |-> 0,
                                    start |-> 0, rollback |-> 0], snap)
    IN IF end.pending = {} THEN end.out ELSE Upto(end.out, end.rollback)

Restore(snap) ==
    LET turns == RestoredTurns(snap)
        users == {i \in DOMAIN turns : turns[i].role = "user"}
        from  == CHOOSE i \in users : \A j \in users : i <= j
    IN IF users = {} THEN <<>> ELSE Prepare(SubSeq(turns, from, Len(turns)))

\* _inject_history: after the leading system and tool payloads.
Inject(c, history) ==
    LET rest  == {i \in DOMAIN c : ~IsPinned(c[i])}
        split == IF rest = {} THEN Len(c)
                 ELSE (CHOOSE i \in rest : \A j \in rest : i <= j) - 1
    IN SubSeq(c, 1, split) \o history \o SubSeq(c, split + 1, Len(c))

-----------------------------------------------------------------------------
(* What a chain says.                                                      *)

Said(c) == UNION {c[i].text : i \in {i \in DOMAIN c : c[i].role = "user"}}

\* The groups of a chain: each assistant's calls with the answers to them.
Turns(c) ==
    LET k     == Conversation(c)
        group == [i \in DOMAIN k |-> [calls    |-> k[i].calls,
                                      answered |-> k[i].calls \cap Answered(k, i)]]
    IN Those(group, HasCalls)
=============================================================================
