--------------------------- MODULE ExecutionProofs ---------------------------
(***************************************************************************)
(* What holds of every round of Execution.tla, for all answers, ids and    *)
(* bounds: what the decision reports is what the user got, the calls run   *)
(* once and in order, nothing is said beside a question, and only an empty *)
(* reply is asked for again.  None of that depends on the chain.  Then the *)
(* chain: what PayloadProofs.tla says of a pass of the sanitizer holds of  *)
(* a round while it runs, with the calls that are not answered yet as the  *)
(* open ones, so that a round leaves whole turns.                          *)
(***************************************************************************)
EXTENDS Execution, PayloadProofs, FiniteSetTheorems

-----------------------------------------------------------------------------
(* Types                                                                   *)

Kinds    == {"reply", "silence", "info", "side"}
RawCalls == {Call(id, s) : id \in GivenIds \cup {NoId}, s \in Shapes}
CallSet  == [id : CallIds, kind : Kinds, segs : Nat, bad : BOOLEAN]
Segments == CallIds \X (Nat \cup {"draft", "old"})

\* No two calls of an answer have the same id.
Apart(cs) == \A i, j \in 1..Len(cs) : cs[i].id = cs[j].id => i = j

\* A call without its argument is not one that speaks.
Complete(cs) == \A i \in 1..Len(cs) : cs[i].bad => ~Speaks(cs[i])

Results == [reply : BOOLEAN, silence : BOOLEAN, side : BOOLEAN, info : BOOLEAN,
            said : Seq(Segments), execFailed : BOOLEAN, infraFailed : BOOLEAN]

Working == {"run", "send"}

Calling ==
    /\ calls \in Seq(CallSet) /\ Apart(calls) /\ Complete(calls)
    /\ at \in Nat \ {0} /\ (pc \in Working => at <= Len(calls) + 1)
    /\ pc = "send" => at <= Len(calls) /\ Here.kind = "reply"
    /\ queue \in Seq(CallSet)

Sending ==
    /\ sending \in [segs : Seq(Segments), sent : Seq(Segments)]
    /\ Len(sending.sent) <= Len(sending.segs)
    /\ pc # "send" => sending = Nothing

Noted ==
    /\ result \in Results
    /\ used \in [calls : 0..MaxCalls, retries : Nat]
    /\ seen = [got |-> seen.got, ran |-> seen.ran, broken |-> seen.broken, turns |-> seen.turns]
    /\ seen.got \in Seq(Segments) /\ seen.ran \in Seq(CallIds)

TypeInv ==
    /\ pc \in {"ask", "run", "send", "decided", "end"}
    /\ Calling /\ Sending /\ Noted

-----------------------------------------------------------------------------
(* The calls of an answer                                                  *)

\* An answer of the model is a list of calls that fits in the bound.
LEMMA BatchFacts ==
    ASSUME TypeInv, NEW raw \in Batches
    PROVE  /\ raw \in Seq(RawCalls)
           /\ used.calls + Len(raw) \in 0..MaxCalls /\ used.calls \in Nat
<1>1. used.calls \in 0..MaxCalls /\ MaxCalls \in Nat
  BY ExecutionAssumption DEF TypeInv, Noted
<1>2. PICK m \in 0..(MaxCalls - used.calls) : raw \in [1..m -> RawCalls]
  BY DEF Batches, BoundedSeq, SeqOf, RawCalls
<1>3. m \in Nat /\ raw \in Seq(RawCalls) /\ Len(raw) = m
  BY <1>1, <1>2
<1> QED BY <1>1, <1>2, <1>3

\* What a call is, once it has been made.
LEMMA RawFacts ==
    ASSUME NEW r \in RawCalls
    PROVE  /\ r = [id |-> r.id, kind |-> r.kind, segs |-> r.segs, bad |-> r.bad]
           /\ r.id \in GivenIds \cup {NoId} /\ r.kind \in Kinds /\ r.segs \in Nat
           /\ r.bad \in BOOLEAN /\ (r.bad => ~Speaks(r))
<1>1. PICK id \in GivenIds \cup {NoId}, s \in Shapes : r = Call(id, s)
  BY DEF RawCalls
<1>2. /\ s \in [kind : {"reply", "silence", "info", "side"}, segs : Nat, bad : BOOLEAN]
      /\ s.bad => s.kind \in {"info", "side"}
  BY <1>1, ExecutionAssumption
<1> QED BY <1>1, <1>2 DEF Call, Kinds, Speaks

\* After _standardize_calls each call has an id, and one of its own; nothing
\* else about it changes.
LEMMA StandardFacts ==
    ASSUME NEW raw \in Seq(RawCalls), used.calls \in Nat, used.calls + Len(raw) \in 0..MaxCalls
    PROVE  /\ Standard(raw) \in Seq(CallSet) /\ Len(Standard(raw)) = Len(raw)
           /\ Apart(Standard(raw)) /\ Complete(Standard(raw))
<1> DEFINE cs     == Standard(raw)
           u      == used.calls
           again(i) == raw[i].id = NoId \/ \E j \in 1..(i - 1) : raw[j].id = raw[i].id
<1>1. /\ Len(raw) \in Nat /\ DOMAIN raw = 1..Len(raw)
      /\ \A i \in 1..Len(raw) : raw[i] \in RawCalls
  OBVIOUS
<1>2. cs = [i \in 1..Len(raw) |-> IF again(i) THEN [raw[i] EXCEPT !.id = FreshIds[u + i]] ELSE raw[i]]
  BY <1>1 DEF Standard
<1>3. \A i \in 1..Len(raw) :
        /\ u + i \in DOMAIN FreshIds /\ FreshIds[u + i] \in ToSet(FreshIds)
        /\ FreshIds[u + i] \in CallIds /\ FreshIds[u + i] \notin GivenIds \cup {NoId}
  <2>1. ASSUME NEW i \in 1..Len(raw) PROVE u + i \in 1..Len(FreshIds)
    BY <1>1, ExecutionAssumption
  <2>2. DOMAIN FreshIds = 1..Len(FreshIds)
    BY ExecutionAssumption
  <2>3. ToSet(FreshIds) = {FreshIds[i] : i \in DOMAIN FreshIds}
    BY DEF ToSet
  <2>4. \A i \in DOMAIN FreshIds : FreshIds[i] \in CallIds /\ FreshIds[i] # NoId
    BY <2>2, ExecutionAssumption, PayloadsAssumption
  <2>5. ToSet(FreshIds) \cap GivenIds = {}
    BY DEF GivenIds
  <2> QED BY <2>1, <2>2, <2>3, <2>4, <2>5
<1>4. \A i, j \in 1..Len(raw) : FreshIds[u + i] = FreshIds[u + j] => i = j
  <2>1. \A a, b \in DOMAIN FreshIds : FreshIds[a] = FreshIds[b] => a = b
    BY ExecutionAssumption DEF IsInjective
  <2>2. \A i, j \in 1..Len(raw) : u + i = u + j => i = j
    OBVIOUS
  <2> QED BY <1>3, <2>1, <2>2
<1> HIDE DEF cs, u, again
<1>5. ASSUME NEW i \in 1..Len(raw)
      PROVE  /\ cs[i] \in CallSet /\ (cs[i].bad => ~Speaks(cs[i]))
             /\ again(i) => cs[i].id = FreshIds[u + i]
             /\ ~again(i) => cs[i].id = raw[i].id
  <2>1. /\ raw[i] = [id |-> raw[i].id, kind |-> raw[i].kind, segs |-> raw[i].segs, bad |-> raw[i].bad]
        /\ raw[i].id \in GivenIds \cup {NoId} /\ raw[i].kind \in Kinds /\ raw[i].segs \in Nat
        /\ raw[i].bad \in BOOLEAN /\ (raw[i].bad => ~Speaks(raw[i]))
    BY <1>1, RawFacts
  <2>2. CASE again(i)
    <3>1. cs[i] = [raw[i] EXCEPT !.id = FreshIds[u + i]]
      BY <1>2, <2>2
    <3>2. cs[i] = [id |-> FreshIds[u + i], kind |-> raw[i].kind, segs |-> raw[i].segs, bad |-> raw[i].bad]
      BY <2>1, <3>1
    <3> QED BY <1>3, <2>1, <2>2, <3>2 DEF CallSet, Speaks
  <2>3. CASE ~again(i)
    <3>1. cs[i] = raw[i] /\ raw[i].id # NoId
      BY <1>2, <2>3 DEF again
    <3> QED BY <2>1, <2>3, <3>1 DEF CallSet, GivenIds
  <2> QED BY <2>2, <2>3
<1>6. cs \in Seq(CallSet) /\ Len(cs) = Len(raw)
  <2>1. cs \in [1..Len(raw) -> CallSet]
    BY <1>2, <1>5
  <2> QED BY <1>1, <2>1
<1>7. ASSUME NEW i \in 1..Len(raw), NEW j \in 1..Len(raw), i < j
      PROVE  cs[i].id # cs[j].id
  <2>1. raw[i].id \in GivenIds \cup {NoId} /\ raw[j].id \in GivenIds \cup {NoId}
    BY <1>1, RawFacts
  <2>2. CASE again(j)
    <3>1. CASE again(i)
      BY <1>4, <1>5, <1>7, <2>2, <3>1
    <3>2. CASE ~again(i)
      BY <1>3, <1>5, <2>1, <2>2, <3>2
    <3> QED BY <3>1, <3>2
  <2>3. CASE ~again(j)
    <3>1. raw[i].id # raw[j].id
      BY <1>7, <2>3, i \in 1..(j - 1) DEF again
    <3>2. CASE again(i)
      BY <1>3, <1>5, <2>1, <2>3, <3>2
    <3> QED BY <1>5, <2>3, <3>1, <3>2
  <2> QED BY <2>2, <2>3
<1>8. Apart(cs)
  <2>1. \A i, j \in 1..Len(raw) : i = j \/ i < j \/ j < i
    BY <1>1
  <2> QED BY <1>6, <1>7, <2>1 DEF Apart
<1>9. Complete(cs)
  BY <1>5, <1>6 DEF Complete
<1> QED BY <1>6, <1>8, <1>9 DEF cs

\* What is kept of the calls when those with some ids go: the others, as they
\* were and in their order.
Kept(cs, out) == Those(cs, LAMBDA call : call.id \notin out)

\* What is left of the calls are calls still, all that were not taken out, in their order.
LEMMA KeptFacts ==
    ASSUME NEW cs \in Seq(CallSet), Apart(cs), Complete(cs), NEW out
    PROVE  /\ Kept(cs, out) \in Seq(CallSet) /\ Apart(Kept(cs, out)) /\ Complete(Kept(cs, out))
           /\ \A k \in 1..Len(Kept(cs, out)) :
                 \E i \in 1..Len(cs) : Kept(cs, out)[k] = cs[i] /\ cs[i].id \notin out
           /\ \A i \in 1..Len(cs) : cs[i].id \notin out =>
                 \E k \in 1..Len(Kept(cs, out)) : Kept(cs, out)[k] = cs[i]
           /\ \A j, k \in 1..Len(Kept(cs, out)) : j < k =>
                 \E g, i \in 1..Len(cs) :
                    g < i /\ Kept(cs, out)[j] = cs[g] /\ Kept(cs, out)[k] = cs[i]
<1> DEFINE I    == {i \in 1..Len(cs) : cs[i].id \notin out}
           kept == Kept(cs, out)
<1>1. kept = Only(cs, I)
  <2>1. DOMAIN cs = 1..Len(cs)
    OBVIOUS
  <2> QED BY <2>1 DEF Kept, Those
<1>2. /\ kept \in Seq(CallSet)
      /\ \A k \in 1..Len(kept) : \E i \in I : kept[k] = cs[i]
      /\ \A i \in I : \E k \in 1..Len(kept) : kept[k] = cs[i]
      /\ \A j, k \in 1..Len(kept) : j < k =>
            \E g, i \in I : g < i /\ kept[j] = cs[g] /\ kept[k] = cs[i]
  <2> HIDE DEF kept
  <2>1. I \in SUBSET (1..Len(cs))
    OBVIOUS
  <2> HIDE DEF I
  <2>2. /\ Only(cs, I) \in Seq(CallSet)
        /\ \A k \in 1..Len(Only(cs, I)) : \E i \in I : Only(cs, I)[k] = cs[i]
        /\ \A i \in I : \E k \in 1..Len(Only(cs, I)) : Only(cs, I)[k] = cs[i]
        /\ \A j, k \in 1..Len(Only(cs, I)) : j < k =>
              \E g, i \in I : g < i /\ Only(cs, I)[j] = cs[g] /\ Only(cs, I)[k] = cs[i]
    BY <2>1, OnlyFacts
  <2> DEFINE Chosen(s) ==
               /\ s \in Seq(CallSet)
               /\ \A k \in 1..Len(s) : \E i \in I : s[k] = cs[i]
               /\ \A i \in I : \E k \in 1..Len(s) : s[k] = cs[i]
               /\ \A j, k \in 1..Len(s) : j < k =>
                     \E g, i \in I : g < i /\ s[j] = cs[g] /\ s[k] = cs[i]
  <2>3. Chosen(Only(cs, I))
    BY ONLY <2>2
  <2>4. Chosen(kept)
    <3> HIDE DEF Chosen
    <3> QED BY ONLY <1>1, <2>3
  <2> QED BY ONLY <2>4
<1> HIDE DEF kept
<1>3. ASSUME NEW j \in 1..Len(kept), NEW k \in 1..Len(kept), j < k
      PROVE  kept[j].id # kept[k].id
  <2>1. PICK g \in I, i \in I : g < i /\ kept[j] = cs[g] /\ kept[k] = cs[i]
    BY <1>2, <1>3
  <2>2. g \in 1..Len(cs) /\ i \in 1..Len(cs) /\ g # i
    BY <2>1
  <2> QED BY <2>1, <2>2 DEF Apart
<1>4. Apart(kept)
  <2>1. \A j, k \in 1..Len(kept) : j = k \/ j < k \/ k < j
    BY <1>2
  <2> QED BY <1>3, <2>1 DEF Apart
<1>5. Complete(kept)
  BY <1>2 DEF Complete
<1> QED BY <1>2, <1>4, <1>5 DEF kept

-----------------------------------------------------------------------------
(* The types                                                               *)

\* What a round starts with.
LEMMA AnswerFacts ==
    ASSUME TypeInv, NEW raw \in Batches, Answer(raw)
    PROVE  LET cs == Standard(raw) IN
           /\ cs \in Seq(CallSet) /\ Apart(cs) /\ Complete(cs)
           /\ calls' = Kept(cs, PutOff(cs))
           /\ \E b \in BOOLEAN : result' = [NewResult EXCEPT !.side = b]
           /\ seen' = NewSeen(seen'.turns)
           /\ used' \in [calls : 0..MaxCalls, retries : Nat]
           /\ at' = 1 /\ queue' = <<>> /\ failed' = {} /\ sending' = Nothing /\ pc' = "run"
<1>1. raw \in Seq(RawCalls) /\ used.calls + Len(raw) \in 0..MaxCalls /\ used.calls \in Nat
  BY BatchFacts
<1>2. Standard(raw) \in Seq(CallSet) /\ Apart(Standard(raw)) /\ Complete(Standard(raw))
  BY <1>1, StandardFacts
<1>3. used' \in [calls : 0..MaxCalls, retries : Nat]
  <2>1. used' = [used EXCEPT !.calls = @ + Len(raw)]
    BY DEF Answer
  <2> QED BY <1>1, <2>1 DEF TypeInv, Noted
<1>4. calls' = Kept(Standard(raw), PutOff(Standard(raw)))
  BY DEF Answer, Kept
<1>5. seen' = NewSeen(seen'.turns)
  <2>1. seen' = NewSeen(Turns(chain))
    BY DEF Answer
  <2> QED BY <2>1 DEF NewSeen
<1>6. \E b \in BOOLEAN : result' = [NewResult EXCEPT !.side = b]
  BY DEF Answer
<1>7. at' = 1 /\ queue' = <<>> /\ failed' = {} /\ sending' = Nothing /\ pc' = "run"
  BY DEF Answer
<1> QED BY <1>2, <1>3, <1>4, <1>5, <1>6, <1>7

\* The call the parser is at.
LEMMA HereFacts ==
    ASSUME TypeInv, at <= Len(calls)
    PROVE  /\ at \in 1..Len(calls) /\ Here \in CallSet
           /\ Here.bad => ~Speaks(Here)
BY DEF TypeInv, Calling, Complete, Here

\* The segments of a reply.
LEMMA ContentFacts ==
    ASSUME TypeInv, at <= Len(calls)
    PROVE  Content \in Seq(Segments) /\ (Content = <<>> => Here.segs = 0)
<1>1. Here.segs \in Nat /\ Here.id \in CallIds
  BY HereFacts DEF CallSet
<1>2. CASE Here.segs > 0
  <2>1. Content = [n \in 1..Here.segs |-> <<Here.id, n>>]
    BY <1>2 DEF Content
  <2>2. \A n \in 1..Here.segs : <<Here.id, n>> \in Segments
    BY <1>1 DEF Segments
  <2> HIDE DEF Here
  <2>3. Content \in Seq(Segments) /\ Len(Content) = Here.segs
    BY <1>1, <2>1, <2>2
  <2> QED BY <1>2, <2>3, EmptySeq
<1>3. CASE ~(Here.segs > 0)
  <2>1. <<Here.id, "draft">> \in Segments
    BY <1>1 DEF Segments
  <2> HIDE DEF Here
  <2> QED BY <1>1, <1>3, <2>1 DEF Content
<1> QED BY <1>2, <1>3

\* The next segment is one of the reply.
LEMMA NextSegmentFacts ==
    ASSUME TypeInv, pc = "send", Len(sending.sent) < Len(sending.segs)
    PROVE  NextSegment \in Segments
BY DEF TypeInv, Sending, NextSegment

\* The types hold before the reply,
LEMMA InitTypes == Init => TypeInv
<1> SUFFICES ASSUME Init PROVE TypeInv
  OBVIOUS
<1> USE ExecutionAssumption
<1>1. Calling
  BY DEF Init, Calling, Apart, Complete, Working
<1>2. Sending
  BY DEF Init, Sending, Nothing
<1>3. Noted
  BY DEF Init, Noted, NewResult, NewSeen, Results
<1> QED BY <1>1, <1>2, <1>3 DEF Init, TypeInv

\* The reply's call is done and the next one follows.
LEMMA DoneFacts ==
    ASSUME TypeInv, pc = "send", NEW said \in Seq(Segments), NEW e \in BOOLEAN, NEW f \in BOOLEAN,
           ReplyDone(said, e, f), seen' = [seen EXCEPT !.broken = seen'.broken]
    PROVE  TypeInv'
<1>1. Calling'
  BY DEF TypeInv, Calling, ReplyDone, Working, Here
<1>2. Sending'
  BY DEF ReplyDone, Sending, Nothing
<1>3. Noted'
  <2>1. result.said \in Seq(Segments) /\ result \in Results
    BY DEF TypeInv, Noted, Results
  <2>2. result.said \o said \in Seq(Segments)
    BY <2>1
  <2>3. result' = [result EXCEPT !.said = @ \o said, !.execFailed = e, !.infraFailed = f]
    BY DEF ReplyDone
  <2>4. result' \in Results
    BY <2>1, <2>2, <2>3 DEF Results
  <2> QED BY <2>4 DEF TypeInv, Noted, ReplyDone
<1> QED BY <1>1, <1>2, <1>3 DEF TypeInv, ReplyDone

\* and each step keeps them.
LEMMA TypeStep ==
    ASSUME TypeInv, [Next]_vars
    PROVE  TypeInv'
<1>1. CASE Skip
  <2>1. Calling' /\ Sending'
    BY <1>1 DEF Skip, Running, TypeInv, Calling, Sending, Working, Here
  <2>2. Noted'
    BY <1>1 DEF Skip, TypeInv, Noted, Results
  <2> QED BY <1>1, <2>1, <2>2 DEF Skip, TypeInv
<1>2. CASE Queue
  <2>1. at <= Len(calls) /\ Here \in CallSet
    BY <1>2, HereFacts DEF Queue, Running
  <2>2. Calling' /\ Sending'
    BY <1>2, <2>1 DEF Queue, Running, TypeInv, Calling, Sending, Working
  <2>3. Noted'
    BY <1>2 DEF Queue, TypeInv, Noted, Results
  <2> QED BY <1>2, <2>2, <2>3 DEF Queue, TypeInv
<1>3. CASE Flush
  <2>1. Calling' /\ Sending'
    BY <1>3 DEF Flush, TypeInv, Calling, Sending, Working, Here
  <2>2. Noted'
    <3> DEFINE ids == [i \in DOMAIN queue |-> queue[i].id]
    <3>1. ids \in Seq(CallIds)
      <4>1. queue \in Seq(CallSet)
        BY DEF TypeInv, Calling
      <4>2. \A i \in 1..Len(queue) : queue[i] \in CallSet
        BY <4>1
      <4>3. \A i \in 1..Len(queue) : queue[i].id \in CallIds
        BY <4>2 DEF CallSet
      <4> QED BY <4>1, <4>3
    <3>2. seen' = [seen EXCEPT !.ran = @ \o ids]
      BY <1>3 DEF Flush
    <3> HIDE DEF ids
    <3>3. seen.ran \o ids \in Seq(CallIds)
      BY <3>1 DEF TypeInv, Noted
    <3> QED BY <1>3, <3>2, <3>3 DEF Flush, TypeInv, Noted
  <2> QED BY <1>3, <2>1, <2>2 DEF Flush, TypeInv
<1>4. CASE StaySilent
  <2>1. at <= Len(calls) /\ Here \in CallSet
    BY <1>4, HereFacts DEF StaySilent, Running
  <2>2. Calling' /\ Sending'
    BY <1>4, <2>1 DEF StaySilent, Running, TypeInv, Calling, Sending, Working
  <2>3. Noted'
    <3>1. Append(seen.ran, Here.id) \in Seq(CallIds)
      BY <2>1 DEF TypeInv, Noted, CallSet
    <3> QED BY <1>4, <3>1 DEF StaySilent, TypeInv, Noted, Results
  <2> QED BY <1>4, <2>2, <2>3 DEF StaySilent, TypeInv
<1>5. CASE StartReply
  <2>1. at <= Len(calls) /\ Here \in CallSet /\ Content \in Seq(Segments) /\ Here.kind = "reply"
    BY <1>5, HereFacts, ContentFacts DEF StartReply, Running
  <2>2. Calling'
    <3>1. Here' = Here
      BY <1>5 DEF StartReply, Here
    <3> QED BY <1>5, <2>1, <3>1 DEF StartReply, Running, TypeInv, Calling, Working
  <2>3. Sending'
    BY <1>5, <2>1 DEF StartReply, Sending
  <2>4. Noted'
    <3>1. Append(seen.ran, Here.id) \in Seq(CallIds)
      BY <2>1 DEF TypeInv, Noted, CallSet
    <3> QED BY <1>5, <3>1 DEF StartReply, TypeInv, Noted, Results
  <2> QED BY <1>5, <2>2, <2>3, <2>4 DEF StartReply, TypeInv
<1>6. CASE SendSegment
  <2>1. NextSegment \in Segments
    BY <1>6, NextSegmentFacts DEF SendSegment
  <2>2. Calling'
    BY <1>6 DEF SendSegment, TypeInv, Calling, Working, Here
  <2>3. Sending'
    <3>1. sending \in [segs : Seq(Segments), sent : Seq(Segments)]
      BY DEF TypeInv, Sending
    <3>2. /\ Append(sending.sent, NextSegment) \in Seq(Segments)
          /\ Len(Append(sending.sent, NextSegment)) = Len(sending.sent) + 1
          /\ Len(sending.sent) \in Nat /\ Len(sending.segs) \in Nat
      BY <2>1, <3>1
    <3>3. /\ sending' = [sending EXCEPT !.sent = Append(sending.sent, NextSegment)]
          /\ Len(sending.sent) < Len(sending.segs) /\ pc' = "send"
      BY <1>6 DEF SendSegment
    <3>4. /\ sending'.sent = Append(sending.sent, NextSegment)
          /\ sending'.segs = sending.segs
          /\ sending' = [segs |-> sending.segs, sent |-> Append(sending.sent, NextSegment)]
      BY <3>1, <3>3
    <3>5. sending' \in [segs : Seq(Segments), sent : Seq(Segments)]
      BY <3>1, <3>2, <3>4
    <3> QED BY <3>2, <3>3, <3>4, <3>5 DEF Sending
  <2>4. Noted'
    <3>1. Append(seen.got, NextSegment) \in Seq(Segments)
      BY <2>1 DEF TypeInv, Noted
    <3> QED BY <1>6, <3>1 DEF SendSegment, TypeInv, Noted
  <2> QED BY <1>6, <2>2, <2>3, <2>4 DEF SendSegment, TypeInv
<1>7. seen = [seen EXCEPT !.broken = seen.broken] /\ sending.sent \in Seq(Segments)
      /\ <<>> \in Seq(Segments) /\ result.infraFailed \in BOOLEAN
  BY DEF TypeInv, Noted, Sending, Results
<1>8. CASE ReplySent
  <2>1. pc = "send" /\ ReplyDone(sending.sent, FALSE, FALSE) /\ seen' = seen
    BY <1>8 DEF ReplySent
  <2> QED BY <1>7, <2>1, DoneFacts
<1>9. CASE ReplyEmpty
  <2>1. pc = "send" /\ ReplyDone(<<>>, FALSE, FALSE) /\ seen' = seen
    BY <1>9 DEF ReplyEmpty
  <2> QED BY <1>7, <2>1, DoneFacts
<1>10. CASE SendFails
  <2>1. pc = "send" /\ ReplyDone(sending.sent, TRUE, TRUE) /\ seen' = seen
    BY <1>10 DEF SendFails, Reported
  <2> QED BY <1>7, <2>1, DoneFacts
<1>11. CASE ReplyRaises
  <2>1. /\ pc = "send" /\ ReplyDone(<<>>, TRUE, result.infraFailed)
        /\ seen' = [seen EXCEPT !.broken = seen'.broken]
    BY <1>11 DEF ReplyRaises, TypeInv, Noted
  <2> QED BY <1>7, <2>1, DoneFacts
<1>12. CASE ReplySkipped
  <2>1. pc = "send" /\ seen' = [seen EXCEPT !.broken = seen'.broken]
    BY <1>12 DEF ReplySkipped, TypeInv, Noted
  <2>2. at <= Len(calls) /\ Here.id \in CallIds
    BY <2>1, HereFacts DEF TypeInv, Calling, CallSet
  <2>3. <<<<Here.id, "old">>>> \in Seq(Segments)
    <3>1. <<Here.id, "old">> \in Segments
      BY <2>2 DEF Segments
    <3> QED BY <3>1
  <2>4. CASE ReplyDone(<<>>, TRUE, result.infraFailed)
    BY <1>7, <2>1, <2>4, DoneFacts
  <2>5. CASE ReplyDone(<<<<Here.id, "old">>>>, FALSE, FALSE)
    BY <2>1, <2>3, <2>5, DoneFacts
  <2> QED BY <1>12, <2>4, <2>5 DEF ReplySkipped
<1>13. CASE Finish
  <2>1. calls' = Kept(calls, failed)
    BY <1>13 DEF Finish, Kept
  <2>2. calls' \in Seq(CallSet) /\ Apart(calls') /\ Complete(calls')
    BY <2>1, KeptFacts DEF TypeInv, Calling
  <2>3. Calling'
    BY <1>13, <2>2 DEF Finish, TypeInv, Calling, Working
  <2> QED BY <1>13, <2>3 DEF Finish, TypeInv, Sending, Noted
<1>14. CASE Retry
  <2>1. Calling'
    BY <1>14 DEF Retry, TypeInv, Calling, Working
  <2>2. Noted'
    BY <1>14 DEF Retry, TypeInv, Noted
  <2> QED BY <1>14, <2>1, <2>2 DEF Retry, TypeInv, Sending
<1>15. CASE Followup \/ End
  BY <1>15 DEF Followup, End, TypeInv, Calling, Sending, Noted, Working
<1>16. ASSUME NEW raw \in Batches, Answer(raw) PROVE TypeInv'
  <2> DEFINE cs == Standard(raw)
  <2>1. /\ cs \in Seq(CallSet) /\ Apart(cs) /\ Complete(cs)
        /\ calls' = Kept(cs, PutOff(cs))
        /\ \E b \in BOOLEAN : result' = [NewResult EXCEPT !.side = b]
        /\ seen' = NewSeen(seen'.turns)
        /\ used' \in [calls : 0..MaxCalls, retries : Nat]
        /\ at' = 1 /\ queue' = <<>> /\ sending' = Nothing /\ pc' = "run"
    BY <1>16, AnswerFacts
  <2> HIDE DEF cs
  <2>2. calls' \in Seq(CallSet) /\ Apart(calls') /\ Complete(calls')
    BY <2>1, KeptFacts
  <2>3. Calling'
    BY <2>1, <2>2 DEF Calling, Working
  <2>4. Noted'
    <3>1. PICK b \in BOOLEAN : result' = [NewResult EXCEPT !.side = b]
      BY <2>1
    <3>2. result' = [reply |-> FALSE, silence |-> FALSE, side |-> b, info |-> FALSE,
                     said |-> <<>>, execFailed |-> FALSE, infraFailed |-> FALSE]
      BY <3>1 DEF NewResult
    <3>3. result' \in Results
      BY <3>2 DEF Results
    <3>4. seen'.got = <<>> /\ seen'.ran = <<>>
      BY <2>1 DEF NewSeen
    <3>5. seen' = [got |-> seen'.got, ran |-> seen'.ran, broken |-> seen'.broken,
                   turns |-> seen'.turns]
      BY <2>1 DEF NewSeen
    <3> QED BY <2>1, <3>3, <3>4, <3>5 DEF Noted
  <2> QED BY <2>1, <2>3, <2>4 DEF TypeInv, Sending, Nothing
<1>17. CASE UNCHANGED vars
  BY <1>17 DEF vars, TypeInv, Calling, Sending, Noted, Here
<1> QED
  BY <1>1, <1>2, <1>3, <1>4, <1>5, <1>6, <1>8, <1>9, <1>10, <1>11, <1>12, <1>13,
     <1>14, <1>15, <1>16, <1>17
  DEF Next, Step

\* In every state of a behaviour.
LEMMA Typed == Spec => []TypeInv
<1>1. Init => TypeInv
  BY InitTypes
<1>2. TypeInv /\ [Next]_vars => TypeInv'
  BY TypeStep
<1> QED BY <1>1, <1>2, PTL DEF Spec

-----------------------------------------------------------------------------
(* What is reported is what was got                                        *)

Rounds == {"run", "send", "decided"}

\* What the replies that are done have reported, with what the one that is
\* being sent has sent so far, is what the user got.
Honest ==
    pc \in Rounds /\ seen.broken = {} => result.said \o sending.sent = seen.got

\* Each step keeps what was reported true.
LEMMA HonestStep ==
    ASSUME TypeInv, Honest, [Next]_vars
    PROVE  Honest'
<1> SUFFICES ASSUME pc' \in Rounds, seen'.broken = {}
             PROVE  result'.said \o sending'.sent = seen'.got
  BY DEF Honest
<1>1. /\ result.said \in Seq(Segments) /\ sending.sent \in Seq(Segments)
      /\ result \in Results /\ sending = [segs |-> sending.segs, sent |-> sending.sent]
      /\ seen = [got |-> seen.got, ran |-> seen.ran, broken |-> seen.broken, turns |-> seen.turns]
  BY DEF TypeInv, Noted, Sending, Results
<1>2. CASE Skip \/ Queue \/ Flush \/ StaySilent \/ Finish \/ UNCHANGED vars
  <2>1. result'.said = result.said /\ sending' = sending /\ seen'.got = seen.got
        /\ seen'.broken = seen.broken /\ pc \in Rounds
    BY <1>1, <1>2 DEF Skip, Queue, Flush, StaySilent, Finish, vars, Results, Rounds, Running
  <2> QED BY <2>1 DEF Honest
<1>3. CASE StartReply
  <2>1. sending = Nothing /\ pc = "run"
    BY <1>3 DEF StartReply, Running, TypeInv, Sending
  <2>2. result'.said = result.said /\ sending'.sent = <<>> /\ seen'.got = seen.got
        /\ seen'.broken = seen.broken
    BY <1>1, <1>3 DEF StartReply, Results
  <2> QED BY <2>1, <2>2 DEF Honest, Nothing, Rounds
<1>4. CASE SendSegment
  <2>1. NextSegment \in Segments /\ pc = "send"
    BY <1>4, NextSegmentFacts DEF SendSegment
  <2>2. /\ sending'.sent = Append(sending.sent, NextSegment)
        /\ seen'.got = Append(seen.got, NextSegment)
        /\ seen'.broken = seen.broken /\ result' = result
    BY <1>1, <1>4 DEF SendSegment
  <2>3. result.said \o sending.sent = seen.got
    BY <2>1, <2>2 DEF Honest, Rounds
  <2>4. result.said \o Append(sending.sent, NextSegment) = Append(result.said \o sending.sent, NextSegment)
    <3> DEFINE said == result.said
               sent == sending.sent
    <3>1. said \in Seq(Segments) /\ sent \in Seq(Segments)
      BY <1>1
    <3> HIDE DEF said, sent
    <3>2. said \o Append(sent, NextSegment) = Append(said \o sent, NextSegment)
      BY <2>1, <3>1, AppendToConcat
    <3> QED BY <3>2 DEF said, sent
  <2> QED BY <2>2, <2>3, <2>4
<1>5. ASSUME NEW said \in Seq(Segments), NEW e, NEW f, ReplyDone(said, e, f), pc = "send",
             said = sending.sent, UNCHANGED seen
      PROVE  result'.said \o sending'.sent = seen'.got
  <2>1. result'.said = result.said \o sending.sent /\ sending'.sent = <<>>
    BY <1>1, <1>5 DEF ReplyDone, Nothing, Results
  <2>2. result.said \o sending.sent = seen.got
    BY <1>5 DEF Honest, Rounds
  <2>3. seen.got \in Seq(Segments)
    BY DEF TypeInv, Noted
  <2> QED BY <1>5, <2>1, <2>2, <2>3
<1>6. CASE ReplySent
  <2>1. pc = "send" /\ ReplyDone(sending.sent, FALSE, FALSE) /\ UNCHANGED seen
    BY <1>6 DEF ReplySent
  <2> QED BY <1>1, <1>5, <2>1
<1>7. CASE ReplyEmpty
  <2>1. pc = "send" /\ ReplyDone(<<>>, FALSE, FALSE) /\ UNCHANGED seen /\ sending.segs = <<>>
    BY <1>7 DEF ReplyEmpty
  <2>2. sending.sent = <<>>
    BY <1>1, <2>1, EmptySeq DEF TypeInv, Sending
  <2> QED BY <1>1, <1>5, <2>1, <2>2
<1>8. CASE SendFails
  <2>1. pc = "send" /\ ReplyDone(sending.sent, TRUE, TRUE) /\ UNCHANGED seen
    BY <1>8 DEF SendFails, Reported
  <2> QED BY <1>1, <1>5, <2>1
<1>9. CASE ReplyRaises \/ ReplySkipped
  <2>1. seen'.broken # {}
    BY <1>1, <1>9 DEF ReplyRaises, ReplySkipped
  <2> QED BY <2>1
<1>10. CASE Retry \/ Followup \/ End
  BY <1>10 DEF Retry, Followup, End, Rounds
<1>11. ASSUME NEW raw \in Batches, Answer(raw)
       PROVE  result'.said \o sending'.sent = seen'.got
  <2>1. result'.said = <<>> /\ sending'.sent = <<>> /\ seen'.got = <<>>
    BY <1>11 DEF Answer, NewResult, NewSeen, Nothing
  <2> QED BY <2>1
<1> QED
  BY <1>2, <1>3, <1>4, <1>6, <1>7, <1>8, <1>9, <1>10, <1>11 DEF Next, Step

\* What the decision reports, and the session stores as said, is what the user
\* got, over all the replies of an answer, however many segments they have and
\* wherever the sending of one stopped.
THEOREM ReportsWhatWasGot == Spec => []ReportedIsGot
<1>1. Init => Honest
  BY DEF Init, Honest, Rounds
<1>2. TypeInv /\ Honest /\ [Next]_vars => Honest'
  BY HonestStep
<1>3. TypeInv /\ Honest => ReportedIsGot
  <2> SUFFICES ASSUME TypeInv, Honest, pc = "decided", seen.broken = {}
               PROVE  result.said = seen.got
    BY DEF ReportedIsGot
  <2>1. sending.sent = <<>> /\ result.said \in Seq(Segments)
    BY DEF TypeInv, Sending, Noted, Results, Nothing
  <2> QED BY <2>1, ConcatEmptySeq DEF Honest, Rounds
<1> QED BY <1>1, <1>2, <1>3, Typed, PTL DEF Spec

-----------------------------------------------------------------------------
(* Nothing is said beside a question                                       *)

Asks == result.info \/ \E i \in 1..Len(calls) : calls[i].kind = "info"

\* From the start of a round in which the model asks, no call that speaks is
\* there, so none can be run; in the end only the flag tells that it asked.
Quiet ==
    /\ pc \in Working /\ Asks =>
         /\ \A i \in 1..Len(calls) : ~Speaks(calls[i])
         /\ ~result.reply /\ seen.got = <<>>
    /\ pc = "decided" /\ result.info => ~result.reply /\ seen.got = <<>>

\* Each step keeps a reply that asks from being heard.
LEMMA QuietStep ==
    ASSUME TypeInv, Quiet, [Next]_vars
    PROVE  Quiet'
<1>1. /\ result \in Results
      /\ seen = [got |-> seen.got, ran |-> seen.ran, broken |-> seen.broken, turns |-> seen.turns]
  BY DEF TypeInv, Noted
<1>2. CASE Skip \/ Queue
  <2>1. at \in 1..Len(calls) /\ (Here.kind = "info" => \E i \in 1..Len(calls) : calls[i].kind = "info")
    BY <1>2, HereFacts DEF Skip, Queue, Running, Here
  <2>2. /\ pc = "run" /\ pc' = "run" /\ calls' = calls /\ seen' = seen
        /\ result'.reply = result.reply
        /\ result'.info = (result.info \/ Here.kind = "info")
    BY <1>1, <1>2 DEF Skip, Queue, Running, Results
  <2>3. Asks' => Asks
    BY <2>1, <2>2 DEF Asks
  <2> QED BY <2>2, <2>3 DEF Quiet, Working
<1>3. CASE Flush
  <2>1. pc = "run" /\ pc' = "run" /\ calls' = calls /\ result' = result /\ seen'.got = seen.got
    BY <1>1, <1>3 DEF Flush
  <2> QED BY <2>1 DEF Quiet, Working, Asks
<1>4. CASE StaySilent
  <2>1. /\ pc = "run" /\ pc' = "run" /\ calls' = calls /\ result'.reply = result.reply
        /\ result'.info = result.info /\ seen'.got = seen.got
    BY <1>1, <1>4 DEF StaySilent, Running, Results
  <2> QED BY <2>1 DEF Quiet, Working, Asks
<1>5. ASSUME pc \in Working, at \in 1..Len(calls), Here.kind = "reply" PROVE ~Asks
  <2>1. Speaks(calls[at])
    BY <1>5 DEF Speaks, Here
  <2> QED BY <1>5, <2>1 DEF Quiet
<1>6. CASE StartReply
  <2>1. /\ pc = "run" /\ pc' = "send" /\ calls' = calls
        /\ result'.info = result.info /\ Here.kind = "reply" /\ at \in 1..Len(calls)
    BY <1>1, <1>6, HereFacts DEF StartReply, Running, Results
  <2>2. ~Asks'
    BY <1>5, <2>1 DEF Asks, Working
  <2> QED BY <2>1, <2>2 DEF Quiet
<1>7. CASE SendSegment \/ ReplySent \/ ReplyEmpty \/ SendFails \/ ReplyRaises \/ ReplySkipped
  <2>1. pc = "send"
    BY <1>7 DEF SendSegment, ReplySent, ReplyEmpty, SendFails, ReplyRaises, ReplySkipped
  <2>2. at \in 1..Len(calls) /\ Here.kind = "reply"
    BY <2>1, HereFacts DEF TypeInv, Calling
  <2>3. calls' = calls /\ result'.info = result.info /\ pc' # "decided"
    BY <1>1, <1>7, <2>1 DEF SendSegment, ReplySent, ReplyEmpty, SendFails, ReplyRaises, ReplySkipped,
                ReplyDone, Results
  <2>4. ~Asks'
    BY <1>5, <2>1, <2>2, <2>3 DEF Asks, Working
  <2> QED BY <2>3, <2>4 DEF Quiet
<1>8. CASE Finish
  <2>1. pc = "run" /\ pc' = "decided" /\ result' = result /\ seen' = seen
    BY <1>8 DEF Finish
  <2> QED BY <2>1 DEF Quiet, Working, Asks
<1>9. CASE Retry \/ Followup \/ End
  BY <1>9 DEF Retry, Followup, End, Quiet, Working
<1>10. ASSUME NEW raw \in Batches, Answer(raw) PROVE Quiet'
  <2> DEFINE cs == Standard(raw)
  <2>1. /\ cs \in Seq(CallSet) /\ Apart(cs) /\ Complete(cs)
        /\ calls' = Kept(cs, PutOff(cs)) /\ pc' = "run"
        /\ ~result'.info /\ ~result'.reply /\ seen'.got = <<>>
    <3>1. seen' = NewSeen(seen'.turns) /\ \E b \in BOOLEAN : result' = [NewResult EXCEPT !.side = b]
      BY <1>10, AnswerFacts
    <3>2. ~result'.info /\ ~result'.reply
      BY <3>1 DEF NewResult
    <3>3. seen'.got = <<>>
      BY <3>1 DEF NewSeen
    <3> QED BY <1>10, <3>2, <3>3, AnswerFacts
  <2> HIDE DEF cs
  <2>2. \A k \in 1..Len(calls') :
          \E i \in 1..Len(cs) : calls'[k] = cs[i] /\ cs[i].id \notin PutOff(cs)
    BY <2>1, KeptFacts
  <2>3. ASSUME NEW k \in 1..Len(calls'), calls'[k].kind = "info", NEW m \in 1..Len(calls')
        PROVE  ~Speaks(calls'[m])
    <3>1. DOMAIN cs = 1..Len(cs)
      BY <2>1
    <3>2. PICK i \in 1..Len(cs) : calls'[k] = cs[i]
      BY <2>2
    <3>3. PutOff(cs) = {cs[j].id : j \in {j \in DOMAIN cs : Speaks(cs[j])}}
      BY <2>3, <3>1, <3>2 DEF PutOff
    <3>4. PICK j \in 1..Len(cs) : calls'[m] = cs[j] /\ cs[j].id \notin PutOff(cs)
      BY <2>2
    <3> QED BY <3>1, <3>3, <3>4
  <2> QED BY <2>1, <2>3 DEF Quiet, Asks, Working
<1>11. CASE UNCHANGED vars
  BY <1>11 DEF vars, Quiet, Asks
<1> QED
  BY <1>2, <1>3, <1>4, <1>6, <1>7, <1>8, <1>9, <1>10, <1>11 DEF Next, Step

\* While the model waits for what it asked about it has said nothing, and it is
\* asked again: whatever the order of its calls was, no reply goes out beside a
\* question, not even when the question's own call left no result.
THEOREM SaysNothingUnread == Spec => []NothingSaidUnread
<1>1. Init => Quiet
  BY DEF Init, Quiet, Working
<1>2. TypeInv /\ Quiet /\ [Next]_vars => Quiet'
  BY QuietStep
<1>3. Quiet => NothingSaidUnread
  BY DEF Quiet, NothingSaidUnread, FollowupDue, RetryDue
<1> QED BY <1>1, <1>2, <1>3, Typed, PTL DEF Spec

-----------------------------------------------------------------------------
(* The calls run once and in their order                                   *)

\* g tells which call of cs each id of s is of; they are among the first n, and
\* come in the same order.
Marks(g, s, cs, n) ==
    /\ g \in [1..Len(s) -> 1..n]
    /\ \A k \in 1..Len(s) : s[k] = cs[g[k]].id
    /\ \A j, k \in 1..Len(s) : j < k => g[j] < g[k]

\* A later call may follow.
LEMMA MarksAppend ==
    ASSUME NEW cs \in Seq(CallSet), NEW s \in Seq(CallIds), NEW n \in Nat, NEW m \in 1..Len(cs),
           n < m, NEW g, Marks(g, s, cs, n)
    PROVE  \E h : Marks(h, Append(s, cs[m].id), cs, m)
<1> DEFINE t == Append(s, cs[m].id)
           h == [k \in 1..(Len(s) + 1) |-> IF k = Len(s) + 1 THEN m ELSE g[k]]
<1>1. Len(s) \in Nat /\ cs[m].id \in CallIds /\ m \in Nat
  <2>1. cs[m] \in CallSet
    OBVIOUS
  <2> QED BY <2>1 DEF CallSet
<1>2. /\ Len(t) = Len(s) + 1 /\ t[Len(s) + 1] = cs[m].id
      /\ \A k \in 1..Len(s) : t[k] = s[k]
  BY <1>1, AppendProperties
<1>3. /\ \A k \in 1..Len(s) : g[k] \in 1..n /\ s[k] = cs[g[k]].id
      /\ \A j, k \in 1..Len(s) : j < k => g[j] < g[k]
  BY DEF Marks
<1>4. /\ \A k \in 1..Len(s) : k \in 1..(Len(s) + 1) /\ h[k] = g[k]
      /\ h[Len(s) + 1] = m
      /\ \A k \in 1..(Len(s) + 1) : k = Len(s) + 1 \/ (k \in 1..Len(s) /\ k < Len(s) + 1)
  BY <1>1
<1>5. h = [k \in 1..(Len(s) + 1) |-> h[k]]
  OBVIOUS
<1> HIDE DEF h, t
<1>6. \A k \in 1..Len(t) : h[k] \in 1..m /\ t[k] = cs[h[k]].id
  BY <1>1, <1>2, <1>3, <1>4
<1>7. ASSUME NEW j \in 1..Len(t), NEW k \in 1..Len(t), j < k PROVE h[j] < h[k]
  <2>1. j \in 1..Len(s)
    BY <1>1, <1>2, <1>7
  <2>2. CASE k = Len(s) + 1
    <3>1. h[j] \in 1..n
      BY <1>3, <1>4, <2>1
    <3>2. h[k] = m
      BY <1>4, <2>2
    <3> QED BY <1>1, <3>1, <3>2
  <2>3. CASE k \in 1..Len(s)
    BY <1>3, <1>4, <1>7, <2>1, <2>3
  <2> QED BY <1>2, <1>4, <2>2, <2>3
<1>8. Marks(h, t, cs, m)
  BY <1>2, <1>5, <1>6, <1>7 DEF Marks
<1> QED BY <1>8 DEF t

\* More calls may have been passed.
LEMMA MarksMore ==
    ASSUME NEW cs, NEW s, NEW n \in Nat, NEW m \in Nat, n <= m, NEW g, Marks(g, s, cs, n)
    PROVE  Marks(g, s, cs, m)
<1>1. g \in [1..Len(s) -> 1..m]
  <2>1. g \in [1..Len(s) -> 1..n]
    BY DEF Marks
  <2>2. 1..n \subseteq 1..m
    OBVIOUS
  <2> QED BY <2>1, <2>2
<1> QED BY <1>1 DEF Marks

QueueIds == [i \in DOMAIN queue |-> queue[i].id]

\* The calls that have run and those that are to run before the next that speaks.
Trail == seen.ran \o QueueIds

Passed == IF pc = "send" THEN at ELSE at - 1

\* What is queued was passed and does not speak; run and queued calls together
\* are in order.
Ordered ==
    pc \in Working =>
        /\ \A k \in 1..Len(queue) : ~Speaks(queue[k]) /\ \E i \in 1..(at - 1) : queue[k] = calls[i]
        /\ pc = "send" => queue = <<>>
        /\ \E g : Marks(g, Trail, calls, Passed)

\* The queue's ids, and the trail, are lists of ids.
LEMMA TrailFacts ==
    ASSUME TypeInv
    PROVE  /\ QueueIds \in Seq(CallIds) /\ Trail \in Seq(CallIds)
           /\ Len(QueueIds) = Len(queue) /\ \A k \in 1..Len(queue) : QueueIds[k] = queue[k].id
           /\ seen.ran \in Seq(CallIds) /\ queue \in Seq(CallSet)
           /\ Passed \in Nat
<1>1. queue \in Seq(CallSet) /\ seen.ran \in Seq(CallIds)
  BY DEF TypeInv, Calling, Noted
<1>2. \A i \in 1..Len(queue) : queue[i] \in CallSet
  BY <1>1
<1>3. \A i \in 1..Len(queue) : queue[i].id \in CallIds
  BY <1>2 DEF CallSet
<1>4. /\ QueueIds \in Seq(CallIds) /\ Len(QueueIds) = Len(queue)
      /\ \A k \in 1..Len(queue) : QueueIds[k] = queue[k].id
  BY <1>1, <1>3 DEF QueueIds
<1> HIDE DEF QueueIds
<1>5. Trail \in Seq(CallIds)
  BY <1>1, <1>4, ConcatProperties DEF Trail
<1>6. Passed \in Nat
  BY DEF TypeInv, Calling, Passed
<1> QED BY <1>1, <1>4, <1>5, <1>6

\* An empty queue adds nothing.
LEMMA TrailEmpty ==
    ASSUME TypeInv, queue = <<>>
    PROVE  Trail = seen.ran
<1>1. QueueIds \in Seq(CallIds) /\ Len(QueueIds) = 0 /\ seen.ran \in Seq(CallIds)
  BY TrailFacts
<1> HIDE DEF QueueIds
<1>2. QueueIds = <<>>
  BY <1>1, EmptySeq
<1> QED BY <1>1, <1>2, ConcatEmptySeq DEF Trail

\* Each step keeps what has run and is queued in the order of the calls.
LEMMA OrderedStep ==
    ASSUME TypeInv, Ordered, [Next]_vars
    PROVE  Ordered'
<1> SUFFICES ASSUME pc' \in Working
             PROVE  /\ \A k \in 1..Len(queue') :
                         ~Speaks(queue'[k]) /\ \E i \in 1..(at' - 1) : queue'[k] = calls'[i]
                    /\ pc' = "send" => queue' = <<>>
                    /\ \E g : Marks(g, Trail', calls', Passed')
  BY DEF Ordered
<1>1. /\ seen = [got |-> seen.got, ran |-> seen.ran, broken |-> seen.broken, turns |-> seen.turns]
      /\ calls \in Seq(CallSet) /\ queue \in Seq(CallSet) /\ at \in Nat \ {0}
  BY DEF TypeInv, Noted, Calling
<1>2. \A k \in 1..Len(queue) : pc \in Working =>
        ~Speaks(queue[k]) /\ \E i \in 1..(at - 1) : queue[k] = calls[i]
  BY DEF Ordered
\* A step that passes the call the parser is at and leaves the rest alone.
<1>3. ASSUME pc \in Working, pc' = "run", queue' = queue, calls' = calls, seen'.ran = seen.ran,
             at' = at + 1
      PROVE  Ordered'
  <2>1. Trail' = Trail
    BY <1>3 DEF Trail, QueueIds
  <2>2. PICK g : Marks(g, Trail, calls, Passed)
    BY <1>3 DEF Ordered
  <2>3. Passed \in Nat /\ Passed' \in Nat /\ Passed <= Passed'
    BY <1>1, <1>3 DEF Passed
  <2>4. Marks(g, Trail, calls, Passed')
    BY <2>2, <2>3, MarksMore
  <2>5. 1..(at - 1) \subseteq 1..(at' - 1)
    BY <1>1, <1>3
  <2> QED BY <1>2, <1>3, <2>1, <2>4, <2>5 DEF Ordered
<1>4. CASE Skip
  BY <1>3, <1>4 DEF Skip, Running, Working, Ordered
<1>5. CASE Queue
  <2>1. /\ pc = "run" /\ pc' = "run" /\ calls' = calls /\ seen' = seen /\ at' = at + 1
        /\ queue' = Append(queue, Here) /\ Here.kind \in {"info", "side"}
        /\ at \in 1..Len(calls) /\ Here \in CallSet /\ Here = calls[at]
    BY <1>5, HereFacts DEF Queue, Running, Here
  <2>2. /\ Len(queue') = Len(queue) + 1 /\ queue'[Len(queue) + 1] = Here
        /\ \A k \in 1..Len(queue) : queue'[k] = queue[k]
        /\ queue' \in Seq(CallSet) /\ Len(queue) \in Nat
    BY <1>1, <2>1, AppendProperties
  <2>3. ASSUME NEW k \in 1..Len(queue')
        PROVE  ~Speaks(queue'[k]) /\ \E i \in 1..(at' - 1) : queue'[k] = calls'[i]
    <3>1. CASE k = Len(queue) + 1
      <4>1. at \in 1..(at' - 1)
        BY <1>1, <2>1
      <4> QED BY <2>1, <2>2, <3>1, <4>1 DEF Speaks
    <3>2. CASE k \in 1..Len(queue)
      <4>1. queue'[k] = queue[k] /\ 1..(at - 1) \subseteq 1..(at' - 1)
        BY <1>1, <2>1, <2>2, <3>2
      <4> QED BY <1>2, <2>1, <3>2, <4>1 DEF Working
    <3> QED BY <2>2, <3>1, <3>2
  <2>4. QueueIds' = Append(QueueIds, Here.id) /\ Here.id \in CallIds
    <3>1. Here.id \in CallIds
      BY <2>1 DEF CallSet
    <3>2. /\ QueueIds \in Seq(CallIds) /\ Len(QueueIds) = Len(queue)
          /\ \A k \in 1..Len(queue) : QueueIds[k] = queue[k].id
      BY TrailFacts
    <3>3. QueueIds' = [k \in 1..Len(queue') |-> queue'[k].id]
      BY <2>2 DEF QueueIds
    <3> HIDE DEF QueueIds
    <3>4. /\ Append(QueueIds, Here.id) \in Seq(CallIds)
          /\ Len(Append(QueueIds, Here.id)) = Len(queue) + 1
          /\ Append(QueueIds, Here.id)[Len(queue) + 1] = Here.id
          /\ \A k \in 1..Len(queue) : Append(QueueIds, Here.id)[k] = queue[k].id
      BY <3>1, <3>2, AppendProperties
    <3>5. \A k \in 1..Len(queue') : k = Len(queue) + 1 \/ k \in 1..Len(queue)
      BY <2>2
    <3>6. \A k \in 1..Len(queue') : Append(QueueIds, Here.id)[k] = queue'[k].id
      BY <2>2, <3>4, <3>5
    <3>7. Append(QueueIds, Here.id) = [k \in 1..Len(queue') |-> Append(QueueIds, Here.id)[k]]
      BY <2>2, <3>4
    <3> QED BY <3>1, <3>3, <3>6, <3>7
  <2>5. Trail' = Append(Trail, calls[at].id)
    <3>1. seen.ran \in Seq(CallIds) /\ QueueIds \in Seq(CallIds)
      BY TrailFacts
    <3> DEFINE ran == seen.ran
               ids == QueueIds
    <3>2. ran \in Seq(CallIds) /\ ids \in Seq(CallIds)
      BY <3>1
    <3>3. Trail' = ran \o Append(ids, Here.id) /\ Trail = ran \o ids
      BY <2>1, <2>4 DEF Trail
    <3> HIDE DEF ran, ids
    <3>4. ran \o Append(ids, Here.id) = Append(ran \o ids, Here.id)
      BY <2>4, <3>2, AppendToConcat
    <3> QED BY <2>1, <3>3, <3>4
  <2>6. PICK g : Marks(g, Trail, calls, Passed)
    BY <2>1 DEF Ordered, Working
  <2>7. Passed = at - 1 /\ Passed' = at /\ Passed \in Nat /\ Passed < at
    BY <1>1, <2>1 DEF Passed
  <2>8. Trail \in Seq(CallIds)
    BY TrailFacts
  <2>9. \E h : Marks(h, Append(Trail, calls[at].id), calls, at)
    BY <1>1, <2>1, <2>6, <2>7, <2>8, MarksAppend
  <2> QED BY <2>1, <2>3, <2>5, <2>7, <2>9
<1>6. CASE Flush
  <2>1. /\ pc = "run" /\ pc' = "run" /\ calls' = calls /\ at' = at /\ queue' = <<>>
        /\ seen'.ran = seen.ran \o QueueIds
    BY <1>1, <1>6 DEF Flush, QueueIds
  <2>2. Trail' = Trail
    <3>1. seen'.ran = Trail /\ Trail \in Seq(CallIds)
      BY <2>1, TrailFacts DEF Trail
    <3>2. QueueIds' = <<>>
      BY <2>1 DEF QueueIds
    <3>3. Trail' = Trail \o <<>>
      BY <3>1, <3>2 DEF Trail
    <3> HIDE DEF Trail
    <3> QED BY <3>1, <3>3, ConcatEmptySeq
  <2>3. Passed' = Passed
    BY <2>1 DEF Passed
  <2> QED BY <2>1, <2>2, <2>3 DEF Ordered, Working
\* A call that speaks runs, after all that was queued before it.
<1>7. ASSUME pc = "run", queue = <<>>, queue' = queue, calls' = calls, at \in 1..Len(calls),
             seen'.ran = Append(seen.ran, Here.id), Passed' = at
      PROVE  \E g : Marks(g, Trail', calls', Passed')
  <2>1. Trail = seen.ran /\ Trail \in Seq(CallIds)
    BY <1>7, TrailEmpty, TrailFacts
  <2>2. Append(Trail, Here.id) \in Seq(CallIds) /\ Here.id = calls[at].id
    <3>1. Here \in CallSet /\ Here = calls[at]
      BY <1>7, HereFacts DEF Here
    <3>2. Here.id \in CallIds
      BY <3>1 DEF CallSet
    <3> QED BY <2>1, <3>1, <3>2, AppendProperties
  <2>3. Trail' = Append(Trail, calls[at].id)
    <3>1. QueueIds' = <<>> /\ Trail' = Append(Trail, Here.id) \o QueueIds'
      BY <1>7, <2>1 DEF QueueIds, Trail
    <3> HIDE DEF Trail, QueueIds
    <3> QED BY <2>2, <3>1, ConcatEmptySeq
  <2>4. PICK g : Marks(g, Trail, calls, Passed)
    BY <1>7 DEF Ordered, Working
  <2>5. Passed \in Nat /\ Passed < at
    BY <1>1, <1>7 DEF Passed
  <2>6. \E h : Marks(h, Append(Trail, calls[at].id), calls, at)
    BY <1>1, <1>7, <2>1, <2>4, <2>5, MarksAppend
  <2> QED BY <1>7, <2>3, <2>6
<1>8. CASE StaySilent
  <2>1. /\ pc = "run" /\ pc' = "run" /\ queue' = queue /\ calls' = calls /\ at \in 1..Len(calls)
        /\ seen'.ran = Append(seen.ran, Here.id) /\ at' = at + 1
        /\ Here.kind = "silence" /\ ~FlushDue
    BY <1>1, <1>8, HereFacts DEF StaySilent, Running
  <2>2. queue = <<>>
    BY <2>1 DEF FlushDue, Speaks
  <2>3. Passed' = at
    BY <1>1, <2>1 DEF Passed
  <2> QED BY <1>7, <2>1, <2>2, <2>3
<1>9. CASE StartReply
  <2>1. /\ pc = "run" /\ pc' = "send" /\ queue' = queue /\ calls' = calls /\ at \in 1..Len(calls)
        /\ seen'.ran = Append(seen.ran, Here.id) /\ at' = at
        /\ Here.kind = "reply" /\ ~FlushDue
    BY <1>1, <1>9, HereFacts DEF StartReply, Running
  <2>2. queue = <<>>
    BY <2>1 DEF FlushDue, Speaks
  <2>3. Passed' = at
    BY <2>1 DEF Passed
  <2> QED BY <1>7, <2>1, <2>2, <2>3
<1>10. CASE SendSegment
  <2>1. /\ pc = "send" /\ pc' = "send" /\ queue' = queue /\ calls' = calls /\ at' = at
        /\ seen'.ran = seen.ran
    BY <1>1, <1>10 DEF SendSegment
  <2>2. Trail' = Trail /\ Passed' = Passed
    BY <2>1 DEF Trail, QueueIds, Passed
  <2> QED BY <2>1, <2>2 DEF Ordered, Working
<1>11. CASE ReplySent \/ ReplyEmpty \/ SendFails \/ ReplyRaises \/ ReplySkipped
  <2>1. /\ pc = "send" /\ pc' = "run" /\ queue' = queue /\ calls' = calls /\ at' = at + 1
        /\ seen'.ran = seen.ran
    BY <1>1, <1>11 DEF ReplySent, ReplyEmpty, SendFails, ReplyRaises, ReplySkipped, ReplyDone
  <2> QED BY <1>3, <2>1 DEF Working, Ordered
<1>12. CASE Finish \/ Retry \/ Followup \/ End
  BY <1>12 DEF Finish, Retry, Followup, End, Working
<1>13. ASSUME NEW raw \in Batches, Answer(raw) PROVE Ordered'
  <2>1. /\ at' = 1 /\ queue' = <<>> /\ pc' = "run" /\ seen'.ran = <<>>
    BY <1>13 DEF Answer, NewSeen
  <2>2. Trail' = <<>> /\ Passed' = 0
    <3>1. QueueIds' = <<>>
      BY <2>1 DEF QueueIds
    <3> QED BY <2>1, <3>1 DEF Trail, Passed
  <2>3. Marks([k \in 1..0 |-> 0], <<>>, calls', 0)
    BY DEF Marks
  <2> QED BY <2>1, <2>2, <2>3 DEF Ordered
<1>14. CASE UNCHANGED vars
  <2>1. Trail' = Trail /\ Passed' = Passed /\ queue' = queue /\ calls' = calls /\ pc' = pc /\ at' = at
    BY <1>14 DEF vars, Trail, QueueIds, Passed
  <2> QED BY <2>1 DEF Ordered
<1> QED
  BY <1>4, <1>5, <1>6, <1>8, <1>9, <1>10, <1>11, <1>12, <1>13, <1>14 DEF Next, Step, Ordered

-----------------------------------------------------------------------------
(* Only an empty reply is asked for again                                  *)

\* As long as every reply ended well none of them is among the failed calls:
\* what is queued, and so what a flush can lose, does not speak.
Spared ==
    pc \in Working =>
      /\ \A k \in 1..Len(queue) : \E i \in 1..Len(calls) : queue[k] = calls[i] /\ ~Speaks(calls[i])
      /\ seen.broken = {} =>
           \A i \in 1..Len(calls) : calls[i].kind = "reply" => calls[i].id \notin failed

\* Each step keeps replies that ended well out of the failed calls.
LEMMA SparedStep ==
    ASSUME TypeInv, Spared, [Next]_vars
    PROVE  Spared'
<1>1. /\ calls \in Seq(CallSet) /\ Apart(calls) /\ Complete(calls) /\ queue \in Seq(CallSet)
      /\ seen = [got |-> seen.got, ran |-> seen.ran, broken |-> seen.broken, turns |-> seen.turns]
  BY DEF TypeInv, Calling, Noted
<1>2. CASE Skip \/ StartReply \/ SendSegment \/ ReplySent \/ ReplyEmpty \/ SendFails
  <2>1. /\ pc \in Working /\ calls' = calls /\ queue' = queue /\ failed' = failed
        /\ seen'.broken = seen.broken
    BY <1>1, <1>2 DEF Skip, StartReply, SendSegment, ReplySent, ReplyEmpty, SendFails, WithResult,
                      ReplyDone, Running, Working
  <2> QED BY <2>1 DEF Spared
<1>3. CASE Queue
  <2>1. /\ pc \in Working /\ calls' = calls /\ queue' = Append(queue, Here) /\ failed' = failed
        /\ seen' = seen /\ Here.kind \in {"info", "side"} /\ at \in 1..Len(calls)
    BY <1>3, HereFacts DEF Queue, Running, Working
  <2>2. Here = calls[at] /\ ~Speaks(calls[at]) /\ Here \in CallSet
    BY <2>1, HereFacts DEF Speaks, Here
  <2>3. /\ Len(queue') = Len(queue) + 1 /\ queue'[Len(queue) + 1] = Here
        /\ \A k \in 1..Len(queue) : queue'[k] = queue[k]
    <3> HIDE DEF Here
    <3> QED BY <1>1, <2>1, <2>2
  <2>4. ASSUME NEW k \in 1..Len(queue')
        PROVE  \E i \in 1..Len(calls) : queue'[k] = calls[i] /\ ~Speaks(calls[i])
    <3>1. k \in 1..Len(queue) \/ k = Len(queue) + 1
      BY <1>1, <2>3
    <3> QED BY <2>1, <2>2, <2>3, <3>1 DEF Spared
  <2> QED BY <2>1, <2>4 DEF Spared
<1>4. ASSUME NEW lost, failed' = failed \cup lost, calls' = calls, pc \in Working,
             seen'.broken = seen.broken, queue' = queue \/ queue' = <<>>,
             \A d \in lost : \E i \in 1..Len(calls) : d = calls[i].id /\ calls[i].kind # "reply"
      PROVE  Spared'
  <2>1. ASSUME NEW i \in 1..Len(calls), calls[i].kind = "reply" PROVE calls[i].id \notin lost
    BY <1>1, <1>4, <2>1 DEF Apart
  <2> QED BY <1>4, <2>1 DEF Spared
<1>5. CASE Flush
  <2>1. PICK none \in SUBSET IdsOf(queue) : failed' = failed \cup none
    BY <1>5 DEF Flush
  <2>2. calls' = calls /\ pc \in Working /\ seen'.broken = seen.broken /\ queue' = <<>>
    BY <1>1, <1>5 DEF Flush, Working
  <2>3. ASSUME NEW d \in none
        PROVE  \E i \in 1..Len(calls) : d = calls[i].id /\ calls[i].kind # "reply"
    <3>1. PICK k \in 1..Len(queue) : d = queue[k].id
      BY <1>1 DEF IdsOf
    <3> QED BY <2>2, <3>1 DEF Spared, Speaks
  <2> QED BY <1>4, <2>1, <2>2, <2>3
<1>6. CASE StaySilent
  <2>1. /\ calls' = calls /\ pc \in Working /\ seen'.broken = seen.broken /\ queue' = queue
        /\ at \in 1..Len(calls) /\ calls[at].kind = "silence"
        /\ failed' = failed \cup {} \/ failed' = failed \cup {calls[at].id}
    BY <1>1, <1>6, HereFacts DEF StaySilent, Running, Working, Here
  <2>2. calls[at].kind # "reply"
    BY <2>1
  <2>3. PICK lost \in SUBSET {calls[at].id} : failed' = failed \cup lost
    BY <2>1
  <2>4. \A d \in lost : \E i \in 1..Len(calls) : d = calls[i].id /\ calls[i].kind # "reply"
    BY <2>1, <2>2
  <2> QED BY <1>4, <2>1, <2>3, <2>4
<1>7. CASE ReplyRaises \/ ReplySkipped
  <2>1. pc \in Working /\ calls' = calls /\ queue' = queue /\ seen'.broken # {}
    BY <1>1, <1>7 DEF ReplyRaises, ReplySkipped, ReplyDone, Working
  <2> QED BY <2>1 DEF Spared
<1>8. CASE Finish \/ Retry \/ Followup \/ End
  BY <1>8 DEF Finish, Retry, Followup, End, Spared, Working
<1>9. ASSUME NEW raw \in Batches, Answer(raw) PROVE Spared'
  <2>1. queue' = <<>> /\ failed' = {}
    BY <1>9 DEF Answer
  <2> QED BY <2>1 DEF Spared
<1>10. CASE UNCHANGED vars
  BY <1>10 DEF vars, Spared
<1> QED BY <1>2, <1>3, <1>5, <1>6, <1>7, <1>8, <1>9, <1>10 DEF Next, Step

\* A list of calls with at most one reply.
OneReply(cs) ==
    \A i, j \in 1..Len(cs) : cs[i].kind = "reply" /\ cs[j].kind = "reply" => i = j

\* Where nothing was reported though every reply ended well, and no failure to
\* send is noted, the replies so far had nothing to say; one that is being sent
\* and has no segment has none.
Mute == seen.broken = {} /\ OneReply(calls) /\ result.said = <<>> /\ ~result.infraFailed

Blank ==
    /\ pc \in Working /\ Mute =>
         \A i \in 1..(at - 1) : calls[i].kind = "reply" => calls[i].segs = 0
    /\ pc = "send" /\ sending.segs = <<>> => Here.segs = 0
    /\ pc = "decided" /\ Mute =>
         \A i \in 1..Len(calls) : calls[i].kind = "reply" => calls[i].segs = 0

\* Each step keeps it that a mute round's replies had nothing to say.
LEMMA BlankStep ==
    ASSUME TypeInv, Spared, Blank, [Next]_vars
    PROVE  Blank'
<1>1. /\ calls \in Seq(CallSet) /\ Apart(calls) /\ Complete(calls)
      /\ result \in Results /\ result.said \in Seq(Segments) /\ sending.sent \in Seq(Segments)
      /\ sending = [segs |-> sending.segs, sent |-> sending.sent]
      /\ seen = [got |-> seen.got, ran |-> seen.ran, broken |-> seen.broken, turns |-> seen.turns]
      /\ at \in Nat \ {0} /\ (pc \in Working => at - 1 \in 0..Len(calls))
  BY DEF TypeInv, Calling, Noted, Sending, Results
<1>2. CASE Skip \/ Queue \/ StaySilent
  <2>1. /\ pc = "run" /\ pc' = "run" /\ calls' = calls /\ at' = at + 1
        /\ Here.kind # "reply" /\ Here = calls[at]
        /\ seen'.broken = seen.broken /\ result'.said = result.said
        /\ result'.infraFailed = result.infraFailed
    BY <1>1, <1>2 DEF Skip, Queue, StaySilent, Running, Results, Here
  <2>2. ASSUME Mute', NEW i \in 1..(at' - 1), calls'[i].kind = "reply" PROVE calls'[i].segs = 0
    <3>1. Mute
      BY <2>1, <2>2 DEF Mute, OneReply
    <3>2. i \in 1..(at - 1)
      BY <1>1, <2>1, <2>2
    <3> QED BY <2>1, <2>2, <3>1, <3>2 DEF Blank, Working
  <2> QED BY <2>1, <2>2 DEF Blank
<1>3. CASE Flush \/ SendSegment
  <2>1. /\ pc \in Working /\ pc' = pc /\ calls' = calls /\ at' = at /\ result' = result
        /\ seen'.broken = seen.broken /\ sending'.segs = sending.segs
    BY <1>1, <1>3 DEF Flush, SendSegment, Working
  <2> QED BY <2>1 DEF Blank, Mute, OneReply, Here, Working
<1>4. CASE StartReply
  <2>1. /\ pc = "run" /\ pc' = "send" /\ calls' = calls /\ at' = at /\ sending'.segs = Content
        /\ seen'.broken = seen.broken /\ result'.said = result.said
        /\ result'.infraFailed = result.infraFailed /\ at <= Len(calls)
    BY <1>1, <1>4 DEF StartReply, Running, Results
  <2>2. Content = <<>> => Here.segs = 0
    BY <2>1, ContentFacts
  <2>3. sending'.segs = <<>> => Here'.segs = 0
    BY <2>1, <2>2 DEF Here
  <2> QED BY <2>1, <2>3 DEF Blank, Mute, OneReply, Working
<1>5. CASE ReplySent
  <2>1. /\ pc' = "run" /\ sending.sent # <<>> /\ result'.said = result.said \o sending.sent
    BY <1>1, <1>5 DEF ReplySent, ReplyDone, Results
  <2>2. result'.said # <<>>
    BY <1>1, <2>1
  <2> QED BY <2>1, <2>2 DEF Blank, Mute
<1>6. CASE ReplyEmpty
  <2>1. /\ pc = "send" /\ pc' = "run" /\ calls' = calls /\ at' = at + 1 /\ sending.segs = <<>>
        /\ at \in 1..Len(calls) /\ Here.kind = "reply" /\ Here = calls[at]
    BY <1>6, HereFacts DEF ReplyEmpty, ReplyDone, TypeInv, Calling, Here
  <2>2. ASSUME Mute', NEW i \in 1..(at' - 1), calls'[i].kind = "reply" PROVE calls'[i].segs = 0
    <3>1. i = at
      <4>1. i \in 1..Len(calls)
        BY <1>1, <2>1, <2>2
      <4> QED BY <2>1, <2>2, <4>1 DEF Mute, OneReply
    <3> QED BY <2>1, <3>1 DEF Blank
  <2> QED BY <2>1, <2>2 DEF Blank
<1>7. CASE SendFails
  <2>1. pc' = "run" /\ result'.infraFailed
    BY <1>1, <1>7 DEF SendFails, ReplyDone, Results
  <2> QED BY <2>1 DEF Blank, Mute
<1>8. CASE ReplyRaises \/ ReplySkipped
  <2>1. pc' = "run" /\ seen'.broken # {}
    BY <1>1, <1>8 DEF ReplyRaises, ReplySkipped, ReplyDone
  <2> QED BY <2>1 DEF Blank, Mute
<1>9. CASE Finish
  <2> DEFINE kept == Kept(calls, failed)
  <2>1. /\ pc \in Working /\ pc' = "decided" /\ result' = result /\ seen' = seen
        /\ calls' = kept /\ at > Len(calls)
    BY <1>9 DEF Finish, Kept, Working
  <2>2. /\ \A k \in 1..Len(kept) :
              \E i \in 1..Len(calls) : kept[k] = calls[i] /\ calls[i].id \notin failed
        /\ \A i \in 1..Len(calls) : calls[i].id \notin failed =>
              \E k \in 1..Len(kept) : kept[k] = calls[i]
    <3> HIDE DEF kept
    <3>1. calls \in Seq(CallSet) /\ Apart(calls) /\ Complete(calls)
      BY <1>1
    <3>2. \A k \in 1..Len(Kept(calls, failed)) :
            \E i \in 1..Len(calls) : Kept(calls, failed)[k] = calls[i] /\ calls[i].id \notin failed
      BY <3>1, KeptFacts
    <3>3. \A i \in 1..Len(calls) : calls[i].id \notin failed =>
            \E k \in 1..Len(Kept(calls, failed)) : Kept(calls, failed)[k] = calls[i]
      BY <3>1, KeptFacts
    <3> QED BY <3>2, <3>3 DEF kept
  <2>3. kept \in Seq(CallSet) /\ Apart(kept)
    BY <1>1, KeptFacts
  <2> HIDE DEF kept
  <2>4. ASSUME Mute' PROVE Mute
    <3>1. seen.broken = {} /\ OneReply(kept) /\ result.said = <<>> /\ ~result.infraFailed
      BY <2>1, <2>4 DEF Mute, OneReply
    <3>2. ASSUME NEW i \in 1..Len(calls), NEW j \in 1..Len(calls),
                 calls[i].kind = "reply", calls[j].kind = "reply"
          PROVE  i = j
      <4>1. calls[i].id \notin failed /\ calls[j].id \notin failed
        BY <2>1, <3>1, <3>2 DEF Spared
      <4>2. PICK k \in 1..Len(kept) : kept[k] = calls[i]
        BY <2>2, <4>1
      <4>3. PICK m \in 1..Len(kept) : kept[m] = calls[j]
        BY <2>2, <4>1
      <4>4. k = m
        BY <3>1, <3>2, <4>2, <4>3 DEF OneReply
      <4> QED BY <1>1, <4>2, <4>3, <4>4 DEF Apart
    <3> QED BY <3>1, <3>2 DEF Mute, OneReply
  <2>5. ASSUME Mute', NEW k \in 1..Len(kept), kept[k].kind = "reply" PROVE kept[k].segs = 0
    <3>1. PICK i \in 1..Len(calls) : kept[k] = calls[i]
      BY <2>2
    <3>2. i \in 1..(at - 1)
      BY <1>1, <2>1
    <3> QED BY <2>1, <2>4, <2>5, <3>1, <3>2 DEF Blank
  <2>6. ASSUME Mute', NEW k \in 1..Len(calls'), calls'[k].kind = "reply" PROVE calls'[k].segs = 0
    BY <2>1, <2>5, <2>6
  <2> QED BY <2>1, <2>6 DEF Blank, Working
<1>10. CASE Retry \/ Followup \/ End
  BY <1>10 DEF Retry, Followup, End, Blank, Working
<1>11. ASSUME NEW raw \in Batches, Answer(raw) PROVE Blank'
  <2>1. at' = 1 /\ pc' = "run"
    BY <1>11 DEF Answer
  <2> QED BY <2>1 DEF Blank
<1>12. CASE UNCHANGED vars
  BY <1>12 DEF vars, Blank, Mute, OneReply, Here
<1> QED BY <1>2, <1>3, <1>4, <1>5, <1>6, <1>7, <1>8, <1>9, <1>10, <1>11, <1>12 DEF Next, Step

\* The model is asked to say it again only when it gave nothing to say: what an
\* answer's one reply said and could not be sent, in part or at all, is not
\* asked for twice.
THEOREM RetriesOnlyEmpty == Spec => []RetryOnlyEmpty
<1>1. Init => Honest /\ Spared /\ Blank
  BY DEF Init, Honest, Rounds, Spared, Blank, Working
<1>2. TypeInv /\ Honest /\ Spared /\ Blank /\ [Next]_vars => Honest' /\ Spared' /\ Blank'
  BY HonestStep, SparedStep, BlankStep
<1>3. TypeInv /\ Honest /\ Spared /\ Blank => RetryOnlyEmpty
  <2> DEFINE replies == {i \in DOMAIN calls : calls[i].kind = "reply"}
  <2> SUFFICES ASSUME TypeInv, Honest, Blank, pc = "decided", RetryDue, seen.broken = {},
                      Cardinality(replies) = 1
               PROVE  seen.got = <<>> /\ \A i \in replies : calls[i].segs = 0
    BY DEF RetryOnlyEmpty
  <2>1. /\ result.said = <<>> /\ ~result.infraFailed /\ sending.sent = <<>>
        /\ calls \in Seq(CallSet) /\ DOMAIN calls = 1..Len(calls) /\ Len(calls) \in Nat
    BY DEF RetryDue, TypeInv, Sending, Nothing, Calling
  <2>2. seen.got = <<>>
    BY <2>1 DEF Honest, Rounds
  <2>3. \A i, j \in replies : i = j
    <3>1. IsFiniteSet(replies)
      <4>1. IsFiniteSet(1..Len(calls))
        BY <2>1, 1 \in Int, Len(calls) \in Int, FS_Interval
      <4> QED BY <2>1, <4>1, FS_Subset
    <3> HIDE DEF replies
    <3> QED BY <3>1, FS_Singleton
  <2>4. OneReply(calls)
    BY <2>1, <2>3 DEF OneReply
  <2> QED BY <2>1, <2>2, <2>4 DEF Blank, Mute
<1> QED BY <1>1, <1>2, <1>3, Typed, PTL DEF Spec

-----------------------------------------------------------------------------
(* Results, calls and turns of a round                                     *)

\* The ids of a finite set, each once.
LEMMA ListedOnce ==
    ASSUME NEW ids, IsFiniteSet(ids)
    PROVE  LET s == SetToSeq(ids)
               N == Cardinality(ids)
           IN  /\ N \in Nat /\ s \in [1..N -> ids]
               /\ \A i, j \in 1..N : s[i] = s[j] => i = j
               /\ \A x \in ids : \E i \in 1..N : s[i] = x
<1> DEFINE N == Cardinality(ids)
           s == SetToSeq(ids)
<1>1. N \in Nat /\ ExistsBijection(1..N, ids)
  BY FS_CardinalityType
<1>2. \E f \in [1..N -> ids] : IsInjective(f)
  <2>1. PICK f \in Bijection(1..N, ids) : TRUE
    BY <1>1 DEF ExistsBijection
  <2>2. f \in [1..N -> ids] /\ IsInjective(f)
    BY <2>1 DEF Bijection, Injection, IsInjective
  <2> QED BY <2>2
<1>3. s = CHOOSE f \in [1..N -> ids] : IsInjective(f)
  BY DEF SetToSeq
<1> HIDE DEF s
<1>4. s \in [1..N -> ids] /\ IsInjective(s)
  BY <1>2, <1>3
<1>5. s \in Injection(1..N, ids)
  BY <1>4 DEF Injection, IsInjective
<1>6. Cardinality(1..N) = N
  <2>1. N \in Int /\ 1 \in Int
    BY <1>1
  <2>2. Cardinality(1..N) = IF 1 > N THEN 0 ELSE N - 1 + 1
    BY <2>1, FS_Interval
  <2> QED BY <1>1, <2>2
<1>7. s \in Surjection(1..N, ids)
  BY <1>5, <1>6, FS_Injection
<1>8. \A x \in ids : \E i \in 1..N : s[i] = x
  BY <1>7 DEF Surjection
<1> HIDE DEF N
<1>9. \A i, j \in 1..N : s[i] = s[j] => i = j
  BY <1>4 DEF IsInjective
<1> QED BY <1>1, <1>4, <1>8, <1>9 DEF s, N

\* The results of some calls, each in a payload of its own.
LEMMA AnswersFacts ==
    ASSUME NEW W, NEW ids \in SUBSET CallIds, IsFiniteSet(ids)
    PROVE  LET s == SetToSeq(ids)
           IN  /\ Answers(ids) \in Chains(W) /\ Len(Answers(ids)) = Cardinality(ids)
               /\ \A i \in 1..Len(Answers(ids)) : Answers(ids)[i] = Result({s[i]})
               /\ \A i \in 1..Len(Answers(ids)) : Answers(ids)[i].role = "result"
<1> DEFINE N == Cardinality(ids)
           s == SetToSeq(ids)
           t == Answers(ids)
<1>1. N \in Nat /\ s \in [1..N -> ids]
  BY ListedOnce
<1>2. t = [i \in 1..N |-> Result({s[i]})]
  BY DEF Answers
<1> HIDE DEF N, s, t
<1>3. \A i \in 1..N : Result({s[i]}) \in Lines(W)
  <2>1. \A i \in 1..N : {s[i]} \in SUBSET CallIds
    BY <1>1
  <2> QED BY <2>1, MadeFacts
<1>4. t \in Seq(Lines(W)) /\ Len(t) = N
  BY <1>1, <1>2, <1>3
<1>5. \A i \in 1..N : t[i].role = "result"
  BY <1>2 DEF Result, Payload
<1> QED BY <1>1, <1>2, <1>4, <1>5 DEF Chains, N, s, t

\* They answer calls that are open.
LEMMA AnswersSound ==
    ASSUME NEW W, NEW a \in Passes(W), Sound(a), NEW ids \in SUBSET a.pending, IsFiniteSet(ids)
    PROVE  LET b == [out |-> a.out \o Answers(ids), pending |-> a.pending \ ids, at |-> a.at]
           IN  b \in Passes(W) /\ Sound(b)
<1> DEFINE N == Cardinality(ids)
           s == SetToSeq(ids)
           t == Answers(ids)
           gone(n) == {s[i] : i \in 1..n}
           b(n) == [out |-> a.out \o SubSeq(t, 1, n), pending |-> a.pending \ gone(n), at |-> a.at]
           T == {n \in 0..N : b(n) \in Passes(W) /\ Sound(b(n))}
<1>1. /\ a = [out |-> a.out, pending |-> a.pending, at |-> a.at]
      /\ a.out \in Chains(W) /\ a.pending \in SUBSET CallIds /\ a.at \in Nat
  BY DEF Passes
<1>2. /\ N \in Nat /\ s \in [1..N -> ids]
      /\ \A i, j \in 1..N : s[i] = s[j] => i = j
      /\ \A x \in ids : \E i \in 1..N : s[i] = x
  BY ListedOnce
<1>3. t \in Chains(W) /\ Len(t) = N /\ \A i \in 1..Len(t) : t[i] = Result({s[i]})
  BY <1>1, AnswersFacts
<1> HIDE DEF N, s, t
<1>4. b(0) = a
  <2>1. SubSeq(t, 1, 0) = <<>>
    BY <1>3 DEF Chains
  <2>2. a.out \o <<>> = a.out
    BY <1>1, ConcatEmptySeq DEF Chains
  <2>3. gone(0) = {}
    OBVIOUS
  <2> QED BY <1>1, <2>1, <2>2, <2>3
<1>5. 0 \in T
  <2>1. 0 \in 0..N
    BY <1>2
  <2> HIDE DEF b
  <2>2. b(0) \in Passes(W) /\ Sound(b(0))
    BY <1>4
  <2> QED BY <2>1, <2>2
<1>6. ASSUME NEW n \in 0..(N - 1), n \in T PROVE n + 1 \in T
  <2>1. /\ n \in 0..(Len(t) - 1) /\ n + 1 \in 0..N /\ n + 1 \in 1..N
        /\ 1..(n + 1) = (1..n) \cup {n + 1} /\ n + 1 \notin 1..n /\ 1..n \subseteq 1..N
    BY <1>2, <1>3
  <2>2. SubSeq(t, 1, n + 1) = Append(SubSeq(t, 1, n), t[n + 1]) /\ SubSeq(t, 1, n) \in Chains(W)
        /\ t[n + 1] \in Lines(W)
    BY <1>3, <2>1, PrefixStep
  <2>3. a.out \o SubSeq(t, 1, n + 1) = Append(a.out \o SubSeq(t, 1, n), t[n + 1])
    <3> DEFINE o == a.out
               x == SubSeq(t, 1, n)
               p == t[n + 1]
    <3>1. o \in Seq(Lines(W)) /\ x \in Seq(Lines(W)) /\ p \in Lines(W)
      BY <1>1, <2>2 DEF Chains
    <3>2. SubSeq(t, 1, n + 1) = Append(x, p)
      BY <2>2
    <3> HIDE DEF o, x, p
    <3>3. o \o Append(x, p) = Append(o \o x, p)
      BY <3>1, AppendToConcat
    <3> QED BY <3>2, <3>3 DEF o, x, p
  <2>4. s[n + 1] \in ids /\ \A i \in 1..n : s[i] # s[n + 1]
    BY <1>2, <2>1
  <2>5. gone(n + 1) = gone(n) \cup {s[n + 1]} /\ s[n + 1] \notin gone(n)
    BY <2>1, <2>4
  <2>6. t[n + 1] = Result({s[n + 1]}) /\ t[n + 1].results = {s[n + 1]}
    <3>1. n + 1 \in 1..Len(t)
      BY <1>3, <2>1
    <3>2. t[n + 1] = Result({s[n + 1]})
      BY <1>3, <3>1
    <3> QED BY <3>2 DEF Result, Payload
  <2> DEFINE u == b(n)
             v == b(n + 1)
  <2>7. /\ u.out = a.out \o SubSeq(t, 1, n) /\ u.pending = a.pending \ gone(n) /\ u.at = a.at
        /\ u = [out |-> u.out, pending |-> u.pending, at |-> u.at]
        /\ v = [out |-> Append(u.out, t[n + 1]), pending |-> u.pending \ {s[n + 1]}, at |-> u.at]
    BY <2>3, <2>5
  <2>8. u \in Passes(W) /\ Sound(u)
    BY <1>6
  <2> HIDE DEF u, v, gone
  <2>9. {s[n + 1]} \cap u.pending = {s[n + 1]}
    BY <2>4, <2>5, <2>7
  <2>10. AddResult(u, t[n + 1]) = v
    <3> DEFINE p == t[n + 1]
    <3>1. p.results \cap u.pending = {s[n + 1]} /\ Result({s[n + 1]}) = p
      BY <2>6, <2>9
    <3>2. v = [out |-> Append(u.out, p), pending |-> u.pending \ {s[n + 1]}, at |-> u.at]
      BY <2>7
    <3>3. u = [out |-> u.out, pending |-> u.pending, at |-> u.at]
      BY <2>7
    <3> HIDE DEF p
    <3>4. {s[n + 1]} # {}
      OBVIOUS
    <3>5. AddResult(u, p) = [u EXCEPT !.out = Append(@, p), !.pending = @ \ {s[n + 1]}]
      BY <3>1, <3>4 DEF AddResult
    <3>6. AddResult(u, p) = v
      BY <3>2, <3>3, <3>5
    <3> QED BY <3>6 DEF p
  <2>11. v \in Passes(W) /\ Sound(v)
    BY <2>2, <2>8, <2>10, AddResultFacts, ResultSound
  <2> QED BY <2>1, <2>11 DEF v
<1> HIDE DEF T
<1>7. N \in T
  <2>1. 0..N \subseteq T
    BY <1>2, <1>5, <1>6, SetInduction
  <2> QED BY <1>2, <2>1
<1>8. b(N) \in Passes(W) /\ Sound(b(N))
  BY <1>7 DEF T
<1>9. SubSeq(t, 1, N) = t
  BY <1>3, SubSeqFull DEF Chains
<1>10. gone(N) = ids
  BY <1>2
<1> HIDE DEF gone
<1>11. b(N) = [out |-> a.out \o t, pending |-> a.pending \ ids, at |-> a.at]
  BY <1>9, <1>10
<1> HIDE DEF b
<1> QED BY <1>8, <1>11 DEF t

\* An answer with other calls.
LEMMA CallsPut ==
    ASSUME NEW ids, NEW all
    PROVE  [Assistant({}, ids) EXCEPT !.calls = all] = Assistant({}, all)
BY DEF Assistant, Payload

\* The calls of the last assistant that has any are put there again.
LEMMA SyncedLast ==
    ASSUME NEW S, NEW c \in Seq(S), NEW n \in 1..Len(c), NEW ids, ids # {}, c[n] = Assistant({}, ids),
           \A k \in (n + 1)..Len(c) : c[k].role # "assistant", NEW cs, cs # <<>>
    PROVE  Synced(c, cs, TRUE) = {[c EXCEPT ![n] = Assistant({}, IdsOf(cs))]}
<1> DEFINE callers == {i \in DOMAIN c : c[i].role = "assistant" /\ HasCalls(c[i])}
           last == CHOOSE i \in callers : \A j \in callers : j <= i
<1>1. Len(c) \in Nat /\ DOMAIN c = 1..Len(c)
  OBVIOUS
<1>2. c[n].role = "assistant" /\ HasCalls(c[n])
  BY DEF Assistant, Payload, HasCalls
<1>3. n \in callers /\ \A j \in callers : j <= n
  <2>1. ASSUME NEW j \in callers PROVE j <= n
    <3>1. j \in 1..Len(c) /\ c[j].role = "assistant"
      BY <1>1
    <3> QED BY <1>1, <3>1
  <2> QED BY <1>1, <1>2, <2>1
<1>4. \A i \in callers : i \in Nat
  BY <1>1
<1> HIDE DEF callers
<1>5. last = n
  <2>1. last \in callers /\ \A j \in callers : j <= last
    BY <1>3
  <2> HIDE DEF last
  <2> QED BY <1>3, <1>4, <2>1
<1>6. callers # {}
  BY <1>3
<1> HIDE DEF last
<1>7. Synced(c, cs, TRUE) = {[c EXCEPT ![last].calls = IdsOf(cs)]}
  BY <1>6 DEF Synced, callers, last
<1> DEFINE all == IdsOf(cs)
<1>8. [c[n] EXCEPT !.calls = all] = Assistant({}, all)
  <2> HIDE DEF all
  <2>1. [Assistant({}, ids) EXCEPT !.calls = all] = Assistant({}, all)
    BY CallsPut
  <2> QED BY <2>1
<1>9. [c EXCEPT ![n].calls = all] = [c EXCEPT ![n] = [c[n] EXCEPT !.calls = all]]
  OBVIOUS
<1> QED BY <1>5, <1>7, <1>8, <1>9

\* Calls that are removed go from there as well.
LEMMA RemoveLast ==
    ASSUME NEW W, NEW c \in Chains(W), NEW n \in 1..Len(c), c[n].role = "assistant",
           \A k \in (n + 1)..Len(c) : c[k].role # "assistant", NEW gone, c[n].calls \cap gone # {},
           NEW left, left = Payload("assistant", c[n].text, c[n].calls \ gone, c[n].results)
    PROVE  RemoveCalls(c, gone) = IF left.text = {} /\ left.calls = {} THEN RemoveAt(c, n)
                                  ELSE ReplaceAt(c, n, left)
<1> DEFINE makers == {i \in DOMAIN c : c[i].role = "assistant" /\ c[i].calls \cap gone # {}}
           last == CHOOSE i \in makers : \A j \in makers : j <= i
<1>1. Len(c) \in Nat /\ DOMAIN c = 1..Len(c)
  BY ChainFacts
<1>2. n \in makers /\ \A j \in makers : j <= n
  <2>1. ASSUME NEW j \in makers PROVE j <= n
    <3>1. j \in 1..Len(c) /\ c[j].role = "assistant"
      BY <1>1
    <3> QED BY <1>1, <3>1
  <2> QED BY <1>1, <2>1
<1>3. \A i \in makers : i \in Nat
  BY <1>1
<1> HIDE DEF makers
<1>4. last = n
  <2>1. last \in makers /\ \A j \in makers : j <= last
    BY <1>2
  <2> HIDE DEF last
  <2> QED BY <1>2, <1>3, <2>1
<1> DEFINE rest(i) == [c[i] EXCEPT !.calls = @ \ gone]
<1>5. makers # {}
  BY <1>2
<1> HIDE DEF last
<1>6. RemoveCalls(c, gone) = IF rest(last).text = {} /\ rest(last).calls = {} THEN RemoveAt(c, last)
                             ELSE ReplaceAt(c, last, rest(last))
  BY <1>5 DEF RemoveCalls, makers, last
<1>7. rest(n) = left
  <2> DEFINE ids == c[n].calls \ gone
  <2>1. c[n] \in Lines(W)
    BY ChainFacts
  <2> HIDE DEF ids
  <2>2. [c[n] EXCEPT !.calls = ids] = Payload("assistant", c[n].text, ids, c[n].results)
    BY <2>1 DEF Lines, Payload
  <2> QED BY <2>2 DEF ids
<1> HIDE DEF rest
<1> QED BY <1>4, <1>6, <1>7

\* An answer's calls and what is in the chain after them.
Made(y, ids, t) == Append(y, Assistant({}, ids)) \o t

\* The parts of it.
Parted(c, W, y, ids, t) ==
    /\ c \in Chains(W) /\ Len(y) \in Nat /\ Len(t) \in Nat /\ Len(c) = Len(y) + 1 + Len(t)
    /\ Len(y) + 1 \in 1..Len(c) /\ c[Len(y) + 1] = Assistant({}, ids)
    /\ \A k \in 1..Len(y) : c[k] = y[k]
    /\ \A k \in (Len(y) + 2)..Len(c) :
          k - (Len(y) + 1) \in 1..Len(t) /\ c[k] = t[k - (Len(y) + 1)]
    /\ SubSeq(c, 1, Len(y)) = y

\* An answer after a chain has these parts.
LEMMA MadeParts ==
    ASSUME NEW W, NEW y \in Chains(W), NEW ids \in SUBSET CallIds, NEW t \in Chains(W)
    PROVE  Parted(Made(y, ids, t), W, y, ids, t)
<1> DEFINE p == Assistant({}, ids)
           e == Append(y, p)
           n == Len(y) + 1
           c == e \o t
<1>1. p \in Lines(W)
  <2>1. {} \in SUBSET W /\ {} \subseteq Words
    OBVIOUS
  <2> QED BY <2>1, MadeFacts
<1> HIDE DEF p
<1>2. e \in Chains(W) /\ Len(e) = n /\ e[n] = p /\ Len(y) \in Nat /\ \A k \in 1..Len(y) : e[k] = y[k]
  BY <1>1, AppendGroups, ChainFacts
<1> HIDE DEF e
<1>3. c \in Chains(W) /\ Len(c) = n + Len(t) /\ Len(t) \in Nat
      /\ \A i \in 1..(n + Len(t)) : c[i] = IF i <= n THEN e[i] ELSE t[i - n]
  <2>1. /\ Len(e \o t) = Len(e) + Len(t) /\ Len(t) \in Nat
        /\ \A i \in 1..(Len(e) + Len(t)) : (e \o t)[i] = IF i <= Len(e) THEN e[i] ELSE t[i - Len(e)]
    BY <1>2, JoinFacts
  <2>2. e \o t \in Chains(W)
    BY <1>2, PartFacts
  <2> QED BY <1>2, <2>1, <2>2
<1> HIDE DEF c
<1>4. n \in 1..Len(c) /\ c[n] = p /\ \A k \in 1..Len(y) : c[k] = y[k]
  BY <1>2, <1>3
<1>5. \A k \in (Len(y) + 2)..Len(c) : k - n \in 1..Len(t) /\ c[k] = t[k - n]
  BY <1>2, <1>3
<1>6. SubSeq(c, 1, Len(y)) = y
  <2> DEFINE s == SubSeq(c, 1, Len(y))
  <2>1. s \in Chains(W) /\ Len(s) = Len(y) /\ \A k \in 1..Len(y) : s[k] = c[k]
    <3>1. Len(y) \in 0..(Len(c) - 1)
      BY <1>2, <1>3
    <3> QED BY <1>3, <3>1, PrefixStep
  <2> HIDE DEF s
  <2>2. s = y
    BY <1>4, <2>1, SeqEqual DEF Chains
  <2> QED BY <1>2, <2>2 DEF s
<1>7. Parted(c, W, y, ids, t)
  BY <1>2, <1>3, <1>4, <1>5, <1>6 DEF Parted, p
<1> QED BY <1>7 DEF Made, c, e, p

\* What speaks beside a question is taken out of it.
LEMMA MadeRemoves ==
    ASSUME NEW W, NEW y \in Chains(W), NEW ids \in SUBSET CallIds, NEW t \in Chains(W),
           \A k \in 1..Len(t) : t[k].role = "result",
           NEW gone \in SUBSET ids, ids \ gone # {}
    PROVE  RemoveCalls(Made(y, ids, t), gone) = Made(y, ids \ gone, t)
<1> DEFINE c == Made(y, ids, t)
           d == Made(y, ids \ gone, t)
           n == Len(y) + 1
           p == Assistant({}, ids)
           q == Assistant({}, ids \ gone)
<1>1. Parted(c, W, y, ids, t)
  BY MadeParts
<1>2. Parted(d, W, y, ids \ gone, t)
  <2>1. ids \ gone \in SUBSET CallIds
    OBVIOUS
  <2> QED BY <2>1, MadeParts
<1> HIDE DEF c, d
<1>3. /\ c \in Chains(W) /\ Len(c) = n + Len(t) /\ Len(t) \in Nat /\ Len(y) \in Nat
      /\ n \in 1..Len(c) /\ c[n] = p
      /\ d \in Chains(W) /\ Len(d) = Len(c) /\ d[n] = q
  BY <1>1, <1>2 DEF Parted
<1>4. ASSUME NEW k \in 1..Len(c), k # n PROVE d[k] = c[k]
  <2>1. k \in 1..Len(y) \/ k \in (Len(y) + 2)..Len(c)
    BY <1>3, <1>4
  <2>2. CASE k \in 1..Len(y)
    BY <1>1, <1>2, <2>2 DEF Parted
  <2>3. CASE k \in (Len(y) + 2)..Len(c)
    BY <1>1, <1>2, <1>3, <2>3 DEF Parted
  <2> QED BY <2>1, <2>2, <2>3
<1>5. \A k \in (n + 1)..Len(c) : c[k].role # "assistant"
  <2>1. ASSUME NEW k \in (n + 1)..Len(c) PROVE c[k].role = "result"
    <3>1. k \in (Len(y) + 2)..Len(c)
      BY <1>3
    <3> QED BY <1>1, <3>1 DEF Parted
  <2> QED BY <2>1
<1>6. /\ p.role = "assistant" /\ p.calls = ids /\ p.text = {} /\ p.results = {}
      /\ q = Payload("assistant", {}, ids \ gone, {}) /\ q.text = {} /\ q.calls = ids \ gone
  BY DEF Assistant, Payload
<1> HIDE DEF n, p, q
<1>7. CASE gone = {}
  <2>1. \A i \in DOMAIN c : c[i].calls \cap gone = {}
    BY <1>7
  <2>2. RemoveCalls(c, gone) = c
    BY <2>1 DEF RemoveCalls
  <2>3. ids \ gone = ids
    BY <1>7
  <2> QED BY <2>2, <2>3 DEF c
<1>8. CASE gone # {}
  <2>1. c[n].calls \cap gone # {} /\ c[n].role = "assistant" /\ q = Payload("assistant", c[n].text, c[n].calls \ gone, c[n].results)
    BY <1>3, <1>6, <1>8
  <2>2. RemoveCalls(c, gone) = IF q.text = {} /\ q.calls = {} THEN RemoveAt(c, n)
                               ELSE ReplaceAt(c, n, q)
    BY <1>3, <1>5, <2>1, RemoveLast
  <2>3. RemoveCalls(c, gone) = ReplaceAt(c, n, q)
    BY <1>6, <2>2
  <2> DEFINE r == ReplaceAt(c, n, q)
  <2>4. q \in Lines(W)
    BY <1>3, ChainFacts
  <2>5. c \in Seq(Lines(W)) /\ r = [c EXCEPT ![n] = q]
    BY <1>3 DEF ReplaceAt, Chains
  <2> HIDE DEF r
  <2>6. r \in Seq(Lines(W)) /\ Len(r) = Len(c) /\ \A k \in 1..Len(c) : r[k] = IF k = n THEN q ELSE c[k]
    BY <1>3, <2>4, <2>5, ExceptSeq
  <2>7. \A k \in 1..Len(c) : r[k] = d[k]
    BY <1>3, <1>4, <2>6
  <2>8. r = d
    BY <1>3, <2>6, <2>7, SeqEqual DEF Chains
  <2> QED BY <2>3, <2>8 DEF r, c, d
<1> QED BY <1>7, <1>8

\* The ids of calls.
LEMMA IdsOfFacts ==
    ASSUME NEW cs \in Seq(CallSet)
    PROVE  /\ IdsOf(cs) \in SUBSET CallIds /\ IsFiniteSet(IdsOf(cs))
           /\ IdsOf(cs) = {cs[i].id : i \in 1..Len(cs)}
           /\ IdsOf(cs) = {} <=> cs = <<>>
<1>1. Len(cs) \in Nat /\ DOMAIN cs = 1..Len(cs) /\ \A i \in 1..Len(cs) : cs[i] \in CallSet
  OBVIOUS
<1>2. \A i \in 1..Len(cs) : cs[i].id \in CallIds
  BY <1>1 DEF CallSet
<1>3. IdsOf(cs) = {cs[i].id : i \in 1..Len(cs)}
  BY <1>1 DEF IdsOf
<1>4. IdsOf(cs) \in SUBSET CallIds
  BY <1>2, <1>3
<1>5. IsFiniteSet(IdsOf(cs))
  BY <1>4, ExecutionAssumption, FS_Subset
<1>6. IdsOf(cs) = {} <=> cs = <<>>
  <2>1. cs = <<>> <=> Len(cs) = 0
    BY EmptySeq
  <2>2. Len(cs) # 0 => 1 \in 1..Len(cs)
    BY <1>1
  <2>3. Len(cs) = 0 => 1..Len(cs) = {}
    BY <1>1
  <2> QED BY <1>3, <2>1, <2>2, <2>3
<1> QED BY <1>3, <1>4, <1>5, <1>6

\* Where the calls are put, they are an assistant's, and nothing else changes.
LEMMA SyncedKeeps ==
    ASSUME NEW W, NEW c \in Chains(W), NEW cs \in Seq(CallSet), NEW mine \in BOOLEAN,
           NEW d \in Synced(c, cs, mine)
    PROVE  d \in Chains(W) /\ InOrder(c, d)
<1> DEFINE callers == {i \in DOMAIN c : c[i].role = "assistant" /\ HasCalls(c[i])}
           last == CHOOSE i \in callers : \A j \in callers : j <= i
           size == Cardinality(c[last].calls)
           over == IF Len(cs) < size THEN Len(cs) ELSE size
           mix(kept) == IdsOf(SubSeq(cs, 1, over)) \cup kept
<1>1. Len(c) \in Nat /\ DOMAIN c = 1..Len(c)
  BY ChainFacts
<1>2. CASE callers = {} \/ cs = <<>>
  <2>1. d = c
    BY <1>2 DEF Synced
  <2> QED BY <2>1, SameOrder
<1>3. CASE ~(callers = {} \/ cs = <<>>)
  <2>1. callers \in SUBSET (1..Len(c)) /\ callers # {}
    BY <1>1, <1>3
  <2>2. last \in callers
    <3> HIDE DEF callers
    <3> QED BY <1>1, <2>1, EndFacts
  <2>3. last \in 1..Len(c) /\ c[last].role = "assistant"
    BY <1>1, <2>2
  <2>4. \E ids \in SUBSET CallIds : d = [c EXCEPT ![last].calls = ids]
    <3>1. \A x \in IdsOf(cs) : x \in CallIds
      <4>1. IdsOf(cs) \in SUBSET CallIds
        BY IdsOfFacts
      <4> QED BY <4>1
    <3>2. CASE mine
      <4>1. d = [c EXCEPT ![last].calls = IdsOf(cs)]
        BY <1>3, <3>2 DEF Synced
      <4> QED BY <3>1, <4>1
    <3>3. CASE ~mine
      <4>1. \E kept \in kSubset(size - over, c[last].calls) : d = [c EXCEPT ![last].calls = mix(kept)]
        BY <1>3, <3>3 DEF Synced
      <4> HIDE DEF last
      <4>2. PICK kept \in SUBSET c[last].calls : d = [c EXCEPT ![last].calls = mix(kept)]
        BY <4>1 DEF kSubset
      <4>3. c[last].calls \in SUBSET CallIds
        BY <2>3, LineFacts
      <4>4. size \in Nat
        <5>1. IsFiniteSet(c[last].calls)
          BY <4>3, ExecutionAssumption, FS_Subset
        <5> QED BY <5>1, FS_CardinalityType
      <4>5. over \in Nat /\ over <= Len(cs)
        <5> HIDE DEF size
        <5> QED BY <4>4
      <4> HIDE DEF over
      <4>6. IdsOf(SubSeq(cs, 1, over)) \subseteq CallIds
        <5>1. SubSeq(cs, 1, over) \in Seq(CallSet)
          BY <4>5
        <5> QED BY <5>1, IdsOfFacts
      <4> QED BY <4>2, <4>3, <4>6
    <3> QED BY <3>2, <3>3
  <2> HIDE DEF last
  <2>5. PICK ids \in SUBSET CallIds : d = [c EXCEPT ![last].calls = ids]
    BY <2>4
  <2> DEFINE p == [c[last] EXCEPT !.calls = ids]
  <2>6. p \in Lines(W) /\ p.role = "assistant"
    <3>1. c[last] \in Lines(W)
      BY <2>3, ChainFacts
    <3> QED BY <2>3, <3>1 DEF Lines
  <2>7. d = [c EXCEPT ![last] = p]
    BY <2>5
  <2> HIDE DEF p
  <2>8. d \in Chains(W)
    BY <2>3, <2>6, <2>7, ChainFacts
  <2>9. Len(d) = Len(c) /\ \A k \in 1..Len(c) : d[k] = IF k = last THEN p ELSE c[k]
    BY <2>3, <2>6, <2>7, ExceptSeq DEF Chains
  <2>10. \A k \in 1..Len(c) : d[k].role = c[k].role
    BY <2>3, <2>6, <2>9
  <2> QED BY <2>8, <2>9, <2>10, SameOrder
<1> QED BY <1>2, <1>3

\* Results after a chain.
LEMMA AnsweredKeeps ==
    ASSUME NEW W, NEW c \in Chains(W), NEW t \in Chains(W), \A k \in 1..Len(t) : t[k].role = "result",
           Fronted(c), HasUser(c)
    PROVE  c \o t \in Chains(W) /\ Fronted(c \o t) /\ HasUser(c \o t)
<1> DEFINE d == c \o t
<1>1. d \in Chains(W)
  BY PartFacts
<1>2. /\ Len(c) \in Nat /\ Len(d) = Len(c) + Len(t) /\ Len(t) \in Nat
      /\ \A i \in 1..(Len(c) + Len(t)) : d[i] = IF i <= Len(c) THEN c[i] ELSE t[i - Len(c)]
  BY JoinFacts, ChainFacts
<1> HIDE DEF d
<1>3. ASSUME NEW i \in 1..Len(d), NEW j \in 1..Len(d), i < j, IsPinned(d[j]) PROVE IsPinned(d[i])
  <2>1. j <= Len(c)
    <3>1. ~(j <= Len(c)) => j - Len(c) \in 1..Len(t)
      BY <1>2
    <3>2. ~(j <= Len(c)) => d[j].role = "result"
      BY <1>2, <3>1
    <3> QED BY <1>3, <3>2 DEF IsPinned
  <2>2. i \in 1..Len(c) /\ j \in 1..Len(c)
    BY <1>2, <1>3, <2>1
  <2>3. d[i] = c[i] /\ d[j] = c[j]
    BY <1>2, <2>1, <2>2
  <2> QED BY <1>3, <2>2, <2>3 DEF Fronted
<1>4. Fronted(d)
  BY <1>3 DEF Fronted
<1>5. HasUser(d)
  <2>1. PICK i \in 1..Len(c) : c[i].role = "user"
    BY DEF HasUser
  <2>2. i \in 1..Len(d) /\ d[i] = c[i]
    BY <1>2
  <2> QED BY <2>1, <2>2 DEF HasUser
<1> QED BY <1>1, <1>4, <1>5 DEF d

-----------------------------------------------------------------------------
(* What is true of the chain in every round                                *)

\* The pinned payloads come first and the user speaks; what the model is asked
\* can be sent.
ChainInv ==
    /\ chain \in Chains(Texts) /\ Fronted(chain) /\ HasUser(chain)
    /\ pc = "ask" => Settled(chain)
    /\ own \in BOOLEAN

\* What the plugin puts in can be said.
LEMMA WordsInTexts == Words \subseteq Texts
BY DEF Texts

\* One result, and a list of one.
LEMMA AnswerOne ==
    ASSUME NEW W, NEW c \in Chains(W), NEW id \in CallIds
    PROVE  c \o Answers({id}) = Append(c, Result({id}))
<1> DEFINE ids == {id}
           s == SetToSeq(ids)
           t == Answers(ids)
           N == Cardinality(ids)
           r == Result({id})
<1>1. ids \in SUBSET CallIds /\ IsFiniteSet(ids) /\ N = 1
  BY FS_Singleton
<1>2. s \in [1..N -> ids]
  BY <1>1, ListedOnce
<1>3. t \in Chains(W) /\ Len(t) = N /\ \A i \in 1..Len(t) : t[i] = Result({s[i]})
  BY <1>1, AnswersFacts
<1>4. 1 \in 1..N /\ s[1] = id
  BY <1>1, <1>2
<1>5. t[1] = r /\ Len(t) = 1
  BY <1>1, <1>3, <1>4
<1>6. r \in Lines(W)
  BY <1>1, MadeFacts
<1> HIDE DEF t, r
<1>7. t = <<r>>
  <2>1. <<r>> \in Seq(Lines(W)) /\ Len(<<r>>) = 1 /\ <<r>>[1] = r
    BY <1>6
  <2>2. t \in Seq(Lines(W)) /\ Len(t) = Len(<<r>>)
    BY <1>3, <1>5, <2>1 DEF Chains
  <2>3. \A i \in 1..Len(t) : t[i] = <<r>>[i]
    BY <1>5, <2>1
  <2> QED BY <2>1, <2>2, <2>3, SeqEqual
<1>8. c \o <<r>> = Append(c, r)
  BY <1>6 DEF Chains
<1> QED BY <1>7, <1>8 DEF t, r

\* What the first answer finds is in order.
LEMMA InitChain == Init => ChainInv
<1> SUFFICES ASSUME Init PROVE ChainInv
  OBVIOUS
<1>1. chain \in Histories /\ pc = "ask"
  BY DEF Init
<1>2. /\ chain \in Chains(Texts) /\ Prepare(chain) = chain
      /\ \E i \in DOMAIN chain : chain[i].role = "user"
      /\ \A i, j \in DOMAIN chain : i < j /\ IsPinned(chain[j]) => IsPinned(chain[i])
  BY <1>1, ExecutionAssumption
<1>3. DOMAIN chain = 1..Len(chain)
  BY <1>2, ChainFacts
<1>4. Settled(chain)
  BY <1>2, WordsInTexts, PrepareOrder
<1>5. own \in BOOLEAN
  BY DEF Init
<1> QED BY <1>2, <1>3, <1>4, <1>5 DEF ChainInv, Fronted, HasUser

\* Results keep it in order.
LEMMA ResultsKeep ==
    ASSUME ChainInv, NEW ids \in SUBSET CallIds, IsFiniteSet(ids)
    PROVE  LET c == chain \o Answers(ids)
           IN  c \in Chains(Texts) /\ Fronted(c) /\ HasUser(c)
<1>1. Answers(ids) \in Chains(Texts) /\ \A k \in 1..Len(Answers(ids)) : Answers(ids)[k].role = "result"
  BY AnswersFacts
<1> QED BY <1>1, AnsweredKeeps DEF ChainInv

\* One result as well.
LEMMA ResultKeeps ==
    ASSUME ChainInv, NEW id \in CallIds
    PROVE  LET c == Append(chain, Result({id}))
           IN  c \in Chains(Texts) /\ Fronted(c) /\ HasUser(c)
<1>1. {id} \in SUBSET CallIds /\ IsFiniteSet({id})
  BY FS_Singleton
<1>2. chain \o Answers({id}) = Append(chain, Result({id}))
  BY AnswerOne DEF ChainInv
<1> DEFINE ids == {id}
           d == chain \o Answers(ids)
<1>3. d \in Chains(Texts) /\ Fronted(d) /\ HasUser(d)
  <2> HIDE DEF ids
  <2> QED BY <1>1, ResultsKeep DEF ids
<1> QED BY <1>2, <1>3

\* What the calls of an answer are: those that are put off, those that miss an
\* argument, and those that are left.
LEMMA LeftFacts ==
    ASSUME NEW cs \in Seq(CallSet), Apart(cs), Complete(cs), cs # <<>>
    PROVE  LET put     == PutOff(cs)
               kept    == Kept(cs, put)
               missing == {cs[i].id : i \in {i \in DOMAIN cs : cs[i].bad}}
           IN  /\ put \in SUBSET IdsOf(cs) /\ IdsOf(kept) = IdsOf(cs) \ put /\ IdsOf(kept) # {}
               /\ missing \in SUBSET IdsOf(kept)
               /\ missing = {kept[i].id : i \in {i \in 1..Len(kept) : kept[i].bad}}
<1> DEFINE put     == PutOff(cs)
           kept    == Kept(cs, put)
           missing == {cs[i].id : i \in {i \in DOMAIN cs : cs[i].bad}}
           all     == IdsOf(cs)
<1>1. DOMAIN cs = 1..Len(cs) /\ Len(cs) \in Nat /\ all = {cs[i].id : i \in 1..Len(cs)}
  BY IdsOfFacts
<1>2. \A id \in put : \E i \in 1..Len(cs) : cs[i].id = id /\ Speaks(cs[i])
  BY <1>1 DEF PutOff
<1>3. /\ kept \in Seq(CallSet)
      /\ \A k \in 1..Len(kept) : \E i \in 1..Len(cs) : kept[k] = cs[i] /\ cs[i].id \notin put
      /\ \A i \in 1..Len(cs) : cs[i].id \notin put => \E k \in 1..Len(kept) : kept[k] = cs[i]
  <2> HIDE DEF put
  <2>1. kept \in Seq(CallSet)
    BY KeptFacts
  <2>2. \A k \in 1..Len(kept) : \E i \in 1..Len(cs) : kept[k] = cs[i] /\ cs[i].id \notin put
    BY KeptFacts
  <2>3. \A i \in 1..Len(cs) : cs[i].id \notin put => \E k \in 1..Len(kept) : kept[k] = cs[i]
    BY KeptFacts
  <2> QED BY <2>1, <2>2, <2>3
<1>4. \E i \in 1..Len(cs) : cs[i].id \notin put
  <2>1. CASE \E i \in DOMAIN cs : cs[i].kind = "info"
    <3>1. PICK i \in 1..Len(cs) : cs[i].kind = "info"
      BY <1>1, <2>1
    <3>2. ASSUME cs[i].id \in put PROVE FALSE
      <4>1. PICK j \in 1..Len(cs) : cs[j].id = cs[i].id /\ Speaks(cs[j])
        BY <1>2, <3>2
      <4>2. i = j
        BY <4>1 DEF Apart
      <4> QED BY <3>1, <4>1, <4>2 DEF Speaks
    <3> QED BY <3>2
  <2>2. CASE ~\E i \in DOMAIN cs : cs[i].kind = "info"
    <3>1. put = {}
      BY <2>2 DEF PutOff
    <3>2. 1 \in 1..Len(cs)
      BY <1>1, EmptySeq
    <3> QED BY <3>1, <3>2
  <2> QED BY <2>1, <2>2
<1>5. put \in SUBSET all
  BY <1>1, <1>2
<1>6. IdsOf(kept) = {kept[i].id : i \in 1..Len(kept)}
  BY <1>3, IdsOfFacts
<1> HIDE DEF put, kept, all
<1>7. IdsOf(kept) = all \ put /\ IdsOf(kept) # {}
  <2>1. ASSUME NEW x \in IdsOf(kept) PROVE x \in all /\ x \notin put
    <3>1. PICK k \in 1..Len(kept) : x = kept[k].id
      BY <1>6
    <3>2. PICK i \in 1..Len(cs) : kept[k] = cs[i] /\ cs[i].id \notin put
      BY <1>3
    <3> QED BY <1>1, <3>1, <3>2
  <2>2. ASSUME NEW i \in 1..Len(cs), cs[i].id \notin put PROVE cs[i].id \in IdsOf(kept)
    <3>1. PICK k \in 1..Len(kept) : kept[k] = cs[i]
      BY <1>3, <2>2
    <3> QED BY <1>6, <3>1
  <2>3. IdsOf(kept) # {}
    BY <1>4, <2>2
  <2>4. ASSUME NEW x \in all, x \notin put PROVE x \in IdsOf(kept)
    BY <1>1, <2>2, <2>4
  <2> QED BY <2>1, <2>3, <2>4
<1>8. missing = {kept[i].id : i \in {i \in 1..Len(kept) : kept[i].bad}}
  <2>1. ASSUME NEW x \in missing PROVE \E k \in 1..Len(kept) : kept[k].id = x /\ kept[k].bad
    <3>1. PICK i \in 1..Len(cs) : cs[i].id = x /\ cs[i].bad
      BY <1>1
    <3>2. cs[i].id \notin put
      <4>1. ASSUME cs[i].id \in put PROVE FALSE
        <5>1. PICK j \in 1..Len(cs) : cs[j].id = cs[i].id /\ Speaks(cs[j])
          BY <1>2, <4>1
        <5>2. i = j
          BY <5>1 DEF Apart
        <5> QED BY <3>1, <5>1, <5>2 DEF Complete
      <4> QED BY <4>1
    <3> QED BY <1>3, <3>1, <3>2
  <2>2. ASSUME NEW k \in 1..Len(kept), kept[k].bad PROVE kept[k].id \in missing
    <3>1. PICK i \in 1..Len(cs) : kept[k] = cs[i]
      BY <1>3
    <3> QED BY <1>1, <2>2, <3>1
  <2> HIDE DEF missing
  <2> QED BY <2>1, <2>2
<1>9. missing \in SUBSET IdsOf(kept)
  BY <1>6, <1>8
<1> QED BY <1>5, <1>7, <1>8, <1>9 DEF put, kept, all

\* The calls of an answer as the model made them and as they are standardized.
LEMMA AnswerCalls ==
    ASSUME TypeInv, NEW raw \in Batches, Answer(raw)
    PROVE  LET cs  == Standard(raw)
               ids == IdsOf(raw)
           IN  /\ cs \in Seq(CallSet) /\ Apart(cs) /\ Complete(cs) /\ cs # <<>>
               /\ ids \in SUBSET (CallIds \cup {NoId}) /\ ids # {}
               /\ calls' = Kept(cs, PutOff(cs)) /\ own' = (ids # {NoId})
               /\ calls' \in Seq(CallSet)
<1> DEFINE cs  == Standard(raw)
           ids == IdsOf(raw)
<1>1. raw \in Seq(RawCalls) /\ used.calls + Len(raw) \in 0..MaxCalls /\ used.calls \in Nat
  BY BatchFacts
<1>2. cs \in Seq(CallSet) /\ Len(cs) = Len(raw) /\ Apart(cs) /\ Complete(cs)
  BY <1>1, StandardFacts
<1>3. raw # <<>> /\ own' = (ids # {NoId})
  BY DEF Answer
<1>4. cs # <<>>
  <2> HIDE DEF cs
  <2>1. Len(raw) # 0
    BY <1>1, <1>3, EmptySeq
  <2> QED BY <1>2, <2>1, EmptySeq
<1>5. ids \in SUBSET (CallIds \cup {NoId}) /\ ids # {}
  <2>1. DOMAIN raw = 1..Len(raw) /\ Len(raw) \in Nat /\ \A i \in 1..Len(raw) : raw[i] \in RawCalls
    BY <1>1
  <2>2. \A i \in 1..Len(raw) : raw[i].id \in GivenIds \cup {NoId}
    BY <2>1, RawFacts
  <2>3. 1 \in DOMAIN raw
    BY <1>1, <1>3, <2>1, EmptySeq
  <2>4. \A i \in DOMAIN raw : raw[i].id \in CallIds \cup {NoId}
    BY <2>1, <2>2 DEF GivenIds
  <2> QED BY <2>3, <2>4 DEF IdsOf
<1>6. calls' = Kept(cs, PutOff(cs))
  BY AnswerFacts
<1>7. calls' \in Seq(CallSet)
  <2> HIDE DEF cs
  <2> QED BY <1>2, <1>6, KeptFacts
<1> QED BY <1>2, <1>3, <1>4, <1>5, <1>6, <1>7

\* The calls of a list that miss an argument.
Incomplete(cs) == {cs[i].id : i \in {i \in DOMAIN cs : cs[i].bad}}

\* When the answer's payload stays, its calls are the standardized ones that were
\* not put off, and those that miss an argument are answered.
LEMMA AnswerOwn ==
    ASSUME TypeInv, ChainInv, pc = "ask", NEW raw \in Batches, Answer(raw), own'
    PROVE  \E y \in Chains(Texts) :
              /\ Ready(y, {}) /\ Groups(y) = Turns(chain)
              /\ chain' = Made(y, IdsOf(calls'), Answers(Incomplete(calls')))
              /\ Incomplete(calls') \in SUBSET IdsOf(calls') /\ IdsOf(calls') \in SUBSET CallIds
<1> DEFINE cs      == Standard(raw)
           ids     == IdsOf(raw)
           all     == IdsOf(cs)
           put     == PutOff(cs)
           missing == Incomplete(cs)
           p       == Assistant({}, ids)
           q       == Assistant({}, all)
           t       == Answers(missing)
           S       == Lines(Texts) \cup {p}
<1>1. /\ cs \in Seq(CallSet) /\ Apart(cs) /\ Complete(cs) /\ cs # <<>>
      /\ ids \in SUBSET (CallIds \cup {NoId}) /\ ids # {} /\ ids # {NoId}
      /\ calls' = Kept(cs, put) /\ calls' \in Seq(CallSet)
  BY AnswerCalls
<1>2. \E a \in Synced(Repair(Append(chain, p)), cs, TRUE) : chain' = RemoveCalls(a \o t, put)
  <2>1. (ids # {NoId}) = TRUE
    BY <1>1
  <2> QED BY <2>1 DEF Answer, Incomplete
<1>3. all \in SUBSET CallIds
  <2> HIDE DEF cs
  <2> QED BY <1>1, IdsOfFacts
<1>4. /\ put \in SUBSET all /\ IdsOf(Kept(cs, put)) = all \ put /\ IdsOf(Kept(cs, put)) # {}
      /\ missing \in SUBSET IdsOf(Kept(cs, put))
      /\ missing = {Kept(cs, put)[i].id : i \in {i \in 1..Len(Kept(cs, put)) : Kept(cs, put)[i].bad}}
  <2> HIDE DEF cs
  <2> QED BY <1>1, LeftFacts DEF Incomplete
<1>5. /\ IdsOf(calls') = all \ put /\ all \ put # {} /\ missing \in SUBSET (all \ put)
      /\ Incomplete(calls') = missing
  <2> HIDE DEF cs, put, all
  <2>1. DOMAIN calls' = 1..Len(calls')
    BY <1>1
  <2>2. Incomplete(calls') = {calls'[i].id : i \in {i \in 1..Len(calls') : calls'[i].bad}}
    BY <2>1 DEF Incomplete
  <2> HIDE DEF missing
  <2> QED BY <1>1, <1>4, <2>2
<1> HIDE DEF cs, put, all, missing
<1>6. PICK y \in Chains(Texts) : /\ Repair(Append(chain, p)) = Append(y, p)
                                 /\ Ready(y, {}) /\ Groups(y) = Groups(chain)
  <2>1. Settled(chain) /\ Fronted(chain) /\ HasUser(chain) /\ chain \in Chains(Texts)
    BY DEF ChainInv
  <2> HIDE DEF ids
  <2> QED BY <1>1, <2>1, WordsInTexts, AnswerRepaired
<1>7. Groups(y) = Turns(chain)
  BY <1>6, SettledTurns DEF ChainInv
<1>8. p.role = "assistant" /\ HasCalls(p) /\ p = Payload("assistant", {}, ids, {})
  BY <1>1 DEF Assistant, Payload, HasCalls
<1>9. Synced(Append(y, p), cs, TRUE) = {Append(y, q)}
  <2> DEFINE c == Append(y, p)
             n == Len(y) + 1
  <2>1. y \in Seq(S) /\ p \in S /\ Len(y) \in Nat
    BY ChainFacts
  <2>2. q \in Lines(Texts)
    <3>1. {} \in SUBSET Texts /\ {} \subseteq Words
      OBVIOUS
    <3> QED BY <1>3, <3>1, MadeFacts
  <2>3. q \in S
    BY <2>2
  <2> HIDE DEF S
  <2>4. c \in Seq(S) /\ Len(c) = n /\ c[n] = p
    <3> HIDE DEF p
    <3> QED BY <2>1, AppendProperties
  <2>5. n \in 1..Len(c) /\ \A k \in (n + 1)..Len(c) : c[k].role # "assistant"
    <3> HIDE DEF c, p
    <3> QED BY <2>1, <2>4
  <2>6. cs # <<>> /\ ids # {}
    BY <1>1
  <2>7. Synced(c, cs, TRUE) = {[c EXCEPT ![n] = Assistant({}, IdsOf(cs))]}
    <3> HIDE DEF c, n, ids
    <3> QED BY <2>4, <2>5, <2>6, SyncedLast
  <2>8. [c EXCEPT ![n] = q] = Append(y, q)
    <3> HIDE DEF p, q
    <3> QED BY <2>1, <2>3, AppendExcept
  <2> QED BY <2>7, <2>8 DEF all
<1>10. chain' = RemoveCalls(Made(y, all, t), put)
  BY <1>2, <1>6, <1>9 DEF Made
<1>11. t \in Chains(Texts) /\ \A k \in 1..Len(t) : t[k].role = "result"
  <2>1. missing \in SUBSET CallIds /\ IsFiniteSet(missing)
    BY <1>3, <1>5, ExecutionAssumption, FS_Subset
  <2> QED BY <2>1, AnswersFacts
<1> HIDE DEF t
<1>12. RemoveCalls(Made(y, all, t), put) = Made(y, all \ put, t)
  BY <1>3, <1>4, <1>5, <1>11, MadeRemoves
<1>13. chain' = Made(y, IdsOf(calls'), Answers(Incomplete(calls')))
  BY <1>5, <1>10, <1>12 DEF t
<1> QED BY <1>3, <1>5, <1>6, <1>7, <1>13

\* A chain with the pinned payloads first in which the user speaks.
Orderly(c) == c \in Chains(Texts) /\ Fronted(c) /\ HasUser(c)

\* What keeps the order of such a chain,
LEMMA OrderlyKeeps ==
    ASSUME NEW c, NEW d \in Chains(Texts), Orderly(c), InOrder(c, d)
    PROVE  Orderly(d)
BY DEF Orderly, InOrder

\* and the answer to one, whether its payload stays or not.
LEMMA AnswerOrderly ==
    ASSUME TypeInv, ChainInv, pc = "ask", NEW raw \in Batches, Answer(raw)
    PROVE  Orderly(chain')
<1> DEFINE cs   == Standard(raw)
           ids  == IdsOf(raw)
           a    == Repair(Append(chain, Assistant({}, ids)))
           miss == Incomplete(cs)
<1>1. /\ cs \in Seq(CallSet) /\ ids \in SUBSET (CallIds \cup {NoId}) /\ ids # {}
      /\ own' = (ids # {NoId})
  BY AnswerCalls
<1>2. chain \in Chains(Texts) /\ Settled(chain) /\ Fronted(chain) /\ HasUser(chain)
  BY DEF ChainInv
<1>3. CASE own'
  <2>1. PICK y \in Chains(Texts) :
               /\ Ready(y, {}) /\ chain' = Made(y, IdsOf(calls'), Answers(Incomplete(calls')))
               /\ Incomplete(calls') \in SUBSET IdsOf(calls') /\ IdsOf(calls') \in SUBSET CallIds
    BY <1>3, AnswerOwn
  <2> DEFINE p == Assistant({}, IdsOf(calls'))
  <2>2. p \in Lines(Texts) /\ ~IsPinned(p)
    BY <2>1, MadeFacts DEF Assistant, Payload, IsPinned
  <2>3. Append(y, p) \in Chains(Texts) /\ InOrder(y, Append(y, p))
    BY <2>1, <2>2, ChainFacts, AppendOrder
  <2>4. Orderly(y)
    BY <2>1, GreetsFacts DEF Ready, Orderly
  <2>5. Orderly(Append(y, p))
    BY <2>3, <2>4, OrderlyKeeps
  <2>6. Incomplete(calls') \in SUBSET CallIds /\ IsFiniteSet(Incomplete(calls'))
    BY <2>1, ExecutionAssumption, FS_Subset
  <2> DEFINE t == Answers(Incomplete(calls'))
  <2>7. t \in Chains(Texts) /\ \A k \in 1..Len(t) : t[k].role = "result"
    BY <2>6, AnswersFacts
  <2>8. chain' = Append(y, p) \o t
    BY <2>1 DEF Made
  <2> HIDE DEF p, t
  <2> QED BY <2>3, <2>5, <2>7, <2>8, AnsweredKeeps DEF Orderly
<1>4. CASE ~own'
  <2>1. ids = {NoId}
    BY <1>1, <1>4
  <2>2. Words \subseteq Texts
    BY WordsInTexts
  <2>3. a \in Chains(Texts) /\ Fronted(a) /\ HasUser(a)
    <3> HIDE DEF ids
    <3> QED BY <1>1, <1>2, <2>1, <2>2, AnswerRepaired
  <2>4. PICK s \in Synced(a, cs, ids # {NoId}) :
               chain' = RemoveCalls(s \o Answers(miss), PutOff(cs))
    BY DEF Answer, Incomplete
  <2>5. miss \in SUBSET CallIds /\ IsFiniteSet(miss)
    <3>1. IdsOf(cs) \in SUBSET CallIds /\ miss \subseteq IdsOf(cs)
      BY <1>1, IdsOfFacts DEF IdsOf, Incomplete
    <3> QED BY <3>1, ExecutionAssumption, FS_Subset
  <2> DEFINE t == Answers(miss)
             off == PutOff(cs)
             mine == ids # {NoId}
  <2>6. t \in Chains(Texts) /\ \A k \in 1..Len(t) : t[k].role = "result"
    BY <2>5, AnswersFacts
  <2>7. mine \in BOOLEAN /\ s \in Synced(a, cs, mine) /\ chain' = RemoveCalls(s \o t, off)
    BY <2>4
  <2> HIDE DEF t, off, mine, a, cs
  <2>8. s \in Chains(Texts) /\ InOrder(a, s)
    BY <1>1, <2>3, <2>7, SyncedKeeps
  <2>9. Orderly(s)
    BY <2>3, <2>8, OrderlyKeeps DEF Orderly
  <2>10. s \o t \in Chains(Texts) /\ Orderly(s \o t)
    BY <2>6, <2>9, AnsweredKeeps DEF Orderly
  <2>11. RemoveCalls(s \o t, off) \in Chains(Texts) /\ InOrder(s \o t, RemoveCalls(s \o t, off))
    BY <2>10, RemoveFacts, RemoveCallsOrder
  <2> QED BY <2>7, <2>10, <2>11, OrderlyKeeps
<1> QED BY <1>3, <1>4

\* Each step keeps it in order.
LEMMA ChainStep ==
    ASSUME TypeInv, ChainInv, [Next]_vars
    PROVE  ChainInv'
<1>1. Orderly(chain) /\ Words \subseteq Texts /\ (pc = "ask" => Settled(chain))
  BY WordsInTexts DEF ChainInv, Orderly
<1>2. own' \in BOOLEAN
  BY DEF ChainInv, Next, Step, Skip, Queue, Flush, StaySilent, StartReply, SendSegment, ReplySent,
         ReplyEmpty, SendFails, ReplyRaises, ReplySkipped, ReplyDone, Finish, Retry, Followup, End,
         Answer, vars
<1> SUFFICES Orderly(chain') /\ (pc' = "ask" => Settled(chain'))
  BY <1>2 DEF ChainInv, Orderly
<1>3. CASE Skip \/ Queue \/ StartReply \/ SendSegment
  BY <1>1, <1>3 DEF Skip, Queue, StartReply, SendSegment, Running
<1>4. CASE StaySilent \/ ReplySent \/ ReplyEmpty \/ SendFails \/ ReplyRaises \/ ReplySkipped
  <2>1. pc' # "ask" /\ (chain' = chain \/ chain' = Append(chain, Result({Here.id})))
    BY <1>4 DEF StaySilent, ReplySent, ReplyEmpty, SendFails, ReplyRaises, ReplySkipped, WithResult,
                ReplyDone, Running
  <2>2. at <= Len(calls)
    BY <1>4 DEF StaySilent, ReplySent, ReplyEmpty, SendFails, ReplyRaises, ReplySkipped, Running,
                TypeInv, Calling
  <2>3. Here.id \in CallIds
    BY <2>2, HereFacts DEF CallSet
  <2>4. Orderly(Append(chain, Result({Here.id})))
    BY <2>3, ResultKeeps DEF Orderly
  <2> QED BY <1>1, <2>1, <2>4
<1>5. CASE Flush
  <2>1. PICK none \in SUBSET IdsOf(queue) :
               chain' = chain \o Answers(IdsOf(queue) \ none)
    BY <1>5 DEF Flush
  <2> DEFINE ids == IdsOf(queue) \ none
  <2>2. ids \in SUBSET CallIds /\ IsFiniteSet(ids)
    <3>1. IdsOf(queue) \in SUBSET CallIds
      BY IdsOfFacts DEF TypeInv, Calling
    <3> QED BY <3>1, ExecutionAssumption, FS_Subset
  <2>3. pc' = "run" /\ chain' = chain \o Answers(ids)
    BY <1>5, <2>1 DEF Flush
  <2> HIDE DEF ids
  <2> QED BY <2>2, <2>3, ResultsKeep DEF Orderly
<1>6. CASE Finish
  <2> DEFINE kept == Kept(calls, failed)
             c == RemoveCalls(chain, failed)
  <2>1. chain' \in Synced(c, kept, own) /\ pc' = "decided"
    BY <1>6 DEF Finish, Left, Kept
  <2>2. calls \in Seq(CallSet) /\ Apart(calls) /\ Complete(calls)
    BY DEF TypeInv, Calling
  <2>3. kept \in Seq(CallSet)
    BY <2>2, KeptFacts
  <2>4. c \in Chains(Texts) /\ InOrder(chain, c)
    BY <1>1, RemoveFacts, RemoveCallsOrder DEF Orderly
  <2>5. Orderly(c)
    BY <1>1, <2>4, OrderlyKeeps
  <2>6. own \in BOOLEAN
    BY DEF ChainInv
  <2> HIDE DEF kept, c
  <2>7. chain' \in Chains(Texts) /\ InOrder(c, chain')
    BY <2>1, <2>3, <2>4, <2>6, SyncedKeeps
  <2> QED BY <2>1, <2>5, <2>7, OrderlyKeeps
<1>7. CASE Retry
  <2>1. PICK empty : chain' = Prepare(Append(Prepare(PurgeReply(chain, empty)), User({"retry"})))
    BY <1>7 DEF Retry
  <2> DEFINE p == PurgeReply(chain, empty)
             q == Prepare(p)
             r == Append(q, User({"retry"}))
  <2>2. p \in Chains(Texts) /\ Fronted(p)
    BY <1>1, PurgeOrder DEF Orderly
  <2>3. q \in Chains(Texts) /\ Settled(q) /\ Fronted(q)
    <3> HIDE DEF p
    <3> QED BY <1>1, <2>2, PrepareOrder DEF InOrder
  <2>4. {"retry"} \in (SUBSET Texts) \ {{}}
    BY <1>1 DEF Words
  <2>5. r \in Chains(Texts) /\ Ready(r, {})
    <3> HIDE DEF q
    <3> QED BY <2>3, <2>4, UserReady
  <2>6. Prepare(r) = r /\ HasUser(r) /\ Settled(r) /\ Fronted(r)
    <3> HIDE DEF r
    <3> QED BY <1>1, <2>5, SettledPrepared, GreetsFacts DEF Ready
  <2>7. chain' = Prepare(r)
    BY <2>1
  <2> QED BY <2>5, <2>6, <2>7 DEF Orderly
<1>8. CASE Followup
  <2>1. chain' = Prepare(chain)
    BY <1>8 DEF Followup
  <2>2. Prepare(chain) \in Chains(Texts) /\ Settled(Prepare(chain)) /\ InOrder(chain, Prepare(chain))
    BY <1>1, PrepareOrder DEF Orderly
  <2> QED BY <1>1, <2>1, <2>2, OrderlyKeeps
<1>9. CASE End
  <2>1. chain' \in {WithSuspend(chain), chain} /\ pc' = "end"
    BY <1>9 DEF End
  <2>2. WithSuspend(chain) \in Chains(Texts) /\ InOrder(chain, WithSuspend(chain))
    BY <1>1, SuspendFacts, SuspendOrder DEF Orderly
  <2> QED BY <1>1, <2>1, <2>2, OrderlyKeeps
<1>10. ASSUME pc = "ask", NEW raw \in Batches, Answer(raw)
       PROVE  Orderly(chain') /\ (pc' = "ask" => Settled(chain'))
  <2>1. pc' = "run"
    BY <1>10 DEF Answer
  <2> QED BY <1>10, <2>1, AnswerOrderly
<1>11. CASE UNCHANGED vars
  BY <1>1, <1>11 DEF vars
<1> QED BY <1>3, <1>4, <1>5, <1>6, <1>7, <1>8, <1>9, <1>10, <1>11 DEF Next, Step

-----------------------------------------------------------------------------
(* The calls that are not answered yet                                     *)

\* What failed and what is queued came before the call the parser is at, and had
\* its arguments; what is queued has not failed.
Fates ==
    pc \in Working =>
      /\ \A id \in failed : \E i \in 1..(at - 1) : calls[i].id = id /\ ~calls[i].bad
      /\ \A k \in 1..Len(queue) :
            /\ \E i \in 1..(at - 1) : queue[k] = calls[i] /\ ~calls[i].bad
            /\ queue[k].id \notin failed

\* Each step keeps it so.
LEMMA FatesStep ==
    ASSUME TypeInv, Fates, [Next]_vars
    PROVE  Fates'
<1>1. /\ calls \in Seq(CallSet) /\ Apart(calls) /\ Complete(calls) /\ queue \in Seq(CallSet)
      /\ at \in Nat \ {0} /\ (pc \in Working => at - 1 \in 0..Len(calls))
  BY DEF TypeInv, Calling
<1>2. CASE StartReply \/ SendSegment
  <2>1. /\ pc \in Working /\ calls' = calls /\ queue' = queue /\ failed' = failed /\ at' = at
    BY <1>2 DEF StartReply, SendSegment, Running, Working
  <2> QED BY <2>1 DEF Fates
<1>3. \A i \in 1..(at - 1) : i \in 1..((at + 1) - 1)
  BY <1>1
<1>4. CASE Skip \/ ReplySent \/ ReplyEmpty \/ SendFails \/ ReplyRaises
  <2>1. /\ pc \in Working /\ calls' = calls /\ queue' = queue /\ failed' = failed /\ at' = at + 1
    BY <1>4 DEF Skip, ReplySent, ReplyEmpty, SendFails, ReplyRaises, WithResult, ReplyDone, Running,
                Working
  <2> QED BY <1>3, <2>1 DEF Fates
<1>5. CASE StaySilent \/ ReplySkipped
  <2>1. /\ pc \in Working /\ calls' = calls /\ queue' = queue /\ at' = at + 1
        /\ failed' = failed \/ failed' = failed \cup {Here.id}
        /\ at \in 1..Len(calls) /\ Speaks(Here)
    <3>1. CASE StaySilent
      BY <3>1, HereFacts DEF StaySilent, Running, Working, Speaks
    <3>2. CASE ReplySkipped
      <4>1. pc = "send"
        BY <3>2 DEF ReplySkipped
      <4>2. at \in 1..Len(calls) /\ Here.kind = "reply"
        BY <4>1, HereFacts DEF TypeInv, Calling
      <4> QED BY <3>2, <4>1, <4>2 DEF ReplySkipped, ReplyDone, Working, Speaks
    <3> QED BY <1>5, <3>1, <3>2
  <2>2. ~calls[at].bad /\ Here = calls[at] /\ at \in 1..((at + 1) - 1)
    BY <1>1, <2>1 DEF Complete, Here
  <2>3. \A k \in 1..Len(queue) : queue[k].id # Here.id
    <3>1. ASSUME NEW k \in 1..Len(queue), queue[k].id = Here.id PROVE FALSE
      <4>1. PICK i \in 1..(at - 1) : queue[k] = calls[i]
        BY <2>1 DEF Fates
      <4>2. i \in 1..Len(calls) /\ i # at
        BY <1>1, <2>1
      <4> QED BY <1>1, <2>1, <2>2, <3>1, <4>1, <4>2 DEF Apart
    <3> QED BY <3>1
  <2>4. ASSUME NEW id \in failed' PROVE \E i \in 1..((at + 1) - 1) : calls[i].id = id /\ ~calls[i].bad
    BY <1>3, <2>1, <2>2 DEF Fates
  <2>5. ASSUME NEW k \in 1..Len(queue)
        PROVE  /\ \E i \in 1..((at + 1) - 1) : queue[k] = calls[i] /\ ~calls[i].bad
               /\ queue[k].id \notin failed'
    BY <1>3, <2>1, <2>3 DEF Fates
  <2> QED BY <2>1, <2>4, <2>5 DEF Fates
<1>6. CASE Queue
  <2>1. /\ pc \in Working /\ calls' = calls /\ queue' = Append(queue, Here) /\ failed' = failed
        /\ at' = at + 1 /\ ~Here.bad /\ at \in 1..Len(calls) /\ Here \in CallSet
    BY <1>6, HereFacts DEF Queue, Running, Working
  <2>2. Here = calls[at] /\ at \in 1..((at + 1) - 1)
    BY <2>1 DEF Here
  <2>3. Here.id \notin failed
    <3>1. ASSUME Here.id \in failed PROVE FALSE
      <4>1. PICK i \in 1..(at - 1) : calls[i].id = Here.id
        BY <2>1, <3>1 DEF Fates
      <4>2. i \in 1..Len(calls) /\ i # at
        BY <1>1, <2>1
      <4> QED BY <1>1, <2>1, <2>2, <4>1, <4>2 DEF Apart
    <3> QED BY <3>1
  <2>4. /\ Len(queue') = Len(queue) + 1 /\ queue'[Len(queue) + 1] = Here
        /\ \A k \in 1..Len(queue) : queue'[k] = queue[k]
    <3> HIDE DEF Here
    <3> QED BY <1>1, <2>1
  <2>5. ASSUME NEW k \in 1..Len(queue')
        PROVE  /\ \E i \in 1..((at + 1) - 1) : queue'[k] = calls[i] /\ ~calls[i].bad
               /\ queue'[k].id \notin failed
    <3>1. k \in 1..Len(queue) \/ k = Len(queue) + 1
      BY <1>1, <2>4
    <3>2. CASE k \in 1..Len(queue)
      BY <1>3, <2>1, <2>4, <3>2 DEF Fates
    <3>3. CASE k = Len(queue) + 1
      BY <2>1, <2>2, <2>3, <2>4, <3>3
    <3> QED BY <3>1, <3>2, <3>3
  <2>6. ASSUME NEW id \in failed PROVE \E i \in 1..((at + 1) - 1) : calls[i].id = id /\ ~calls[i].bad
    BY <1>3, <2>1 DEF Fates
  <2> QED BY <2>1, <2>5, <2>6 DEF Fates
<1>7. CASE Flush
  <2>1. /\ pc \in Working /\ calls' = calls /\ queue' = <<>> /\ at' = at
        /\ \E none \in SUBSET IdsOf(queue) : failed' = failed \cup none
    BY <1>7 DEF Flush, Working
  <2>2. PICK none \in SUBSET IdsOf(queue) : failed' = failed \cup none
    BY <2>1
  <2>3. ASSUME NEW id \in failed' PROVE \E i \in 1..(at - 1) : calls[i].id = id /\ ~calls[i].bad
    <3>1. CASE id \in failed
      BY <2>1, <3>1 DEF Fates
    <3>2. CASE id \in IdsOf(queue)
      <4>1. PICK k \in 1..Len(queue) : queue[k].id = id
        BY <1>1, <3>2 DEF IdsOf
      <4> QED BY <2>1, <4>1 DEF Fates
    <3> QED BY <2>2, <3>1, <3>2
  <2>4. 1..Len(queue') = {}
    BY <2>1
  <2> QED BY <2>1, <2>3, <2>4 DEF Fates
<1>8. CASE Finish \/ Retry \/ Followup \/ End
  BY <1>8 DEF Finish, Retry, Followup, End, Fates, Working
<1>9. ASSUME NEW raw \in Batches, Answer(raw) PROVE Fates'
  <2>1. queue' = <<>> /\ failed' = {}
    BY <1>9 DEF Answer
  <2>2. 1..Len(queue') = {}
    BY <2>1
  <2> QED BY <2>1, <2>2 DEF Fates
<1>10. CASE UNCHANGED vars
  BY <1>10 DEF vars, Fates
<1> QED BY <1>2, <1>4, <1>5, <1>6, <1>7, <1>8, <1>9, <1>10 DEF Next, Step

-----------------------------------------------------------------------------
(* Every call with its arguments runs, once                                *)

\* The ids of the calls among the first n that have their arguments.
Good(cs, n) == {cs[i].id : i \in {i \in 1..n : ~cs[i].bad}}

\* What has run and what is queued are the calls passed so far that have their
\* arguments.
Taken == pc \in Working => ToSet(seen.ran) \cup IdsOf(queue) = Good(calls, Passed)

\* Between rounds, and when a decision was made.
Ended == pc \notin Working => RunInOrder

\* What lists made longer have in them.
LEMMA PutFacts ==
    /\ \A s \in Seq(CallIds), id \in CallIds : ToSet(Append(s, id)) = ToSet(s) \cup {id}
    /\ \A q \in Seq(CallSet), c \in CallSet : IdsOf(Append(q, c)) = IdsOf(q) \cup {c.id}
    /\ \A s \in Seq(CallIds), q \in Seq(CallSet) :
         ToSet(s \o [i \in DOMAIN q |-> q[i].id]) = ToSet(s) \cup IdsOf(q)
<1>1. ASSUME NEW s \in Seq(CallIds), NEW id \in CallIds
      PROVE  ToSet(Append(s, id)) = ToSet(s) \cup {id}
  <2>1. /\ DOMAIN Append(s, id) = 1..(Len(s) + 1) /\ DOMAIN s = 1..Len(s) /\ Len(s) \in Nat
        /\ \A k \in 1..Len(s) : Append(s, id)[k] = s[k]
        /\ Append(s, id)[Len(s) + 1] = id
    BY <1>1
  <2>2. \A k \in 1..(Len(s) + 1) : k \in 1..Len(s) \/ k = Len(s) + 1
    BY <2>1
  <2>3. Len(s) + 1 \in 1..(Len(s) + 1) /\ \A k \in 1..Len(s) : k \in 1..(Len(s) + 1)
    BY <2>1
  <2>4. ASSUME NEW x PROVE x \in ToSet(Append(s, id)) <=> x \in ToSet(s) \cup {id}
    <3>1. x \in ToSet(Append(s, id)) <=> \E k \in 1..(Len(s) + 1) : x = Append(s, id)[k]
      BY <2>1 DEF ToSet
    <3>2. x \in ToSet(s) <=> \E k \in 1..Len(s) : x = s[k]
      BY <2>1 DEF ToSet
    <3> QED BY <2>1, <2>2, <2>3, <3>1, <3>2
  <2> QED BY <2>4
<1>2. ASSUME NEW q \in Seq(CallSet), NEW c \in CallSet
      PROVE  IdsOf(Append(q, c)) = IdsOf(q) \cup {c.id}
  <2>1. /\ DOMAIN Append(q, c) = 1..(Len(q) + 1) /\ DOMAIN q = 1..Len(q) /\ Len(q) \in Nat
        /\ \A k \in 1..Len(q) : Append(q, c)[k] = q[k]
        /\ Append(q, c)[Len(q) + 1] = c
    BY <1>2
  <2>2. \A k \in 1..(Len(q) + 1) : k \in 1..Len(q) \/ k = Len(q) + 1
    BY <2>1
  <2>3. Len(q) + 1 \in 1..(Len(q) + 1) /\ \A k \in 1..Len(q) : k \in 1..(Len(q) + 1)
    BY <2>1
  <2>4. ASSUME NEW id PROVE id \in IdsOf(Append(q, c)) <=> id \in IdsOf(q) \cup {c.id}
    <3>1. id \in IdsOf(Append(q, c)) <=> \E k \in 1..(Len(q) + 1) : id = Append(q, c)[k].id
      BY <2>1 DEF IdsOf
    <3>2. id \in IdsOf(q) <=> \E k \in 1..Len(q) : id = q[k].id
      BY <2>1 DEF IdsOf
    <3> QED BY <2>1, <2>2, <2>3, <3>1, <3>2
  <2> QED BY <2>4
<1>3. ASSUME NEW s \in Seq(CallIds), NEW q \in Seq(CallSet)
      PROVE  ToSet(s \o [i \in DOMAIN q |-> q[i].id]) = ToSet(s) \cup IdsOf(q)
  <2> DEFINE ids == [i \in DOMAIN q |-> q[i].id]
  <2>1. DOMAIN q = 1..Len(q) /\ Len(q) \in Nat /\ \A k \in 1..Len(q) : q[k].id \in CallIds
    <3>1. \A k \in 1..Len(q) : q[k] \in CallSet
      BY <1>3
    <3> QED BY <1>3, <3>1 DEF CallSet
  <2>2. ids \in Seq(CallIds) /\ Len(ids) = Len(q) /\ \A k \in 1..Len(q) : ids[k] = q[k].id
    BY <2>1
  <2> HIDE DEF ids
  <2> DEFINE both == s \o ids
  <2>3. /\ DOMAIN both = 1..(Len(s) + Len(q)) /\ Len(s) \in Nat /\ DOMAIN s = 1..Len(s)
        /\ \A k \in 1..Len(s) : both[k] = s[k]
        /\ \A k \in 1..Len(q) : both[Len(s) + k] = q[k].id
    <3>1. both \in Seq(CallIds) /\ Len(both) = Len(s) + Len(q) /\ Len(s) \in Nat
      <4>1. s \o ids \in Seq(CallIds)
        BY <1>3, <2>2, ConcatProperties
      <4>2. Len(s \o ids) = Len(s) + Len(ids)
        BY <1>3, <2>2, ConcatProperties
      <4> QED BY <1>3, <2>2, <4>1, <4>2
    <3>2. \A i \in 1..(Len(s) + Len(q)) : both[i] = IF i <= Len(s) THEN s[i] ELSE ids[i - Len(s)]
      BY <1>3, <2>2, ConcatProperties
    <3>3. /\ \A k \in 1..Len(s) : k \in 1..(Len(s) + Len(q)) /\ k <= Len(s)
          /\ \A k \in 1..Len(q) : /\ Len(s) + k \in 1..(Len(s) + Len(q))
                                  /\ ~(Len(s) + k <= Len(s)) /\ (Len(s) + k) - Len(s) = k
      BY <2>1, <3>1
    <3> HIDE DEF both
    <3>4. \A k \in 1..Len(s) : both[k] = s[k]
      BY <3>2, <3>3
    <3>5. \A k \in 1..Len(q) : both[Len(s) + k] = q[k].id
      BY <2>2, <3>2, <3>3
    <3>6. DOMAIN both = 1..(Len(s) + Len(q))
      BY <3>1
    <3> QED BY <1>3, <3>1, <3>4, <3>5, <3>6
  <2> HIDE DEF both
  <2>4. ASSUME NEW id PROVE id \in ToSet(both) <=> id \in ToSet(s) \cup IdsOf(q)
    <3>1. id \in ToSet(both) <=> \E k \in 1..(Len(s) + Len(q)) : id = both[k]
      BY <2>3 DEF ToSet
    <3>2. id \in ToSet(s) <=> \E k \in 1..Len(s) : id = s[k]
      BY <2>3 DEF ToSet
    <3>3. id \in IdsOf(q) <=> \E k \in 1..Len(q) : id = q[k].id
      BY <2>1 DEF IdsOf
    <3>4. \A k \in 1..(Len(s) + Len(q)) :
            k \in 1..Len(s) \/ \E m \in 1..Len(q) : k = Len(s) + m
      <4>1. ASSUME NEW k \in 1..(Len(s) + Len(q)), k \notin 1..Len(s)
            PROVE  k - Len(s) \in 1..Len(q) /\ k = Len(s) + (k - Len(s))
        BY <2>1, <2>3, <4>1
      <4> QED BY <4>1
    <3>5. /\ \A k \in 1..Len(s) : k \in 1..(Len(s) + Len(q))
          /\ \A k \in 1..Len(q) : Len(s) + k \in 1..(Len(s) + Len(q))
      BY <2>1, <2>3
    <3>6. ASSUME id \in ToSet(both) PROVE id \in ToSet(s) \cup IdsOf(q)
      <4>1. PICK k \in 1..(Len(s) + Len(q)) : id = both[k]
        BY <3>1, <3>6
      <4>2. CASE k \in 1..Len(s)
        BY <2>3, <3>2, <4>1, <4>2
      <4>3. CASE \E m \in 1..Len(q) : k = Len(s) + m
        BY <2>3, <3>3, <4>1, <4>3
      <4> QED BY <3>4, <4>2, <4>3
    <3>7. ASSUME id \in ToSet(s) \cup IdsOf(q) PROVE id \in ToSet(both)
      BY <2>3, <3>1, <3>2, <3>3, <3>5, <3>7
    <3> QED BY <3>6, <3>7
  <2> QED BY <2>4 DEF both, ids
<1> QED BY <1>1, <1>2, <1>3

\* The call that is passed next: it counts when it has its arguments.
LEMMA GoodNext ==
    ASSUME NEW cs, NEW n \in Nat \ {0}
    PROVE  /\ cs[n].bad => Good(cs, n) = Good(cs, n - 1)
           /\ ~cs[n].bad => Good(cs, n) = Good(cs, n - 1) \cup {cs[n].id}
<1>1. \A i \in 1..n : i \in 1..(n - 1) \/ i = n
  OBVIOUS
<1>2. n \in 1..n /\ \A i \in 1..(n - 1) : i \in 1..n /\ i # n
  OBVIOUS
<1> QED BY <1>1, <1>2 DEF Good

\* No call is lost or run without its arguments by a step.
LEMMA TakenStep ==
    ASSUME TypeInv, Taken, [Next]_vars
    PROVE  Taken'
<1>1. /\ seen = [got |-> seen.got, ran |-> seen.ran, broken |-> seen.broken, turns |-> seen.turns]
      /\ calls \in Seq(CallSet) /\ queue \in Seq(CallSet) /\ at \in Nat \ {0}
      /\ seen.ran \in Seq(CallIds) /\ (at + 1) - 1 = at
  BY DEF TypeInv, Noted, Calling
<1>2. Here = calls[at]
  BY DEF Here
<1>3. CASE Skip
  <2>1. /\ pc = "run" /\ pc' = "run" /\ calls' = calls /\ queue' = queue /\ seen' = seen
        /\ at' = at + 1 /\ Here.bad
    BY <1>3 DEF Skip, Running
  <2>2. Passed = at - 1 /\ Passed' = at
    BY <1>1, <2>1 DEF Passed
  <2>3. Good(calls, at) = Good(calls, at - 1)
    BY <1>1, <1>2, <2>1, GoodNext
  <2> QED BY <2>1, <2>2, <2>3 DEF Taken, Working
<1>4. CASE Queue
  <2>1. /\ pc = "run" /\ pc' = "run" /\ calls' = calls /\ queue' = Append(queue, Here) /\ seen' = seen
        /\ at' = at + 1 /\ ~Here.bad /\ Here \in CallSet
    BY <1>4, HereFacts DEF Queue, Running
  <2>2. Passed = at - 1 /\ Passed' = at
    BY <1>1, <2>1 DEF Passed
  <2>3. Good(calls, at) = Good(calls, at - 1) \cup {Here.id}
    BY <1>1, <1>2, <2>1, GoodNext
  <2>4. IdsOf(queue') = IdsOf(queue) \cup {Here.id}
    BY <1>1, <2>1, PutFacts
  <2>5. ToSet(seen.ran) \cup IdsOf(queue) = Good(calls, at - 1)
    BY <2>1, <2>2 DEF Taken, Working
  <2>6. ToSet(seen'.ran) \cup IdsOf(queue') = Good(calls, at)
    BY <2>1, <2>3, <2>4, <2>5
  <2> QED BY <2>1, <2>2, <2>6 DEF Taken
<1>5. CASE Flush
  <2>1. /\ pc = "run" /\ pc' = "run" /\ calls' = calls /\ queue' = <<>> /\ at' = at
        /\ seen'.ran = seen.ran \o [i \in DOMAIN queue |-> queue[i].id]
    BY <1>1, <1>5 DEF Flush
  <2>2. Passed' = Passed
    BY <2>1 DEF Passed
  <2>3. ToSet(seen'.ran) = ToSet(seen.ran) \cup IdsOf(queue)
    BY <1>1, <2>1, PutFacts
  <2>4. IdsOf(queue') = {}
    BY <2>1 DEF IdsOf
  <2>5. ToSet(seen'.ran) \cup IdsOf(queue') = Good(calls, Passed)
    BY <2>1, <2>3, <2>4 DEF Taken, Working
  <2> QED BY <2>1, <2>2, <2>5 DEF Taken
\* A call that speaks has its arguments.
<1>6. CASE StaySilent \/ StartReply
  <2>1. /\ pc = "run" /\ calls' = calls /\ queue' = queue /\ at \in 1..Len(calls)
        /\ seen'.ran = Append(seen.ran, Here.id) /\ ~Here.bad /\ Here \in CallSet
    BY <1>1, <1>6, HereFacts DEF StaySilent, StartReply, Running, Speaks
  <2>2. Passed = at - 1 /\ Passed' = at
    BY <1>1, <1>6, <2>1 DEF Passed, StaySilent, StartReply
  <2>3. Good(calls, at) = Good(calls, at - 1) \cup {Here.id}
    BY <1>1, <1>2, <2>1, GoodNext
  <2>4. ToSet(seen'.ran) = ToSet(seen.ran) \cup {Here.id}
    <3>1. Here.id \in CallIds
      BY <2>1 DEF CallSet
    <3> QED BY <1>1, <2>1, <3>1, PutFacts
  <2>5. ToSet(seen.ran) \cup IdsOf(queue) = Good(calls, at - 1)
    BY <2>1, <2>2 DEF Taken, Working
  <2>6. ToSet(seen'.ran) \cup IdsOf(queue) = Good(calls, at)
    BY <2>3, <2>4, <2>5
  <2> QED BY <2>1, <2>2, <2>6 DEF Taken
<1>7. CASE SendSegment
  <2>1. /\ pc = "send" /\ pc' = "send" /\ queue' = queue /\ calls' = calls /\ at' = at
        /\ seen'.ran = seen.ran
    BY <1>1, <1>7 DEF SendSegment
  <2> QED BY <2>1 DEF Taken, Passed, Working
<1>8. CASE ReplySent \/ ReplyEmpty \/ SendFails \/ ReplyRaises \/ ReplySkipped
  <2>1. /\ pc = "send" /\ pc' = "run" /\ queue' = queue /\ calls' = calls /\ at' = at + 1
        /\ seen'.ran = seen.ran
    BY <1>1, <1>8 DEF ReplySent, ReplyEmpty, SendFails, ReplyRaises, ReplySkipped, ReplyDone
  <2>2. Passed = at /\ Passed' = at
    BY <1>1, <2>1 DEF Passed
  <2> QED BY <2>1, <2>2 DEF Taken, Working
<1>9. CASE Finish \/ Retry \/ Followup \/ End
  BY <1>9 DEF Finish, Retry, Followup, End, Taken, Working
<1>10. ASSUME NEW raw \in Batches, Answer(raw) PROVE Taken'
  <2>1. /\ at' = 1 /\ queue' = <<>> /\ pc' = "run" /\ seen'.ran = <<>>
    BY <1>10 DEF Answer, NewSeen
  <2>2. ToSet(seen'.ran) = {} /\ IdsOf(queue') = {} /\ Passed' = 0
    BY <2>1 DEF ToSet, IdsOf, Passed
  <2>3. Good(calls', 0) = {}
    BY DEF Good
  <2> QED BY <2>2, <2>3 DEF Taken
<1>11. CASE UNCHANGED vars
  BY <1>11 DEF vars, Taken, Passed
<1> QED
  BY <1>3, <1>4, <1>5, <1>6, <1>7, <1>8, <1>9, <1>10, <1>11 DEF Next, Step

\* A trail in order has each id once, and keeps the order of any two calls.
LEMMA MarksOrder ==
    ASSUME NEW cs \in Seq(CallSet), Apart(cs), NEW s \in Seq(CallIds), NEW n \in 0..Len(cs),
           NEW g, Marks(g, s, cs, n)
    PROVE  /\ IsInjective(s)
           /\ \A i, j \in 1..Len(cs) : i < j /\ cs[i].id \in ToSet(s) /\ cs[j].id \in ToSet(s) =>
                \E k, m \in 1..Len(s) : k < m /\ s[k] = cs[i].id /\ s[m] = cs[j].id
<1>1. /\ \A k \in 1..Len(s) : g[k] \in 1..Len(cs) /\ s[k] = cs[g[k]].id
      /\ \A j, k \in 1..Len(s) : j < k => g[j] < g[k]
      /\ DOMAIN s = 1..Len(s) /\ Len(s) \in Nat /\ Len(cs) \in Nat
  <2>1. g \in [1..Len(s) -> 1..n] /\ 1..n \subseteq 1..Len(cs)
    BY DEF Marks
  <2> QED BY <2>1 DEF Marks
<1>2. ASSUME NEW j \in 1..Len(s), NEW k \in 1..Len(s), j < k PROVE s[j] # s[k]
  <2>1. g[j] # g[k]
    <3>1. g[j] < g[k] /\ g[j] \in Int /\ g[k] \in Int
      BY <1>1, <1>2
    <3> QED BY <3>1
  <2> QED BY <1>1, <2>1 DEF Apart
<1>3. IsInjective(s)
  <2>1. \A j, k \in 1..Len(s) : j = k \/ j < k \/ k < j
    OBVIOUS
  <2> QED BY <1>1, <1>2, <2>1 DEF IsInjective
<1>4. ASSUME NEW i \in 1..Len(cs), NEW j \in 1..Len(cs), i < j,
             cs[i].id \in ToSet(s), cs[j].id \in ToSet(s)
      PROVE  \E k, m \in 1..Len(s) : k < m /\ s[k] = cs[i].id /\ s[m] = cs[j].id
  <2>1. PICK k \in 1..Len(s) : s[k] = cs[i].id
    BY <1>1, <1>4 DEF ToSet
  <2>2. PICK m \in 1..Len(s) : s[m] = cs[j].id
    BY <1>1, <1>4 DEF ToSet
  <2>3. g[k] = i /\ g[m] = j
    <3>1. g[k] \in 1..Len(cs) /\ g[m] \in 1..Len(cs)
      BY <1>1
    <3>2. cs[g[k]].id = cs[i].id /\ cs[g[m]].id = cs[j].id
      BY <1>1, <2>1, <2>2
    <3>3. \A x, y \in 1..Len(cs) : cs[x].id = cs[y].id => x = y
      BY DEF Apart
    <3> QED BY <3>1, <3>2, <3>3
  <2>4. k # m /\ ~(m < k)
    BY <1>1, <1>4, <2>3
  <2>5. k < m
    BY <2>4
  <2> QED BY <2>1, <2>2, <2>5
<1> QED BY <1>3, <1>4

\* During a round what has run is in order, and nothing that misses an argument.
LEMMA WorkingInOrder ==
    ASSUME TypeInv, Ordered, Taken, pc \in Working
    PROVE  RunInOrder
<1>1. calls \in Seq(CallSet) /\ Apart(calls) /\ Trail \in Seq(CallIds) /\ seen.ran \in Seq(CallIds)
      /\ QueueIds \in Seq(CallIds) /\ Passed \in 0..Len(calls)
  BY TrailFacts DEF TypeInv, Calling, Passed, Working
<1>2. PICK g : Marks(g, Trail, calls, Passed)
  BY DEF Ordered
<1>3. IsInjective(Trail)
  BY <1>1, <1>2, MarksOrder
<1>4. IsInjective(seen.ran)
  <2>1. /\ Len(Trail) = Len(seen.ran) + Len(QueueIds)
        /\ \A k \in 1..Len(seen.ran) : Trail[k] = seen.ran[k]
        /\ DOMAIN Trail = 1..Len(Trail) /\ DOMAIN seen.ran = 1..Len(seen.ran)
        /\ Len(seen.ran) \in Nat /\ Len(QueueIds) \in Nat
    <3> HIDE DEF QueueIds
    <3>1. Trail = seen.ran \o QueueIds
      BY DEF Trail
    <3> QED BY <1>1, <3>1, ConcatProperties
  <2>2. \A k \in 1..Len(seen.ran) : k \in DOMAIN Trail
    BY <2>1
  <2> QED BY <1>3, <2>1, <2>2 DEF IsInjective
<1>5. ASSUME NEW i \in DOMAIN calls, calls[i].bad, calls[i].id \in ToSet(seen.ran)
      PROVE  FALSE
  <2>1. calls[i].id \in Good(calls, Passed)
    BY <1>5 DEF Taken
  <2>2. PICK k \in 1..Passed : calls[k].id = calls[i].id /\ ~calls[k].bad
    BY <2>1 DEF Good
  <2>3. i \in 1..Len(calls) /\ k \in 1..Len(calls)
    BY <1>1
  <2> QED BY <1>1, <1>5, <2>2, <2>3 DEF Apart
<1> QED BY <1>4, <1>5 DEF RunInOrder, Working

\* At the end of a round every call that has its arguments has run, and in order.
LEMMA FinishInOrder ==
    ASSUME TypeInv, Ordered, Taken, Fates, Finish
    PROVE  RunInOrder'
<1>1. /\ pc = "run" /\ pc' = "decided" /\ queue = <<>> /\ seen' = seen /\ failed' = failed
      /\ calls' = Kept(calls, failed) /\ at > Len(calls)
  BY DEF Finish, Kept
<1>2. /\ calls \in Seq(CallSet) /\ Apart(calls) /\ Complete(calls) /\ seen.ran \in Seq(CallIds)
      /\ at - 1 = Len(calls) /\ Len(calls) \in Nat
  BY <1>1 DEF TypeInv, Calling, Noted, Working
<1> DEFINE kept == Kept(calls, failed)
<1>3. /\ kept \in Seq(CallSet)
      /\ \A k \in 1..Len(kept) : \E i \in 1..Len(calls) : kept[k] = calls[i] /\ calls[i].id \notin failed
      /\ \A i \in 1..Len(calls) : calls[i].id \notin failed => \E k \in 1..Len(kept) : kept[k] = calls[i]
      /\ \A j, k \in 1..Len(kept) : j < k =>
            \E a, b \in 1..Len(calls) : a < b /\ kept[j] = calls[a] /\ kept[k] = calls[b]
  <2>1. calls \in Seq(CallSet) /\ Apart(calls) /\ Complete(calls)
    BY <1>2
  <2>2. /\ kept \in Seq(CallSet)
        /\ \A k \in 1..Len(kept) :
              \E i \in 1..Len(calls) : kept[k] = calls[i] /\ calls[i].id \notin failed
    BY ONLY <2>1, KeptFacts
  <2>3. \A i \in 1..Len(calls) : calls[i].id \notin failed => \E k \in 1..Len(kept) : kept[k] = calls[i]
    BY ONLY <2>1, KeptFacts
  <2>4. /\ kept \in Seq(CallSet)
        /\ \A j, k \in 1..Len(kept) : j < k =>
              \E g, i \in 1..Len(calls) : g < i /\ kept[j] = calls[g] /\ kept[k] = calls[i]
    BY ONLY <2>1, KeptFacts
  <2> QED BY ONLY <2>2, <2>3, <2>4
<1>4. calls' = kept
  BY <1>1
<1> HIDE DEF kept
<1>5. DOMAIN kept = 1..Len(kept) /\ DOMAIN seen.ran = 1..Len(seen.ran) /\ DOMAIN calls = 1..Len(calls)
  BY <1>2, <1>3
<1>6. PICK g : Marks(g, seen.ran, calls, at - 1)
  BY <1>1, TrailEmpty DEF Ordered, Working, Passed
<1>7. /\ IsInjective(seen.ran)
      /\ \A i, j \in 1..Len(calls) :
            i < j /\ calls[i].id \in ToSet(seen.ran) /\ calls[j].id \in ToSet(seen.ran) =>
            \E k, m \in 1..Len(seen.ran) :
               k < m /\ seen.ran[k] = calls[i].id /\ seen.ran[m] = calls[j].id
  <2>1. at - 1 \in 0..Len(calls)
    BY <1>2
  <2> QED BY <1>2, <1>6, <2>1, MarksOrder
<1>8. \A id : id \in ToSet(seen.ran) <=> \E i \in 1..Len(calls) : calls[i].id = id /\ ~calls[i].bad
  <2>1. IdsOf(queue) = {}
    BY <1>1 DEF IdsOf
  <2>2. ToSet(seen.ran) = Good(calls, Len(calls))
    BY <1>1, <1>2, <2>1 DEF Taken, Working, Passed
  <2> QED BY <2>2 DEF Good
<1>9. \A id \in failed : \E i \in 1..Len(calls) : calls[i].id = id /\ ~calls[i].bad
  BY <1>1, <1>2 DEF Fates, Working
<1>10. ASSUME NEW k \in 1..Len(kept), kept[k].bad PROVE kept[k].id \notin ToSet(seen.ran)
  <2>1. PICK i \in 1..Len(calls) : kept[k] = calls[i]
    BY <1>3
  <2>2. \A m \in 1..Len(calls) : calls[m].id = calls[i].id => m = i
    BY <1>2 DEF Apart
  <2> QED BY <1>8, <1>10, <2>1, <2>2
<1> DEFINE due == {i \in DOMAIN kept : ~kept[i].bad}
<1>11. ASSUME NEW id
       PROVE  id \in ToSet(seen.ran) <=> id \in {kept[i].id : i \in due} \cup failed
  <2>1. ASSUME id \in ToSet(seen.ran) PROVE id \in {kept[i].id : i \in due} \cup failed
    <3>1. PICK i \in 1..Len(calls) : calls[i].id = id /\ ~calls[i].bad
      BY <1>8, <2>1
    <3>2. CASE id \notin failed
      <4>1. PICK k \in 1..Len(kept) : kept[k] = calls[i]
        BY <1>3, <3>1, <3>2
      <4> QED BY <1>5, <3>1, <4>1
    <3> QED BY <3>2
  <2>2. ASSUME NEW k \in due, id = kept[k].id PROVE id \in ToSet(seen.ran)
    <3>1. PICK i \in 1..Len(calls) : kept[k] = calls[i]
      BY <1>3, <1>5
    <3> QED BY <1>8, <2>2, <3>1
  <2> QED BY <1>8, <1>9, <2>1, <2>2
<1>12. ASSUME NEW i \in due, NEW j \in due, i < j
       PROVE  \E m, n \in DOMAIN seen.ran :
                 m < n /\ seen.ran[m] = kept[i].id /\ seen.ran[n] = kept[j].id
  <2>1. PICK a, b \in 1..Len(calls) : a < b /\ kept[i] = calls[a] /\ kept[j] = calls[b]
    BY <1>3, <1>5, <1>12
  <2>2. ~calls[a].bad /\ ~calls[b].bad
    BY <2>1
  <2>3. calls[a].id \in ToSet(seen.ran) /\ calls[b].id \in ToSet(seen.ran)
    BY <1>8, <2>2
  <2>4. PICK m, n \in 1..Len(seen.ran) :
          m < n /\ seen.ran[m] = calls[a].id /\ seen.ran[n] = calls[b].id
    BY <1>7, <2>1, <2>3
  <2> QED BY <1>5, <2>1, <2>4
<1>13. ToSet(seen.ran) = {kept[i].id : i \in due} \cup failed
  BY <1>11
<1> QED BY <1>1, <1>4, <1>5, <1>7, <1>10, <1>12, <1>13 DEF RunInOrder

\* Nothing runs between rounds.
LEMMA EndedStep ==
    ASSUME TypeInv, Ordered, Taken, Fates, Ended, [Next]_vars
    PROVE  Ended'
<1>1. CASE Finish
  BY <1>1, FinishInOrder DEF Ended
<1>2. CASE Retry \/ Followup \/ End
  <2>1. pc = "decided" /\ pc' # "decided" /\ seen' = seen /\ calls' = calls
    BY <1>2 DEF Retry, Followup, End
  <2> QED BY <2>1 DEF Ended, RunInOrder, Working
<1>3. CASE UNCHANGED vars
  BY <1>3 DEF vars, Ended, RunInOrder
<1>4. CASE Skip \/ Queue \/ Flush \/ StaySilent \/ StartReply \/ SendSegment
             \/ ReplySent \/ ReplyEmpty \/ SendFails \/ ReplyRaises \/ ReplySkipped
  <2>1. pc' \in Working
    BY <1>4 DEF Skip, Queue, Flush, StaySilent, StartReply, SendSegment, ReplySent, ReplyEmpty,
                SendFails, ReplyRaises, ReplySkipped, ReplyDone, Running, Working
  <2> QED BY <2>1 DEF Ended
<1>5. ASSUME NEW raw \in Batches, Answer(raw) PROVE Ended'
  BY <1>5 DEF Answer, Ended, Working
<1> QED BY <1>1, <1>2, <1>3, <1>4, <1>5 DEF Next, Step

\* Whatever is put off or fails, each call of an answer that was not put off and
\* has its arguments has run once when the decision is made, in the order the
\* model made them in, and one that misses an argument has not run.
THEOREM RunsInOrder == Spec => []RunInOrder
<1>1. Init => Ordered /\ Taken /\ Fates /\ Ended
  <2> SUFFICES ASSUME Init PROVE Ordered /\ Taken /\ Fates /\ Ended
    OBVIOUS
  <2>1. pc = "ask" /\ seen.ran = <<>> /\ calls = <<>>
    BY DEF Init, NewSeen
  <2>2. IsInjective(seen.ran) /\ DOMAIN calls = {}
    BY <2>1 DEF IsInjective
  <2> QED BY <2>1, <2>2 DEF Ordered, Taken, Fates, Ended, RunInOrder, Working
<1>2. TypeInv /\ Ordered /\ Taken /\ Fates /\ Ended /\ [Next]_vars
        => Ordered' /\ Taken' /\ Fates' /\ Ended'
  BY OrderedStep, TakenStep, FatesStep, EndedStep
<1>3. TypeInv /\ Ordered /\ Taken /\ Ended => RunInOrder
  BY WorkingInOrder DEF Ended
<1> QED BY <1>1, <1>2, <1>3, Typed, PTL DEF Spec

-----------------------------------------------------------------------------
(* What is owed                                                            *)

\* The calls from k on that will be run.
Ahead(cs, k) == {cs[i].id : i \in {i \in k..Len(cs) : ~cs[i].bad}}

\* The calls of the round that have no result yet.
Owing == failed \cup IdsOf(queue) \cup Ahead(calls, at)

\* They are the round's calls.
LEMMA OwingFacts ==
    ASSUME TypeInv, Fates, pc \in Working
    PROVE  Owing \in SUBSET IdsOf(calls) /\ IdsOf(calls) \in SUBSET CallIds
<1>1. /\ calls \in Seq(CallSet) /\ queue \in Seq(CallSet) /\ at \in Nat \ {0}
      /\ at - 1 \in 0..Len(calls)
  BY DEF TypeInv, Calling
<1>2. IdsOf(calls) \in SUBSET CallIds /\ IdsOf(calls) = {calls[i].id : i \in 1..Len(calls)}
  BY <1>1, IdsOfFacts
<1>3. IdsOf(queue) = {queue[i].id : i \in 1..Len(queue)}
  BY <1>1, IdsOfFacts
<1>4. ASSUME NEW id \in failed PROVE id \in IdsOf(calls)
  <2>1. PICK i \in 1..(at - 1) : calls[i].id = id
    BY <1>4 DEF Fates
  <2>2. i \in 1..Len(calls)
    BY <1>1
  <2> QED BY <1>2, <2>1, <2>2
<1>5. ASSUME NEW id \in IdsOf(queue) PROVE id \in IdsOf(calls)
  <2>1. PICK k \in 1..Len(queue) : id = queue[k].id
    BY <1>3, <1>5
  <2>2. PICK i \in 1..(at - 1) : queue[k] = calls[i]
    BY DEF Fates
  <2>3. i \in 1..Len(calls)
    BY <1>1
  <2> QED BY <1>2, <2>1, <2>2, <2>3
<1>6. ASSUME NEW id \in Ahead(calls, at) PROVE id \in IdsOf(calls)
  <2>1. PICK i \in at..Len(calls) : id = calls[i].id
    BY <1>6 DEF Ahead
  <2>2. i \in 1..Len(calls)
    BY <1>1
  <2> QED BY <1>2, <2>1, <2>2
<1> QED BY <1>2, <1>4, <1>5, <1>6 DEF Owing

\* The call the parser is at is one of them if it can be run, and only it is.
LEMMA AheadStep ==
    ASSUME TypeInv, at <= Len(calls)
    PROVE  /\ Ahead(calls, at) = Ahead(calls, at + 1) \cup (IF Here.bad THEN {} ELSE {Here.id})
           /\ Here.id \notin Ahead(calls, at + 1)
<1>1. /\ calls \in Seq(CallSet) /\ Apart(calls) /\ at \in 1..Len(calls) /\ at \in Nat /\ Len(calls) \in Nat
      /\ Here = calls[at]
  BY HereFacts DEF TypeInv, Calling, Here
<1>2. \A i : i \in at..Len(calls) <=> i = at \/ i \in (at + 1)..Len(calls)
  BY <1>1
<1>3. \A i \in (at + 1)..Len(calls) : i \in 1..Len(calls) /\ i # at
  BY <1>1
<1>4. \A i \in (at + 1)..Len(calls) : calls[i].id # calls[at].id
  BY <1>1, <1>3 DEF Apart
<1>5. Here.id \notin Ahead(calls, at + 1)
  BY <1>1, <1>4 DEF Ahead
<1>6. Ahead(calls, at) = Ahead(calls, at + 1) \cup (IF Here.bad THEN {} ELSE {Here.id})
  <2>1. ASSUME NEW id PROVE id \in Ahead(calls, at) <=> \E i \in at..Len(calls) : ~calls[i].bad /\ id = calls[i].id
    BY DEF Ahead
  <2>2. ASSUME NEW id
        PROVE  id \in Ahead(calls, at + 1) <=>
                  \E i \in (at + 1)..Len(calls) : ~calls[i].bad /\ id = calls[i].id
    BY DEF Ahead
  <2>3. ASSUME NEW id
        PROVE  id \in Ahead(calls, at) <=>
                  id \in Ahead(calls, at + 1) \/ (~Here.bad /\ id = Here.id)
    BY <1>1, <1>2, <2>1, <2>2
  <2> QED BY <2>3
<1> QED BY <1>5, <1>6

\* No call is owed twice.
LEMMA OwedOnce ==
    ASSUME TypeInv, Fates, pc \in Working
    PROVE  /\ IdsOf(queue) \cap (failed \cup Ahead(calls, at)) = {}
           /\ at <= Len(calls) => Here.id \notin failed \cup IdsOf(queue)
<1>1. /\ calls \in Seq(CallSet) /\ Apart(calls) /\ queue \in Seq(CallSet) /\ at \in Nat \ {0}
      /\ at - 1 \in 0..Len(calls)
  BY DEF TypeInv, Calling
<1>2. IdsOf(queue) = {queue[i].id : i \in 1..Len(queue)}
  BY <1>1, IdsOfFacts
<1>3. \A i \in 1..(at - 1), j \in at..Len(calls) : calls[i].id # calls[j].id
  <2>1. \A i \in 1..(at - 1), j \in at..Len(calls) : i \in 1..Len(calls) /\ j \in 1..Len(calls) /\ i # j
    BY <1>1
  <2> QED BY <1>1, <2>1 DEF Apart
<1>4. ASSUME NEW id \in IdsOf(queue) PROVE id \notin failed /\ id \notin Ahead(calls, at)
  <2>1. PICK k \in 1..Len(queue) : id = queue[k].id
    BY <1>2, <1>4
  <2>2. queue[k].id \notin failed /\ \E i \in 1..(at - 1) : queue[k] = calls[i]
    BY DEF Fates
  <2> QED BY <1>3, <2>1, <2>2 DEF Ahead
<1>5. ASSUME at <= Len(calls) PROVE Here.id \notin failed \cup IdsOf(queue)
  <2>1. at \in at..Len(calls) /\ Here = calls[at]
    BY <1>1, <1>5 DEF Here
  <2>2. Here.id \notin failed
    BY <1>3, <2>1 DEF Fates
  <2>3. ASSUME NEW k \in 1..Len(queue) PROVE Here.id # queue[k].id
    <3>1. PICK i \in 1..(at - 1) : queue[k] = calls[i]
      BY DEF Fates
    <3> QED BY <1>3, <2>1, <3>1
  <2> QED BY <1>2, <2>2, <2>3
<1> QED BY <1>4, <1>5

\* In the middle of a round: the answer's payload is at n and after it come only
\* the results of its calls, all but those that are due; before it are the turns
\* that were there.
Begun(c, due, ids, turns, n) ==
    /\ n \in 1..Len(c) /\ Sound([out |-> c, pending |-> due, at |-> n])
    /\ c[n] = Assistant({}, ids)
    /\ \A k \in (n + 1)..Len(c) : c[k].role = "result"
    /\ Groups(SubSeq(c, 1, n - 1)) = turns

\* Results of what is due come next.
LEMMA BegunAnswers ==
    ASSUME NEW W, NEW c \in Chains(W), NEW due \in SUBSET CallIds, NEW ids, NEW turns, NEW n,
           Begun(c, due, ids, turns, n), NEW gone \in SUBSET due, IsFiniteSet(gone)
    PROVE  Begun(c \o Answers(gone), due \ gone, ids, turns, n)
<1> DEFINE t == Answers(gone)
           d == c \o t
<1>1. n \in 1..Len(c) /\ c \in Seq(Lines(W)) /\ Len(c) \in Nat
  BY ChainFacts DEF Begun
<1>2. t \in Chains(W) /\ \A i \in 1..Len(t) : t[i].role = "result"
  BY AnswersFacts
<1>3. Sound([out |-> d, pending |-> due \ gone, at |-> n])
  <2> DEFINE a == [out |-> c, pending |-> due, at |-> n]
  <2>1. a \in Passes(W)
    BY <1>1 DEF Passes
  <2>2. Sound(a) /\ a.out = c /\ a.pending = due /\ a.at = n
    BY DEF Begun
  <2> HIDE DEF a, t
  <2>3. gone \in SUBSET a.pending
    BY <2>2
  <2>4. Sound([out |-> a.out \o Answers(gone), pending |-> a.pending \ gone, at |-> a.at])
    BY <2>1, <2>2, <2>3, AnswersSound
  <2> QED BY <2>2, <2>4 DEF t
<1> HIDE DEF t
<1>4. /\ Len(d) = Len(c) + Len(t) /\ Len(t) \in Nat /\ d \in Chains(W)
      /\ \A i \in 1..(Len(c) + Len(t)) : d[i] = IF i <= Len(c) THEN c[i] ELSE t[i - Len(c)]
  BY <1>2, JoinFacts, PartFacts
<1> HIDE DEF d
<1>5. n \in 1..Len(d) /\ d[n] = c[n]
  BY <1>1, <1>4
<1>6. ASSUME NEW k \in (n + 1)..Len(d) PROVE d[k].role = "result"
  <2>1. CASE k <= Len(c)
    <3>1. k \in (n + 1)..Len(c) /\ d[k] = c[k]
      BY <1>1, <1>4, <2>1
    <3> QED BY <3>1 DEF Begun
  <2>2. CASE k > Len(c)
    <3>1. k - Len(c) \in 1..Len(t) /\ d[k] = t[k - Len(c)]
      BY <1>1, <1>4, <2>2
    <3> QED BY <1>2, <3>1
  <2> QED BY <1>1, <1>4, <2>1, <2>2
<1>7. SubSeq(d, 1, n - 1) = SubSeq(c, 1, n - 1)
  <2>1. \A k \in 1..(n - 1) : d[k] = c[k]
    BY <1>1, <1>4
  <2>2. n - 1 \in 0..Len(d) /\ n - 1 <= Len(c) /\ d \in Seq(Lines(W))
    BY <1>1, <1>4 DEF Chains
  <2> QED BY <1>1, <2>1, <2>2, PrefixSame
<1> QED BY <1>3, <1>5, <1>6, <1>7 DEF Begun, d, t

\* In every round whose answer is still in the chain.
RoundInv ==
    pc \in Working /\ own =>
        \E n \in Nat : Begun(chain, Owing, IdsOf(calls), seen.turns, n)

\* The answer begins one.
LEMMA AnswerBegins ==
    ASSUME TypeInv, ChainInv, pc = "ask", NEW raw \in Batches, Answer(raw), own', TypeInv'
    PROVE  \E n \in Nat : Begun(chain', Owing', IdsOf(calls'), seen'.turns, n)
<1>1. PICK y \in Chains(Texts) :
             /\ Ready(y, {}) /\ Groups(y) = Turns(chain)
             /\ chain' = Made(y, IdsOf(calls'), Answers(Incomplete(calls')))
             /\ Incomplete(calls') \in SUBSET IdsOf(calls') /\ IdsOf(calls') \in SUBSET CallIds
  BY AnswerOwn
<1> DEFINE ids  == IdsOf(calls')
           miss == Incomplete(calls')
           p    == Assistant({}, ids)
           c    == Append(y, p)
           n    == Len(y) + 1
           b    == [out |-> y, pending |-> {}, at |-> 0]
<1>2. p \in Lines(Texts) /\ p.role = "assistant" /\ p.calls = ids /\ Ids(p) = ids
  <2>1. NoId \notin ids
    BY <1>1, PayloadsAssumption
  <2>2. p \in Lines(Texts)
    BY <1>1, MadeFacts
  <2> HIDE DEF ids
  <2> QED BY <2>1, <2>2 DEF Ids, Assistant, Payload
<1>3. Sound([out |-> c, pending |-> ids, at |-> n])
  <2>1. b \in Passes(Texts) /\ b.pending = {} /\ b.out = y
    <3>1. y \in Chains(Texts) /\ {} \in SUBSET CallIds /\ 0 \in Nat
      OBVIOUS
    <3> QED BY <3>1 DEF Passes
  <2>2. Sound(b)
    BY <1>1 DEF Ready, Settled, Sound
  <2>3. LastRole(b.out) \in {"user", "result"}
    BY <1>1, <2>1 DEF Ready
  <2>4. Open(b, p) = [out |-> c, pending |-> ids, at |-> n]
    BY <1>2, <2>1 DEF Open
  <2> HIDE DEF b, p
  <2> QED BY <1>2, <2>1, <2>2, <2>3, <2>4, OpenSound
<1>4. /\ c \in Chains(Texts) /\ Len(y) \in Nat /\ Len(c) = n /\ c[n] = p
      /\ \A k \in 1..Len(y) : c[k] = y[k]
  <2> HIDE DEF p
  <2> QED BY <1>2, ChainFacts, AppendProperties DEF Chains
<1>5. Groups(SubSeq(c, 1, n - 1)) = Groups(y)
  <2>1. y \in Seq(Lines(Texts)) /\ c \in Seq(Lines(Texts))
    BY <1>4 DEF Chains
  <2> HIDE DEF c
  <2>2. /\ Len(y) \in 0..Len(c) /\ Len(y) <= Len(y) /\ Len(y) \in 0..Len(y) /\ n - 1 = Len(y)
        /\ \A k \in 1..Len(y) : c[k] = y[k]
    BY <1>4
  <2>3. SubSeq(c, 1, Len(y)) = SubSeq(y, 1, Len(y))
    BY <2>1, <2>2, PrefixSame
  <2>4. SubSeq(y, 1, Len(y)) = y
    BY <2>1
  <2> QED BY <2>2, <2>3, <2>4
<1>6. Begun(c, ids, ids, Groups(y), n)
  <2> HIDE DEF c, ids
  <2>1. n \in 1..Len(c) /\ (n + 1)..Len(c) = {}
    BY <1>4
  <2> QED BY <1>3, <1>4, <1>5, <2>1 DEF Begun
<1>7. Begun(c \o Answers(miss), ids \ miss, ids, Groups(y), n)
  <2>1. IsFiniteSet(miss)
    BY <1>1, ExecutionAssumption, FS_Subset
  <2>2. ids \in SUBSET CallIds /\ miss \in SUBSET ids
    BY <1>1
  <2> HIDE DEF c, ids, miss
  <2> QED BY <1>4, <1>6, <2>1, <2>2, BegunAnswers
<1>8. chain' = c \o Answers(miss)
  BY <1>1 DEF Made
<1>9. seen'.turns = Groups(y)
  BY <1>1 DEF Answer, NewSeen
<1>10. Owing' = ids \ miss
  <2>1. queue' = <<>> /\ failed' = {} /\ at' = 1
    BY DEF Answer
  <2>2. calls' \in Seq(CallSet) /\ Apart(calls')
    BY DEF TypeInv, Calling
  <2>3. ids = {calls'[i].id : i \in 1..Len(calls')} /\ DOMAIN calls' = 1..Len(calls')
    BY <2>2, IdsOfFacts
  <2>4. IdsOf(queue') = {}
    BY <2>1 DEF IdsOf
  <2>5. Ahead(calls', 1) = ids \ miss
    <3>1. ASSUME NEW i \in 1..Len(calls'), ~calls'[i].bad PROVE calls'[i].id \notin miss
      <4>1. ASSUME calls'[i].id \in miss PROVE FALSE
        <5>1. PICK j \in 1..Len(calls') : calls'[j].bad /\ calls'[j].id = calls'[i].id
          BY <2>3, <4>1 DEF Incomplete
        <5>2. j = i
          BY <2>2, <5>1 DEF Apart
        <5> QED BY <3>1, <5>1, <5>2
      <4> QED BY <4>1
    <3>2. ASSUME NEW i \in 1..Len(calls'), calls'[i].bad PROVE calls'[i].id \in miss
      BY <2>3, <3>2 DEF Incomplete
    <3>3. ASSUME NEW id
          PROVE  id \in Ahead(calls', 1) <=> \E i \in 1..Len(calls') : ~calls'[i].bad /\ id = calls'[i].id
      BY DEF Ahead
    <3>4. ASSUME NEW id PROVE id \in ids <=> \E i \in 1..Len(calls') : id = calls'[i].id
      BY <2>3
    <3> HIDE DEF ids, miss
    <3>5. ASSUME NEW id PROVE id \in Ahead(calls', 1) <=> id \in ids \ miss
      BY <3>1, <3>2, <3>3, <3>4
    <3> QED BY <3>5
  <2> QED BY <2>1, <2>4, <2>5 DEF Owing
<1>11. n \in Nat
  BY <1>4
<1> HIDE DEF c, n, miss
<1> QED BY <1>7, <1>8, <1>9, <1>10, <1>11

\* Each step keeps it.
LEMMA RoundStep ==
    ASSUME TypeInv, ChainInv, Fates, RoundInv, [Next]_vars, TypeInv'
    PROVE  RoundInv'
<1>1. /\ calls \in Seq(CallSet) /\ queue \in Seq(CallSet) /\ chain \in Chains(Texts)
      /\ seen = [got |-> seen.got, ran |-> seen.ran, broken |-> seen.broken, turns |-> seen.turns]
  BY DEF TypeInv, Calling, Noted, ChainInv
<1> DEFINE Same == /\ pc \in Working /\ calls' = calls /\ own' = own
                   /\ seen'.turns = seen.turns
<1>2. ASSUME Same, chain' = chain, Owing' = Owing PROVE RoundInv'
  BY <1>2 DEF RoundInv
<1>3. ASSUME Same, NEW gone \in SUBSET Owing, chain' = chain \o Answers(gone), Owing' = Owing \ gone
      PROVE  RoundInv'
  <2>1. Owing \in SUBSET CallIds
    BY <1>3, OwingFacts
  <2>2. IsFiniteSet(gone)
    BY <2>1, ExecutionAssumption, FS_Subset
  <2>3. ASSUME own'
        PROVE  \E n \in Nat : Begun(chain \o Answers(gone), Owing \ gone, IdsOf(calls), seen.turns, n)
    <3>1. PICK n \in Nat : Begun(chain, Owing, IdsOf(calls), seen.turns, n)
      BY <1>3, <2>3 DEF RoundInv
    <3> QED BY <1>1, <2>1, <2>2, <3>1, BegunAnswers
  <2>4. IdsOf(calls)' = IdsOf(calls)
    BY <1>3
  <2> QED BY <1>3, <2>3, <2>4 DEF RoundInv
<1>4. CASE StartReply \/ SendSegment
  <2>1. Same /\ chain' = chain /\ failed' = failed /\ queue' = queue /\ at' = at
    BY <1>1, <1>4 DEF StartReply, SendSegment, Running, Working
  <2> QED BY <1>2, <2>1 DEF Owing
<1>5. CASE Skip
  <2>1. /\ Same /\ chain' = chain /\ failed' = failed /\ queue' = queue /\ at' = at + 1
        /\ at <= Len(calls) /\ Here.bad
    BY <1>5 DEF Skip, Running, Working
  <2>2. Ahead(calls, at) = Ahead(calls, at + 1)
    BY <2>1, AheadStep
  <2>3. Owing' = Owing
    BY <2>1, <2>2 DEF Owing
  <2> QED BY <1>2, <2>1, <2>3
<1>6. CASE Queue
  <2>1. /\ Same /\ chain' = chain /\ failed' = failed /\ queue' = Append(queue, Here) /\ at' = at + 1
        /\ at <= Len(calls) /\ ~Here.bad
    BY <1>6 DEF Queue, Running, Working
  <2>2. Ahead(calls, at) = Ahead(calls, at + 1) \cup {Here.id} /\ Here \in CallSet
    BY <2>1, AheadStep, HereFacts
  <2>3. IdsOf(Append(queue, Here)) = IdsOf(queue) \cup {Here.id}
    <3>1. /\ Len(Append(queue, Here)) = Len(queue) + 1 /\ Append(queue, Here)[Len(queue) + 1] = Here
          /\ \A k \in 1..Len(queue) : Append(queue, Here)[k] = queue[k]
          /\ Append(queue, Here) \in Seq(CallSet) /\ Len(queue) \in Nat
      <4> HIDE DEF Here
      <4> QED BY <1>1, <2>2
    <3> DEFINE q == Append(queue, Here)
    <3>2. IdsOf(q) = {q[i].id : i \in 1..Len(q)} /\ IdsOf(queue) = {queue[i].id : i \in 1..Len(queue)}
      BY <1>1, <3>1, IdsOfFacts
    <3> HIDE DEF q, Here
    <3>3. \A i : i \in 1..Len(q) <=> i \in 1..Len(queue) \/ i = Len(queue) + 1
      BY <3>1 DEF q
    <3>4. q[Len(queue) + 1] = Here /\ \A k \in 1..Len(queue) : q[k] = queue[k]
      BY <3>1 DEF q
    <3>5. ASSUME NEW id PROVE id \in IdsOf(q) <=> id \in IdsOf(queue) \/ id = Here.id
      <4>1. id \in IdsOf(q) <=> \E i \in 1..Len(q) : id = q[i].id
        BY <3>2
      <4>2. id \in IdsOf(queue) <=> \E i \in 1..Len(queue) : id = queue[i].id
        BY <3>2
      <4> QED BY <3>3, <3>4, <4>1, <4>2
    <3> QED BY <3>5 DEF q
  <2>4. Owing' = Owing
    <3>1. Owing' = failed \cup IdsOf(Append(queue, Here)) \cup Ahead(calls, at + 1)
      BY <2>1 DEF Owing
    <3> QED BY <2>2, <2>3, <3>1 DEF Owing
  <2> QED BY <1>2, <2>1, <2>4
<1>7. CASE StaySilent \/ ReplySent \/ ReplyEmpty \/ SendFails \/ ReplyRaises \/ ReplySkipped
  <2>1. /\ Same /\ queue' = queue /\ at' = at + 1
        /\ \/ chain' = Append(chain, Result({Here.id})) /\ failed' = failed
           \/ chain' = chain /\ failed' = failed \cup {Here.id}
    BY <1>1, <1>7 DEF StaySilent, ReplySent, ReplyEmpty, SendFails, ReplyRaises, ReplySkipped, WithResult,
                      ReplyDone, Running, Working
  <2>2. at <= Len(calls) /\ Speaks(Here)
    <3>1. CASE StaySilent
      BY <3>1 DEF StaySilent, Running, Speaks
    <3>2. CASE ReplySent \/ ReplyEmpty \/ SendFails \/ ReplyRaises \/ ReplySkipped
      <4>1. pc = "send"
        BY <3>2 DEF ReplySent, ReplyEmpty, SendFails, ReplyRaises, ReplySkipped
      <4> QED BY <4>1 DEF TypeInv, Calling, Speaks
    <3> QED BY <1>7, <3>1, <3>2
  <2>3. ~Here.bad /\ Here.id \in CallIds
    BY <2>2, HereFacts DEF CallSet
  <2>4. Ahead(calls, at) = Ahead(calls, at + 1) \cup {Here.id} /\ Here.id \notin Ahead(calls, at + 1)
    BY <2>2, <2>3, AheadStep
  <2>5. Here.id \notin failed \cup IdsOf(queue)
    BY <2>1, <2>2, OwedOnce
  <2> DEFINE id == Here.id
  <2>6. Owing' = failed' \cup IdsOf(queue) \cup Ahead(calls, at + 1)
    BY <2>1 DEF Owing
  <2>7. Owing = failed \cup IdsOf(queue) \cup Ahead(calls, at)
    BY DEF Owing
  <2> HIDE DEF id
  <2>8. CASE chain' = chain /\ failed' = failed \cup {Here.id}
    <3>1. Owing' = Owing
      BY <2>4, <2>6, <2>7, <2>8
    <3> QED BY <1>2, <2>1, <2>8, <3>1
  <2>9. CASE chain' = Append(chain, Result({Here.id})) /\ failed' = failed
    <3>1. Owing' = Owing \ {Here.id} /\ {Here.id} \in SUBSET Owing
      BY <2>4, <2>5, <2>6, <2>7, <2>9
    <3>2. chain' = chain \o Answers({Here.id})
      BY <1>1, <2>3, <2>9, AnswerOne
    <3> QED BY <1>3, <2>1, <3>1, <3>2
  <2> QED BY <2>1, <2>8, <2>9
<1>8. CASE Flush
  <2>1. Same /\ queue' = <<>> /\ at' = at
    BY <1>1, <1>8 DEF Flush, Working
  <2>2. PICK none \in SUBSET IdsOf(queue) :
               chain' = chain \o Answers(IdsOf(queue) \ none) /\ failed' = failed \cup none
    BY <1>8 DEF Flush
  <2> DEFINE gone == IdsOf(queue) \ none
  <2>3. IdsOf(queue) \cap (failed \cup Ahead(calls, at)) = {}
    BY <2>1, OwedOnce
  <2>4. IdsOf(queue') = {}
    BY <2>1 DEF IdsOf
  <2>5. Owing' = failed \cup none \cup Ahead(calls, at)
    BY <2>1, <2>2, <2>4 DEF Owing
  <2>6. Owing' = Owing \ gone /\ gone \in SUBSET Owing
    BY <2>2, <2>3, <2>5 DEF Owing
  <2>7. chain' = chain \o Answers(gone)
    BY <2>2
  <2> HIDE DEF gone
  <2> QED BY <1>3, <2>1, <2>6, <2>7
<1>9. CASE Finish \/ Retry \/ Followup \/ End
  BY <1>9 DEF Finish, Retry, Followup, End, RoundInv, Working
<1>10. ASSUME pc = "ask", NEW raw \in Batches, Answer(raw) PROVE RoundInv'
  BY <1>10, AnswerBegins DEF RoundInv
<1>11. CASE UNCHANGED vars
  <2>1. Owing' = Owing /\ IdsOf(calls)' = IdsOf(calls)
    BY <1>11 DEF vars, Owing
  <2> QED BY <1>11, <2>1 DEF vars, RoundInv
<1> QED BY <1>4, <1>5, <1>6, <1>7, <1>8, <1>9, <1>10, <1>11 DEF Next, Step

-----------------------------------------------------------------------------
(* A round leaves a chain that can be sent                                 *)

\* The ids of the calls that are left.
LEMMA KeptIds ==
    ASSUME NEW cs \in Seq(CallSet), Apart(cs), Complete(cs), NEW gone
    PROVE  Kept(cs, gone) \in Seq(CallSet) /\ IdsOf(Kept(cs, gone)) = IdsOf(cs) \ gone
<1> DEFINE k == Kept(cs, gone)
<1>1. /\ k \in Seq(CallSet)
      /\ \A j \in 1..Len(k) : \E i \in 1..Len(cs) : k[j] = cs[i] /\ cs[i].id \notin gone
      /\ \A i \in 1..Len(cs) : cs[i].id \notin gone => \E j \in 1..Len(k) : k[j] = cs[i]
  BY KeptFacts
<1>2. IdsOf(cs) = {cs[i].id : i \in 1..Len(cs)}
  BY IdsOfFacts
<1> HIDE DEF k
<1>3. IdsOf(k) = {k[i].id : i \in 1..Len(k)}
  BY <1>1, IdsOfFacts
<1>4. ASSUME NEW id PROVE id \in IdsOf(k) <=> id \in IdsOf(cs) \ gone
  <2>1. id \in IdsOf(k) <=> \E j \in 1..Len(k) : id = k[j].id
    BY <1>3
  <2>2. id \in IdsOf(cs) <=> \E i \in 1..Len(cs) : id = cs[i].id
    BY <1>2
  <2> QED BY <1>1, <2>1, <2>2
<1>5. IdsOf(k) = IdsOf(cs) \ gone
  BY <1>4
<1> QED BY <1>1, <1>5 DEF k

\* What the decision leaves of the round's payload: the calls that were answered,
\* if any, and nothing else has changed.
LEMMA FinishLeaves ==
    ASSUME NEW W, NEW c \in Chains(W), NEW n \in 1..Len(c), NEW ids \in SUBSET CallIds,
           c[n] = Assistant({}, ids), \A k \in (n + 1)..Len(c) : c[k].role = "result",
           NEW gone \in SUBSET ids, NEW kept \in Seq(CallSet), IdsOf(kept) = ids \ gone,
           NEW d \in Synced(RemoveCalls(c, gone), kept, TRUE)
    PROVE  d = DropPending([out |-> c, pending |-> gone, at |-> n]).out
<1> DEFINE left == Assistant({}, ids \ gone)
           drop == DropPending([out |-> c, pending |-> gone, at |-> n]).out
<1>1. c \in Seq(Lines(W)) /\ Len(c) \in Nat /\ DOMAIN c = 1..Len(c)
  BY ChainFacts
<1>2. \A k \in (n + 1)..Len(c) : c[k].role # "assistant"
  OBVIOUS
<1>3. left \in Lines(W)
  BY MadeFacts
<1>4. c[n].role = "assistant" /\ c[n].calls = ids /\ c[n].text = {} /\ c[n].results = {}
  BY DEF Assistant, Payload
<1>5. IdsOf(kept) = {} <=> kept = <<>>
  BY IdsOfFacts
<1>6. CASE gone = {}
  <2>1. RemoveCalls(c, gone) = c
    BY <1>6 DEF RemoveCalls
  <2>2. drop = c
    BY <1>6 DEF DropPending
  <2>3. CASE kept = <<>>
    BY <2>1, <2>2, <2>3 DEF Synced
  <2>4. CASE kept # <<>>
    <3>1. ids # {} /\ IdsOf(kept) = ids
      BY <1>5, <1>6, <2>4
    <3>2. Synced(c, kept, TRUE) = {[c EXCEPT ![n] = Assistant({}, IdsOf(kept))]}
      BY <1>1, <1>2, <2>4, <3>1, SyncedLast
    <3>3. [c EXCEPT ![n] = Assistant({}, ids)] = c
      <4> DEFINE p == Assistant({}, ids)
      <4>1. p = c[n]
        OBVIOUS
      <4> HIDE DEF p
      <4> QED BY <1>1, <4>1
    <3> QED BY <2>1, <2>2, <3>1, <3>2, <3>3
  <2> QED BY <2>3, <2>4
<1>7. CASE gone # {}
  <2>1. c[n].calls \cap gone # {} /\ left = Payload("assistant", c[n].text, c[n].calls \ gone, c[n].results)
    BY <1>4, <1>7 DEF Assistant
  <2>2. left.text = {} /\ left.calls = ids \ gone
    BY DEF Assistant, Payload
  <2>3. RemoveCalls(c, gone) = IF left.text = {} /\ left.calls = {} THEN RemoveAt(c, n)
                               ELSE ReplaceAt(c, n, left)
    <3> HIDE DEF left
    <3> QED BY <1>2, <1>4, <2>1, RemoveLast
  <2>4. drop = IF left.text = {} /\ left.calls = {} THEN RemoveAt(c, n) ELSE ReplaceAt(c, n, left)
    <3>1. [c[n] EXCEPT !.calls = @ \ gone] = left
      <4> DEFINE p == Assistant({}, ids)
      <4>1. [p EXCEPT !.calls = ids \ gone] = left
        BY CallsPut
      <4>2. c[n] = p /\ p.calls = ids
        BY <1>4
      <4> HIDE DEF p, left
      <4> QED BY <4>1, <4>2
    <3> HIDE DEF left
    <3> QED BY <1>7, <3>1 DEF DropPending
  <2>5. CASE kept = <<>>
    <3>1. Synced(RemoveCalls(c, gone), kept, TRUE) = {RemoveCalls(c, gone)}
      BY <2>5 DEF Synced
    <3> QED BY <2>3, <2>4, <3>1
  <2>6. CASE kept # <<>>
    <3>1. ids \ gone # {}
      BY <1>5, <2>6
    <3> DEFINE r == ReplaceAt(c, n, left)
    <3>2. RemoveCalls(c, gone) = r /\ drop = r
      BY <2>2, <2>3, <2>4, <3>1
    <3>3. /\ r \in Seq(Lines(W)) /\ Len(r) = Len(c) /\ r[n] = left
          /\ \A k \in 1..Len(c) : k # n => r[k] = c[k]
      <4> HIDE DEF left
      <4> QED BY <1>1, <1>3, ExceptSeq DEF ReplaceAt
    <3> HIDE DEF r
    <3>4. \A k \in (n + 1)..Len(r) : r[k].role # "assistant"
      <4>1. \A k \in (n + 1)..Len(r) : k \in 1..Len(c) /\ k # n /\ k \in (n + 1)..Len(c)
        BY <1>1, <3>3
      <4> QED BY <1>2, <3>3, <4>1
    <3>5. n \in 1..Len(r) /\ r[n] = Assistant({}, ids \ gone)
      BY <3>3
    <3>6. Synced(r, kept, TRUE) = {[r EXCEPT ![n] = Assistant({}, IdsOf(kept))]}
      BY <2>6, <3>1, <3>3, <3>4, <3>5, SyncedLast
    <3>7. [r EXCEPT ![n] = Assistant({}, IdsOf(kept))] = r
      <4>1. Assistant({}, IdsOf(kept)) = r[n]
        BY <3>5
      <4> DEFINE p == Assistant({}, IdsOf(kept))
      <4>2. p = r[n]
        BY <4>1
      <4> HIDE DEF p
      <4> QED BY <3>3, <4>2
    <3> QED BY <3>2, <3>6, <3>7
  <2> QED BY <2>5, <2>6
<1> QED BY <1>6, <1>7

\* When the decision was made and the answer's payload is still there.
Whole ==
    pc = "decided" /\ own => Settled(chain) /\ IsPrefix(seen.turns, Groups(chain))

\* The end of a round settles the chain and leaves the turns before it.
LEMMA FinishSettles ==
    ASSUME TypeInv, ChainInv, Fates, RoundInv, Finish, own
    PROVE  Settled(chain') /\ IsPrefix(seen.turns, Groups(chain'))
<1> DEFINE ids  == IdsOf(calls)
           kept == Kept(calls, failed)
<1>1. /\ calls \in Seq(CallSet) /\ Apart(calls) /\ Complete(calls) /\ at \in Nat \ {0}
      /\ chain \in Chains(Texts) /\ Len(calls) \in Nat
  BY DEF TypeInv, Calling, ChainInv
<1>2. pc = "run" /\ at > Len(calls) /\ queue = <<>> /\ pc \in Working
  BY DEF Finish, Working
<1>3. Owing = failed
  <2>1. at..Len(calls) = {}
    BY <1>1, <1>2
  <2>2. Ahead(calls, at) = {} /\ IdsOf(queue) = {}
    BY <1>2, <2>1 DEF Ahead, IdsOf
  <2> QED BY <2>2 DEF Owing
<1>4. failed \in SUBSET ids /\ ids \in SUBSET CallIds
  BY <1>2, <1>3, OwingFacts
<1>5. PICK n \in Nat : Begun(chain, failed, ids, seen.turns, n)
  BY <1>2, <1>3 DEF RoundInv
<1> DEFINE a == [out |-> chain, pending |-> failed, at |-> n]
           d == DropPending(a).out
<1>6. /\ n \in 1..Len(chain) /\ Sound(a) /\ chain[n] = Assistant({}, ids)
      /\ \A k \in (n + 1)..Len(chain) : chain[k].role = "result"
      /\ Groups(SubSeq(chain, 1, n - 1)) = seen.turns
  BY <1>5 DEF Begun
<1>7. chain' \in Synced(RemoveCalls(chain, failed), kept, TRUE)
  BY DEF Finish, Left, Kept
<1>8. kept \in Seq(CallSet) /\ IdsOf(kept) = ids \ failed
  BY <1>1, KeptIds
<1>9. chain' = d
  <2> HIDE DEF ids, kept
  <2> QED BY <1>1, <1>4, <1>6, <1>7, <1>8, FinishLeaves
<1>10. a \in Passes(Texts)
  <2>1. failed \in SUBSET CallIds
    BY <1>4
  <2> QED BY <1>1, <1>6, <2>1 DEF Passes
<1>11. d \in Chains(Texts) /\ Settled(d)
  <2> DEFINE b == DropPending(a)
  <2>1. b \in Passes(Texts) /\ b.pending = {} /\ Sound(b)
    <3> HIDE DEF a
    <3> QED BY <1>6, <1>10, DropFacts, DropSound
  <2> HIDE DEF b
  <2>2. b.out \in Chains(Texts)
    BY <2>1 DEF Passes
  <2>3. Follows(b.out) /\ Owned(b.out) /\ Met(b.out, {}, b.at)
    BY <2>1 DEF Sound
  <2>4. Settled(b.out)
    BY <2>3 DEF Settled, Met
  <2> QED BY <2>2, <2>4 DEF b
<1>12. /\ n - 1 \in 0..Len(chain) /\ n - 1 <= Len(d) /\ \A k \in 1..(n - 1) : d[k] = chain[k]
  <2>0. /\ chain \in Seq(Lines(Texts)) /\ Len(chain) \in Nat /\ n \in 1..Len(chain)
        /\ \A k \in 1..(n - 1) : k # n /\ k \in 1..Len(chain)
    <3>1. chain \in Seq(Lines(Texts)) /\ Len(chain) \in Nat
      BY <1>1, ChainFacts
    <3>2. n \in 1..Len(chain)
      BY <1>6
    <3>3. \A k \in 1..(n - 1) : k # n /\ k \in 1..Len(chain)
      BY <3>1, <3>2
    <3> QED BY <3>1, <3>2, <3>3
  <2> DEFINE left == [chain[n] EXCEPT !.calls = @ \ failed]
  <2>1. d = chain \/ d = RemoveAt(chain, n) \/ d = ReplaceAt(chain, n, left)
    BY DEF DropPending
  <2> HIDE DEF left, d
  <2>2. CASE d = chain
    BY <2>0, <2>2
  <2>3. CASE d = RemoveAt(chain, n)
    <3>1. Len(d) = Len(chain) - 1 /\ \A k \in 1..(n - 1) : d[k] = chain[k]
      BY <1>1, <2>0, <2>3, GapFacts
    <3> QED BY <2>0, <3>1
  <2>4. CASE d = ReplaceAt(chain, n, left)
    <3>1. d = [chain EXCEPT ![n] = left]
      BY <2>4 DEF ReplaceAt
    <3>2. Len(d) = Len(chain)
      BY <2>0, <3>1
    <3>3. \A k \in 1..(n - 1) : d[k] = chain[k]
      BY <2>0, <3>1
    <3> QED BY <2>0, <3>2, <3>3
  <2> QED BY <2>1, <2>2, <2>3, <2>4
<1> HIDE DEF d
<1>13. IsPrefix(Groups(SubSeq(chain, 1, n - 1)), Groups(d))
  BY <1>1, <1>11, <1>12, GroupsPrefix
<1> QED BY <1>6, <1>9, <1>11, <1>13

\* Each step keeps it.
LEMMA WholeStep ==
    ASSUME TypeInv, ChainInv, Fates, RoundInv, Whole, [Next]_vars
    PROVE  Whole'
<1>1. CASE Finish
  <2>1. own' = own /\ seen' = seen
    BY <1>1 DEF Finish
  <2> QED BY <1>1, <2>1, FinishSettles DEF Whole
<1>2. CASE \/ Skip \/ Queue \/ Flush \/ StaySilent \/ StartReply \/ SendSegment \/ ReplySent \/ ReplyEmpty
           \/ SendFails \/ ReplyRaises \/ ReplySkipped \/ Retry \/ Followup \/ End
  BY <1>2 DEF Skip, Queue, Flush, StaySilent, StartReply, SendSegment, ReplySent, ReplyEmpty, SendFails,
              ReplyRaises, ReplySkipped, ReplyDone, Retry, Followup, End, Running, Whole
<1>3. ASSUME NEW raw \in Batches, Answer(raw) PROVE Whole'
  BY <1>3 DEF Answer, Whole
<1>4. CASE UNCHANGED vars
  BY <1>4 DEF vars, Whole
<1> QED BY <1>1, <1>2, <1>3, <1>4 DEF Next, Step

\* Whatever was intercepted, put off or failed, in whatever round and for whatever
\* ids the provider made up, a round leaves a chain that can be sent as it is, and
\* the turns before it as they were.
THEOREM RoundsAddTurn == Spec => []RoundAddsTurn
<1> DEFINE Inv == ChainInv /\ Fates /\ RoundInv /\ Whole
<1>1. Init => Inv
  <2> SUFFICES ASSUME Init PROVE Inv
    OBVIOUS
  <2>1. pc = "ask"
    BY DEF Init
  <2> QED BY <2>1, InitChain DEF Fates, RoundInv, Whole, Working
<1>2. TypeInv /\ TypeInv' /\ Inv /\ [Next]_vars => Inv'
  BY ChainStep, FatesStep, RoundStep, WholeStep
<1>3. Inv => RoundAddsTurn
  <2> SUFFICES ASSUME Inv, pc = "decided", own
               PROVE  Sendable(chain) /\ IsPrefix(seen.turns, Turns(chain))
    BY DEF RoundAddsTurn
  <2>1. chain \in Chains(Texts) /\ Settled(chain) /\ IsPrefix(seen.turns, Groups(chain))
    BY DEF ChainInv, Whole
  <2>2. Turns(chain) = Groups(chain)
    BY <2>1, SettledTurns
  <2> QED BY <2>1, <2>2, SettledSendable
<1>4. Spec => []TypeInv
  BY Typed
<1> QED BY <1>1, <1>2, <1>3, <1>4, PTL DEF Spec
=============================================================================
