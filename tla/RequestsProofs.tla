--------------------------- MODULE RequestsProofs ---------------------------
(***************************************************************************)
(* Where the texts of a request come from, why it can be sent, and what    *)
(* is left of the conversation in it.  The sanitizers, the snapshot, the   *)
(* persisted chain and the repairs of a round each make chains out of      *)
(* chains; none of them says what was not said to it, but for the words of *)
(* its own.  So what is not in a chain's vocabulary does not get into it:  *)
(* what was cleared, and the notes of earlier requests.  Whatever chain it *)
(* is, the sanitizer makes a settled one of it, and the view, the history  *)
(* and the repair keep it settled.  Who speaks first and last in it is     *)
(* kept up by the loop.  A settled chain is captured and restored with all *)
(* it says and all its turns, and a request that takes a restored chain in *)
(* has all of that: two parts follow it from process to process.  The next *)
(* parts follow the messages: a chain that is repaired, restored or        *)
(* persisted tells no more of them than before, and history is put into a  *)
(* chain only as long as the two tell nothing in common.  The last part    *)
(* follows the loop's own chain: what was said and settled in it stays as  *)
(* long as execute() runs.                                                 *)
(***************************************************************************)
EXTENDS Requests, PayloadProofs

-----------------------------------------------------------------------------
(* The persisted chain and the turn's input                                *)

\* An entry of the persisted chain, before what is empty is left out of it.
Spoken(W) == {e \in [role : {"user", "assistant"}, text : SUBSET W] :
                 e.role = "assistant" => e.text \subseteq Words}
Heard(W)  == {e \in Spoken(W) : e.role = "user" => e.text # {}}

Entries(W) == Seq(Heard(W))

\* A part of the persisted chain,
LEMMA EntryFacts ==
    ASSUME NEW W, NEW e \in Entries(W)
    PROVE  /\ Len(e) \in Nat /\ DOMAIN e = 1..Len(e)
           /\ \A i \in 1..Len(e) : e[i].role \in {"user", "assistant"} /\ e[i].text \in SUBSET W
           /\ \A i \in 1..Len(e) : e[i].role = "assistant" => e[i].text \subseteq Words
           /\ \A i \in 1..Len(e) : e[i].role = "user" => e[i].text # {}
           /\ FromFirstUser(e) \in Entries(W) /\ Len(FromFirstUser(e)) <= Len(e)
<1> DEFINE S == Heard(W)
           users == {i \in DOMAIN e : e[i].role = "user"}
           from  == CHOOSE i \in users : \A j \in users : i <= j
<1>1. e \in Seq(S) /\ <<>> \in Seq(S) /\ Len(<<>>) = 0
  BY EmptySeq DEF Entries
<1>2. Len(e) \in Nat /\ DOMAIN e = 1..Len(e) /\ \A i \in 1..Len(e) : e[i] \in S
  <2> HIDE DEF S
  <2> QED BY <1>1, LenProperties, ElementOfSeq
<1>3. FromFirstUser(e) = IF users = {} THEN <<>> ELSE SubSeq(e, from, Len(e))
  BY DEF FromFirstUser
<1>4. users \in SUBSET (1..Len(e))
  BY <1>2
<1> HIDE DEF users
<1>5. users # {} => from \in 1..Len(e)
  <2>1. users # {} => from \in users
    BY <1>2, <1>4, EndFacts
  <2> QED BY <1>4, <2>1
<1> HIDE DEF from
<1>6. ASSUME users # {}
      PROVE  SubSeq(e, from, Len(e)) \in Seq(S) /\ Len(SubSeq(e, from, Len(e))) <= Len(e)
  <2>1. from \in Nat \ {0} /\ from \in 1..(Len(e) + 1) /\ Len(e) \in 0..Len(e)
    BY <1>2, <1>5, <1>6
  <2> HIDE DEF S
  <2>2. SubSeq(e, from, Len(e)) \in Seq(S)
    BY <1>1, <2>1, SliceFacts
  <2>3. Len(SubSeq(e, from, Len(e))) = Len(e) - from + 1
    <3>1. \A i \in from..Len(e) : e[i] \in S
      BY <1>2, <2>1
    <3>2. Len(SubSeq(e, from, Len(e))) = IF from <= Len(e) THEN Len(e) - from + 1 ELSE 0
      BY <1>2, <2>1, <3>1, SubSeqProperties
    <3> QED BY <1>2, <1>5, <1>6, <3>2
  <2>4. Len(e) - from + 1 <= Len(e)
    BY <1>2, <2>1
  <2> QED BY <2>2, <2>3, <2>4
<1> HIDE DEF S
<1>7. FromFirstUser(e) \in Seq(S) /\ Len(FromFirstUser(e)) <= Len(e)
  BY <1>1, <1>2, <1>3, <1>6
<1>8. \A i \in 1..Len(e) : /\ e[i].role \in {"user", "assistant"} /\ e[i].text \in SUBSET W
                           /\ e[i].role = "assistant" => e[i].text \subseteq Words
                           /\ e[i].role = "user" => e[i].text # {}
  BY <1>2 DEF S, Heard, Spoken
<1>9. FromFirstUser(e) \in Entries(W)
  BY <1>7 DEF Entries, S
<1> QED BY <1>2, <1>7, <1>8, <1>9

\* what is appended to it, which is cut to its length,
LEMMA UpdateFacts ==
    ASSUME NEW W, NEW e \in Entries(W), NEW new \in Seq(Spoken(W))
    PROVE  UpdateChain(e, new) \in Entries(W) /\ Len(UpdateChain(e, new)) <= MaxSaved
<1> DEFINE S == Heard(W)
           I == {i \in DOMAIN new : new[i].text # {}}
           all == e \o Only(new, I)
           last == SubSeq(all, Len(all) - MaxSaved + 1, Len(all))
<1>1. MaxSaved \in Nat \ {0}
  BY RequestsAssumption
<1>2. UpdateChain(e, new) = IF Len(all) <= MaxSaved THEN all ELSE FromFirstUser(last)
  BY DEF UpdateChain, Those
<1>3. I \in SUBSET (1..Len(new))
  <2>1. DOMAIN new = 1..Len(new)
    BY LenProperties
  <2> QED BY <2>1
<1>0. \A i \in I : new[i].text # {} /\ new[i] \in Spoken(W)
  <2>1. \A i \in 1..Len(new) : new[i] \in Spoken(W)
    BY ElementOfSeq
  <2> QED BY <1>3, <2>1
<1> HIDE DEF I
<1>4. all \in Seq(S)
  <2>1. \A i \in I : new[i] \in S
    BY <1>0 DEF Heard
  <2> HIDE DEF S
  <2>2. e \in Seq(S)
    BY DEF Entries, S
  <2>3. /\ Only(new, I) \in Seq(Spoken(W))
        /\ \A k \in 1..Len(Only(new, I)) : \E i \in I : Only(new, I)[k] = new[i]
    BY <1>3, OnlyFacts
  <2>4. /\ Len(Only(new, I)) \in Nat
        /\ Only(new, I) = [k \in 1..Len(Only(new, I)) |-> Only(new, I)[k]]
    BY <2>3, LenProperties, SeqDef
  <2>5. \A k \in 1..Len(Only(new, I)) : Only(new, I)[k] \in S
    BY <2>1, <2>3
  <2>6. Only(new, I) \in Seq(S)
    <3> DEFINE o == Only(new, I)
    <3>1. o \in [1..Len(o) -> S]
      BY <2>4, <2>5
    <3> HIDE DEF o
    <3>2. Len(o) \in Nat
      BY <2>4 DEF o
    <3>3. o \in Seq(S)
      BY <3>1, <3>2
    <3> QED BY <3>3 DEF o
  <2> QED BY <2>2, <2>6, ConcatProperties
<1> HIDE DEF all
<1>5. Len(all) \in Nat /\ all \in Entries(W)
  BY <1>4, LenProperties DEF Entries
<1>6. CASE Len(all) <= MaxSaved
  BY <1>2, <1>5, <1>6
<1>7. CASE ~(Len(all) <= MaxSaved)
  <2>1. /\ Len(all) - MaxSaved + 1 \in Nat \ {0} /\ Len(all) \in 0..Len(all)
        /\ Len(all) - MaxSaved + 1 \in 1..(Len(all) + 1)
        /\ Len(all) - (Len(all) - MaxSaved + 1) + 1 = MaxSaved
        /\ Len(all) - MaxSaved + 1 <= Len(all)
    BY <1>1, <1>5, <1>7
  <2>2. last \in Entries(W)
    <3> HIDE DEF S
    <3> QED BY <1>4, <2>1, SliceFacts DEF Entries, S
  <2>3. Len(last) = MaxSaved
    <3> HIDE DEF S
    <3>1. \A i \in (Len(all) - MaxSaved + 1)..Len(all) : i \in 1..Len(all)
      BY <1>1, <1>5, <2>1
    <3>2. \A i \in (Len(all) - MaxSaved + 1)..Len(all) : all[i] \in S
      BY <1>4, <3>1, ElementOfSeq
    <3>3. Len(last) = IF Len(all) - MaxSaved + 1 <= Len(all)
                      THEN Len(all) - (Len(all) - MaxSaved + 1) + 1 ELSE 0
      BY <2>1, <3>2, SubSeqProperties
    <3> QED BY <2>1, <3>3
  <2> HIDE DEF last
  <2>4. FromFirstUser(last) \in Entries(W) /\ Len(FromFirstUser(last)) <= Len(last)
    BY <2>2, EntryFacts
  <2> QED BY <1>2, <1>7, <2>3, <2>4
<1> QED BY <1>6, <1>7

\* and what comes of it at a start.
LEMMA SavedFacts ==
    ASSUME NEW W, NEW e \in Entries(W)
    PROVE  SavedPayloads(e) \in Chains(W)
<1> DEFINE from == FromFirstUser(e)
           c == [i \in DOMAIN from |-> IF from[i].role = "user" THEN User(from[i].text)
                                       ELSE Assistant(from[i].text, {})]
<1>1. from \in Entries(W)
  BY EntryFacts
<1>2. SavedPayloads(e) = c
  BY DEF SavedPayloads
<1> HIDE DEF from
<1>3. Len(from) \in Nat /\ DOMAIN from = 1..Len(from)
  BY <1>1, EntryFacts
<1>4. \A i \in 1..Len(from) : /\ from[i].text \in SUBSET W
                              /\ from[i].role # "user" => from[i].text \subseteq Words
                              /\ from[i].role = "user" => from[i].text # {}
  BY <1>1, EntryFacts
<1>5. \A i \in 1..Len(from) :
        /\ from[i].role = "user" => User(from[i].text) \in Lines(W)
        /\ from[i].role # "user" => Assistant(from[i].text, {}) \in Lines(W)
  <2>1. {} \in SUBSET CallIds
    OBVIOUS
  <2> QED BY <1>4, <2>1, MadeFacts
<1>6. c \in [1..Len(from) -> Lines(W)]
  BY <1>3, <1>5
<1> HIDE DEF c
<1> QED BY <1>2, <1>3, <1>6 DEF Chains

\* The text a user's payload takes in,
LEMMA InputFacts ==
    ASSUME NEW W, NEW c \in Chains(W), NEW text \in (SUBSET W) \ {{}}
    PROVE  AddInput(c, text) \in Chains(W)
<1> DEFINE n == Len(c)
           line == [c[n] EXCEPT !.text = @ \cup text]
<1>1. User(text) \in Lines(W)
  BY MadeFacts
<1>2. Append(c, User(text)) \in Chains(W)
  BY <1>1, ChainFacts
<1>3. c # <<>> /\ c[n].role = "user" => [c EXCEPT ![n] = line] \in Chains(W)
  <2> SUFFICES ASSUME c # <<>>, c[n].role = "user" PROVE [c EXCEPT ![n] = line] \in Chains(W)
    OBVIOUS
  <2>1. Len(c) \in Nat \ {0}
    BY EmptySeq DEF Chains
  <2>2. n \in 1..Len(c)
    BY <2>1
  <2>3. c[n] \in Lines(W)
    BY <2>2, ChainFacts
  <2>4. c[n].role = "user" => line \in Lines(W)
    <3>1. c[n].text \in SUBSET W
      BY <2>3, ChangedFacts
    <3>2. c[n].text \cup text \in SUBSET W /\ c[n].text \cup text # {}
      BY <3>1
    <3>3. line = [c[n] EXCEPT !.text = c[n].text \cup text]
      OBVIOUS
    <3> HIDE DEF n, line
    <3> QED BY <2>3, <3>2, <3>3, ChangedFacts
  <2> HIDE DEF n, line
  <2> QED BY <2>2, <2>4, ChainFacts
<1>4. AddInput(c, text) = IF c # <<>> /\ c[n].role = "user"
                          THEN [c EXCEPT ![n] = line] ELSE Append(c, User(text))
  <2>1. c # <<>> => n \in DOMAIN c
    <3>1. c # <<>> => Len(c) \in Nat \ {0}
      BY EmptySeq DEF Chains
    <3> QED BY <3>1, ChainFacts
  <2> QED BY <2>1 DEF AddInput, Last
<1> QED BY <1>2, <1>3, <1>4

\* and the text a turn answers.
LEMMA TextFacts ==
    ASSUME NEW W, NEW c \in Chains(W)
    PROVE  LastUserText(c) \in SUBSET W
<1> DEFINE users == {i \in DOMAIN c : c[i].role = "user"}
           i == CHOOSE i \in users : \A j \in users : j <= i
<1>1. Len(c) \in Nat /\ users \in SUBSET (1..Len(c))
  BY ChainFacts
<1>2. LastUserText(c) = IF users = {} THEN {} ELSE c[i].text
  BY DEF LastUserText
<1> HIDE DEF users
<1>3. ASSUME users # {} PROVE c[i].text \in SUBSET W
  <2>1. i \in users
    BY <1>1, <1>3, EndFacts
  <2> HIDE DEF i
  <2>2. c[i] \in Lines(W)
    BY <1>1, <2>1, ChainFacts
  <2> QED BY <2>2, ChangedFacts
<1> QED BY <1>2, <1>3
-----------------------------------------------------------------------------
(* What each part of the state may say                                     *)

All == ToSet(Messages) \cup ToSet(Notes) \cup Words

\* The notes that were not made yet when n were.
Unmade(n) == {Notes[i] : i \in (n + 1)..Len(Notes)}

\* Nothing says a message of before the last clear, f, or a note still to come;
\* a request, of the notes p of this process, only its own, t; and the chain, the
\* persisted one and the turn's text no note of this process at all.
Snapped(f, n)      == All \ (f \cup Unmade(n))
Asked(f, n, p, t)  == All \ (f \cup Unmade(n) \cup (p \ t))
Talked(f, n, p, t) == All \ (f \cup Unmade(n) \cup p \cup t)

Kept  == Snapped(past.forgotten, used.notes)
Asks  == Asked(past.forgotten, used.notes, past.notes, note)
Talks == Talked(past.forgotten, used.notes, past.notes, note)

Arrived(n) == {Messages[i] : i \in 1..n}

\* The counters, the flags and the note.
Loops  == [waiting : BOOLEAN, tools : BOOLEAN, asking : BOOLEAN, fresh : BOOLEAN,
           tries : 0..MaxRetries]
Counts == [messages : 0..Len(Messages), notes : 0..Len(Notes), answers : Nat, faults : Nat]
Pasts  == [notes : SUBSET ToSet(Notes), owed : Chains(All), ended : BOOLEAN,
           forgotten : SUBSET ToSet(Messages)]

PartsOK ==
    /\ pc \in {"idle", "ready", "sending", "flight", "execute", "commit"}
    /\ loop \in Loops
    /\ restored \in BOOLEAN
    /\ used \in Counts
    /\ past \in Pasts /\ past.forgotten \in SUBSET Arrived(used.messages)
    /\ note \in SUBSET ToSet(Notes) /\ note \cap Unmade(used.notes) = {}
    /\ pc \notin {"sending", "flight"} => note = {}

ChainOK ==
    /\ chain \in Chains(Talks)
    /\ pre \in [text : SUBSET Talks, saved : BOOLEAN]

RequestOK == local \in Chains(Asks) /\ request \in Chains(Asks)

\* The snapshot may say notes of this process, but it is not restored any more.
SessionOK ==
    /\ session \in [saved : Entries(Talks), snap : Chains(Kept), flag : BOOLEAN]
    /\ Len(session.saved) <= MaxSaved
    /\ disk = OnDisk(session)
    /\ ~restored => past.notes = {} \/ session.snap = <<>>

IInv == PartsOK /\ ChainOK /\ RequestOK /\ SessionOK

\* Messages and notes are what they are, one by one.
LEMMA NamesFacts ==
    /\ Len(Messages) \in Nat /\ Len(Notes) \in Nat
    /\ \A i \in 1..Len(Messages) : Messages[i] \in ToSet(Messages)
    /\ \A i \in 1..Len(Notes) : Notes[i] \in ToSet(Notes)
    /\ \A i, j \in 1..Len(Messages) : Messages[i] = Messages[j] => i = j
    /\ \A i, j \in 1..Len(Notes) : Notes[i] = Notes[j] => i = j
<1>1. /\ Messages \in Seq(ToSet(Messages)) /\ Notes \in Seq(ToSet(Notes))
      /\ IsInjective(Messages) /\ IsInjective(Notes)
  BY RequestsAssumption
<1>2. Len(Messages) \in Nat /\ DOMAIN Messages = 1..Len(Messages)
  BY <1>1, LenProperties
<1>3. Len(Notes) \in Nat /\ DOMAIN Notes = 1..Len(Notes)
  BY <1>1, LenProperties
<1>4. \A i \in 1..Len(Messages) : Messages[i] \in ToSet(Messages)
  BY <1>1, ElementOfSeq
<1>5. \A i \in 1..Len(Notes) : Notes[i] \in ToSet(Notes)
  BY <1>1, ElementOfSeq
<1>6. \A i, j \in 1..Len(Messages) : Messages[i] = Messages[j] => i = j
  BY <1>1, <1>2 DEF IsInjective
<1>7. \A i, j \in 1..Len(Notes) : Notes[i] = Notes[j] => i = j
  BY <1>1, <1>3 DEF IsInjective
<1> QED BY <1>2, <1>3, <1>4, <1>5, <1>6, <1>7

\* The vocabularies, one in the other.
LEMMA VocabularyFacts ==
    ASSUME NEW f \in SUBSET ToSet(Messages), NEW n \in Nat,
           NEW p \in SUBSET ToSet(Notes), NEW t \in SUBSET ToSet(Notes)
    PROVE  /\ Unmade(n) \subseteq ToSet(Notes)
           /\ Words \subseteq Talked(f, n, p, t) /\ Words \subseteq Asked(f, n, p, t)
           /\ Words \subseteq Snapped(f, n)
           /\ Talked(f, n, p, t) \subseteq Asked(f, n, p, t)
           /\ Asked(f, n, p, t) \subseteq Snapped(f, n) /\ Snapped(f, n) \subseteq All
           /\ t \cap Unmade(n) = {} => t \subseteq Asked(f, n, p, t)
           /\ Talked(f, n, p, t) = Asked(f, n, p, t) \ t
<1>1. Unmade(n) \subseteq ToSet(Notes)
  <2>1. \A i \in (n + 1)..Len(Notes) : i \in 1..Len(Notes)
    BY NamesFacts
  <2> QED BY <2>1, NamesFacts DEF Unmade
<1>2. (ToSet(Messages) \cup ToSet(Notes)) \cap Words = {} /\ ToSet(Messages) \cap ToSet(Notes) = {}
  BY RequestsAssumption
<1>3. (f \cup Unmade(n) \cup p \cup t) \cap Words = {}
  BY <1>1, <1>2
<1>4. Words \subseteq Talked(f, n, p, t) /\ Words \subseteq Asked(f, n, p, t)
      /\ Words \subseteq Snapped(f, n)
  BY <1>3 DEF Talked, Asked, Snapped, All
<1>5. t \cap Unmade(n) = {} => t \subseteq Asked(f, n, p, t)
  BY <1>2 DEF Asked, All
<1>6. /\ Talked(f, n, p, t) \subseteq Asked(f, n, p, t)
      /\ Asked(f, n, p, t) \subseteq Snapped(f, n) /\ Snapped(f, n) \subseteq All
      /\ Talked(f, n, p, t) = Asked(f, n, p, t) \ t
  BY DEF Talked, Asked, Snapped
<1> QED BY <1>1, <1>4, <1>5, <1>6

\* A note that is made,
LEMMA NoteFacts ==
    ASSUME NEW n \in 0..Len(Notes), n < Len(Notes)
    PROVE  /\ n + 1 \in 0..Len(Notes)
           /\ {Notes[n + 1]} \in SUBSET ToSet(Notes)
           /\ Unmade(n) = Unmade(n + 1) \cup {Notes[n + 1]}
           /\ {Notes[n + 1]} \cap Unmade(n + 1) = {}
<1>0. Len(Notes) \in Nat
  BY NamesFacts
<1>1. n + 1 \in 1..Len(Notes) /\ n + 1 \in 0..Len(Notes)
  BY <1>0
<1>2. (n + 1)..Len(Notes) = (((n + 1) + 1)..Len(Notes)) \cup {n + 1}
  BY <1>0, <1>1
<1>3. Unmade(n) = Unmade(n + 1) \cup {Notes[n + 1]}
  BY <1>2 DEF Unmade
<1>4. \A i \in ((n + 1) + 1)..Len(Notes) : i \in 1..Len(Notes) /\ i # n + 1
  BY <1>0
<1>5. Notes[n + 1] \notin Unmade(n + 1)
  BY <1>1, <1>4, NamesFacts DEF Unmade
<1> QED BY <1>1, <1>3, <1>5, NamesFacts

\* and what it changes.
LEMMA NotedFacts ==
    ASSUME NEW f \in SUBSET ToSet(Messages), NEW n \in 0..Len(Notes), n < Len(Notes),
           NEW p \in SUBSET ToSet(Notes)
    PROVE  /\ Talked(f, n, p, {}) \subseteq Talked(f, n + 1, p, {Notes[n + 1]})
           /\ Asked(f, n, p, {}) \subseteq Asked(f, n + 1, p, {Notes[n + 1]})
           /\ Snapped(f, n) \subseteq Snapped(f, n + 1)
BY NoteFacts DEF Talked, Asked, Snapped

\* A message that arrives.
LEMMA MessageFacts ==
    ASSUME NEW m \in 0..Len(Messages), m < Len(Messages), NEW f \in SUBSET Arrived(m),
           NEW n \in Nat, NEW p \in SUBSET ToSet(Notes), NEW t \in SUBSET ToSet(Notes)
    PROVE  /\ m + 1 \in 0..Len(Messages) /\ f \in SUBSET Arrived(m + 1)
           /\ {Messages[m + 1]} \in SUBSET Talked(f, n, p, t)
<1>0. Len(Messages) \in Nat
  BY NamesFacts
<1>1. m + 1 \in 1..Len(Messages) /\ m + 1 \in 0..Len(Messages)
  BY <1>0
<1>2. \A i \in 1..m : i \in 1..Len(Messages) /\ i # m + 1 /\ i \in 1..(m + 1)
  BY <1>0
<1>3. Messages[m + 1] \notin Arrived(m) /\ Arrived(m) \subseteq Arrived(m + 1)
  BY <1>1, <1>2, NamesFacts DEF Arrived
<1>4. Messages[m + 1] \in ToSet(Messages)
  BY <1>1, NamesFacts
<1>5. Unmade(n) \subseteq ToSet(Notes)
  <2>1. {} \in SUBSET ToSet(Messages)
    OBVIOUS
  <2> QED BY <2>1, VocabularyFacts
<1>6. Messages[m + 1] \notin f \cup Unmade(n) \cup p \cup t
  <2>1. ToSet(Messages) \cap ToSet(Notes) = {}
    BY RequestsAssumption
  <2> QED BY <1>3, <1>4, <1>5, <2>1
<1>7. {Messages[m + 1]} \in SUBSET Talked(f, n, p, t)
  BY <1>4, <1>6 DEF Talked, All
<1> QED BY <1>1, <1>3, <1>7

\* The messages of a prefix.
LEMMA ArrivedFacts ==
    ASSUME NEW m \in 0..Len(Messages)
    PROVE  ToSet(SubSeq(Messages, 1, m)) = Arrived(m) /\ Arrived(m) \subseteq ToSet(Messages)
<1> DEFINE S == ToSet(Messages)
           q == SubSeq(Messages, 1, m)
<1>1. Messages \in Seq(S) /\ Len(Messages) \in Nat
  BY NamesFacts, RequestsAssumption
<1>2. \A i \in 1..m : i \in 1..Len(Messages) /\ Messages[i] \in S
  BY <1>1, NamesFacts
<1> HIDE DEF S
<1>3. m \in 0..Len(Messages) /\ 1 \in 1..(Len(Messages) + 1)
  BY <1>1
<1>4. /\ q \in Seq(S) /\ Len(q) = m
      /\ \A i \in 1..m : q[i] = Messages[i]
  <2>1. Len(SubSeq(Messages, 1, m)) = IF 1 <= m THEN m - 1 + 1 ELSE 0
    BY <1>1, <1>2, <1>3, SubSeqProperties
  <2>2. m \in Nat /\ (IF 1 <= m THEN m - 1 + 1 ELSE 0) = m
    BY <1>1
  <2>3. q \in Seq(S)
    BY <1>1, <1>2, <1>3, SubSeqProperties
  <2>4. \A i \in 1..(m - 1 + 1) : SubSeq(Messages, 1, m)[i] = Messages[1 + i - 1]
    BY <1>1, <1>2, <1>3, SubSeqProperties
  <2>5. \A i \in 1..m : SubSeq(Messages, 1, m)[i] = Messages[i]
    <3>1. m - 1 + 1 = m /\ \A i \in 1..m : 1 + i - 1 = i
      BY <2>2
    <3> QED BY <2>4, <3>1
  <2> QED BY <2>1, <2>2, <2>3, <2>5
<1> HIDE DEF q
<1>5. DOMAIN q = 1..m
  BY <1>4, LenProperties
<1>6. ToSet(q) = Arrived(m)
  BY <1>4, <1>5 DEF ToSet, Arrived
<1> QED BY <1>2, <1>6 DEF Arrived, q, S
-----------------------------------------------------------------------------
(* The invariant                                                           *)

\* What of the counters is needed of itself.
LEMMA CountFacts ==
    ASSUME PartsOK
    PROVE  /\ used.messages \in 0..Len(Messages) /\ used.notes \in 0..Len(Notes)
           /\ used.notes \in Nat
           /\ past.forgotten \in SUBSET ToSet(Messages) /\ past.notes \in SUBSET ToSet(Notes)
           /\ past.forgotten \in SUBSET Arrived(used.messages)
           /\ note \in SUBSET ToSet(Notes)
<1>1. used \in Counts /\ past \in Pasts
  BY DEF PartsOK
<1>2. used.messages \in 0..Len(Messages) /\ used.notes \in 0..Len(Notes)
  BY <1>1 DEF Counts
<1>3. past.forgotten \in SUBSET ToSet(Messages) /\ past.notes \in SUBSET ToSet(Notes)
  BY <1>1 DEF Pasts
<1>4. used.notes \in Nat
  BY <1>2, NamesFacts
<1> QED BY <1>2, <1>3, <1>4 DEF PartsOK

\* The same counts after a step.
LEMMA CountFactsNext ==
    ASSUME PartsOK'
    PROVE  /\ used'.messages \in 0..Len(Messages) /\ used'.notes \in 0..Len(Notes)
           /\ used'.notes \in Nat
           /\ past'.forgotten \in SUBSET ToSet(Messages) /\ past'.notes \in SUBSET ToSet(Notes)
           /\ past'.forgotten \in SUBSET Arrived(used'.messages)
           /\ note' \in SUBSET ToSet(Notes)
<1>1. used' \in Counts /\ past' \in Pasts
  BY DEF PartsOK
<1>2. used'.messages \in 0..Len(Messages) /\ used'.notes \in 0..Len(Notes)
  BY <1>1 DEF Counts
<1>3. past'.forgotten \in SUBSET ToSet(Messages) /\ past'.notes \in SUBSET ToSet(Notes)
  BY <1>1 DEF Pasts
<1>4. used'.notes \in Nat
  BY <1>2, NamesFacts
<1> QED BY <1>2, <1>3, <1>4 DEF PartsOK

\* The vocabularies of a state.
LEMMA SpeechFacts ==
    ASSUME PartsOK
    PROVE  /\ Words \subseteq Talks /\ Words \subseteq Asks /\ Words \subseteq Kept
           /\ Talks \subseteq Asks /\ Asks \subseteq Kept /\ Kept \subseteq All
           /\ note \subseteq Asks /\ Talks = Asks \ note
           /\ past.notes = {} => Asks = Kept
<1> DEFINE f == past.forgotten
           n == used.notes
           p == past.notes
           t == note
<1>1. f \in SUBSET ToSet(Messages) /\ n \in Nat /\ p \in SUBSET ToSet(Notes)
      /\ t \in SUBSET ToSet(Notes)
  BY CountFacts
<1>2. t \cap Unmade(n) = {}
  BY DEF PartsOK
<1>3. Kept = Snapped(f, n) /\ Asks = Asked(f, n, p, t) /\ Talks = Talked(f, n, p, t)
  BY DEF Kept, Asks, Talks
<1> HIDE DEF f, n, p, t
<1>4. Words \subseteq Talks /\ Words \subseteq Asks /\ Words \subseteq Kept
  BY <1>1, <1>3, VocabularyFacts
<1>5. Talks \subseteq Asks /\ Asks \subseteq Kept /\ Kept \subseteq All
  BY <1>1, <1>3, VocabularyFacts
<1>6. t \subseteq Asks /\ Talks = Asks \ t
  BY <1>1, <1>2, <1>3, VocabularyFacts
<1>7. p = {} => Asks = Kept
  BY <1>3 DEF Asked, Snapped
<1> QED BY <1>4, <1>5, <1>6, <1>7 DEF p, t

\* The same order of what may be said after a step.
LEMMA SpeechFactsNext ==
    ASSUME PartsOK'
    PROVE  /\ Words \subseteq Talks' /\ Words \subseteq Asks' /\ Words \subseteq Kept'
           /\ Talks' \subseteq Asks' /\ Asks' \subseteq Kept' /\ Kept' \subseteq All
<1> DEFINE f == past'.forgotten
           n == used'.notes
           p == past'.notes
           t == note'
<1>1. f \in SUBSET ToSet(Messages) /\ n \in Nat /\ p \in SUBSET ToSet(Notes)
      /\ t \in SUBSET ToSet(Notes)
  BY CountFactsNext
<1>2. Kept' = Snapped(f, n) /\ Asks' = Asked(f, n, p, t) /\ Talks' = Talked(f, n, p, t)
  BY DEF Kept, Asks, Talks
<1> HIDE DEF f, n, p, t
<1>3. Words \subseteq Talks' /\ Words \subseteq Asks' /\ Words \subseteq Kept'
  BY <1>1, <1>2, VocabularyFacts
<1>4. Talks' \subseteq Asks' /\ Asks' \subseteq Kept' /\ Kept' \subseteq All
  BY <1>1, <1>2, VocabularyFacts
<1> QED BY <1>3, <1>4

\* The state in a greater vocabulary.
LEMMA GrowFacts ==
    ASSUME ChainOK, RequestOK, SessionOK, NEW T, NEW A, NEW K,
           Talks \subseteq T, Asks \subseteq A, Kept \subseteq K
    PROVE  /\ chain \in Chains(T) /\ local \in Chains(A) /\ request \in Chains(A)
           /\ pre \in [text : SUBSET T, saved : BOOLEAN]
           /\ session \in [saved : Entries(T), snap : Chains(K), flag : BOOLEAN]
<1>1. chain \in Chains(T)
  BY LinesGrow DEF ChainOK
<1>2. local \in Chains(A) /\ request \in Chains(A)
  BY LinesGrow DEF RequestOK
<1>3. pre \in [text : SUBSET T, saved : BOOLEAN]
  BY DEF ChainOK
<1>4. session.saved \in Entries(T)
  <2>1. session.saved \in Entries(Talks)
    BY DEF SessionOK
  <2> DEFINE U == Heard(Talks)
             V == Heard(T)
  <2>2. U \subseteq V
    BY DEF Heard, Spoken
  <2>3. session.saved \in Seq(U)
    BY <2>1 DEF Entries
  <2> HIDE DEF U, V
  <2>4. session.saved \in Seq(V)
    BY <2>2, <2>3, SeqMonotonic
  <2> QED BY <2>4 DEF Entries, V
<1>5. session.snap \in Chains(K)
  <2>1. session.snap \in Chains(Kept)
    BY DEF SessionOK
  <2> QED BY <2>1, LinesGrow
<1>6. session \in [saved : Entries(T), snap : Chains(K), flag : BOOLEAN]
  BY <1>4, <1>5 DEF SessionOK
<1> QED BY <1>1, <1>2, <1>3, <1>6

\* A note comes with a new message or with the end of a wait.
LEMMA NoteStep ==
    ASSUME PartsOK, note = {}, past' = past,
           \/ note' = {} /\ used'.notes = used.notes
           \/ /\ used.notes < Len(Notes)
              /\ note' = {Notes[used.notes + 1]}
              /\ used'.notes = used.notes + 1
    PROVE  /\ used'.notes \in 0..Len(Notes)
           /\ note' \in SUBSET ToSet(Notes) /\ note' \cap Unmade(used'.notes) = {}
           /\ Talks \subseteq Talks' /\ Asks \subseteq Asks' /\ Kept \subseteq Kept'
<1>1. CASE note' = {} /\ used'.notes = used.notes
  BY <1>1, CountFacts DEF Talks, Asks, Kept
<1>2. CASE /\ used.notes < Len(Notes)
           /\ note' = {Notes[used.notes + 1]}
           /\ used'.notes = used.notes + 1
  <2>1. /\ used'.notes \in 0..Len(Notes)
        /\ note' \in SUBSET ToSet(Notes) /\ note' \cap Unmade(used'.notes) = {}
    BY <1>2, CountFacts, NoteFacts
  <2>2. Talks \subseteq Talks' /\ Asks \subseteq Asks' /\ Kept \subseteq Kept'
    BY <1>2, CountFacts, NotedFacts DEF Talks, Asks, Kept
  <2> QED BY <2>1, <2>2
<1> QED BY <1>1, <1>2

\* The counters, the flags and the note keep to their sets.
LEMMA PartsStep ==
    ASSUME IInv, [Next]_vars
    PROVE  PartsOK'
<1>1. PartsOK /\ SessionOK
  BY DEF IInv
<1>2. /\ loop \in Loops /\ used \in Counts /\ past \in Pasts /\ restored \in BOOLEAN
      /\ past.forgotten \in SUBSET Arrived(used.messages)
      /\ note \in SUBSET ToSet(Notes) /\ note \cap Unmade(used.notes) = {}
  BY <1>1 DEF PartsOK
<1>3. /\ used.messages \in 0..Len(Messages) /\ used.notes \in 0..Len(Notes)
      /\ used.answers \in Nat /\ used.faults \in Nat
      /\ used = [messages |-> used.messages, notes |-> used.notes,
                 answers |-> used.answers, faults |-> used.faults]
  BY <1>2 DEF Counts
<1>4. Len(Messages) \in Nat /\ Len(Notes) \in Nat /\ MaxRetries \in Nat
  BY NamesFacts, RequestsAssumption
<1>5. NewLoop \in Loops
  BY <1>4 DEF NewLoop, Loops
<1>6. {} \in SUBSET ToSet(Notes) /\ \A n : {} \cap Unmade(n) = {}
  OBVIOUS
<1>7. CASE Start
  BY <1>1, <1>5, <1>7 DEF Start, PartsOK
<1>8. CASE NewMessage
  <2>1. PartsOK /\ note = {} /\ past' = past /\ pc' = "sending" /\ restored' = restored
    BY <1>1, <1>8 DEF NewMessage, PartsOK
  <2>2. loop' \in Loops
    BY <1>2, <1>8 DEF NewMessage, Loops
  <2>3. used.messages < Len(Messages)
    BY <1>8 DEF NewMessage
  <2>4. MayHaveNote
    BY <1>8 DEF NewMessage
  <2>5. /\ used'.messages = used.messages + 1 /\ used'.answers = used.answers
        /\ used'.faults = used.faults
        /\ used' = [messages |-> used'.messages, notes |-> used'.notes,
                    answers |-> used'.answers, faults |-> used'.faults]
    BY <1>3, <2>4 DEF MayHaveNote
  <2>6. \/ note' = {} /\ used'.notes = used.notes
        \/ /\ used.notes < Len(Notes)
           /\ note' = {Notes[used.notes + 1]}
           /\ used'.notes = used.notes + 1
    BY <1>3, <2>4 DEF MayHaveNote
  <2>7. /\ used'.notes \in 0..Len(Notes)
        /\ note' \in SUBSET ToSet(Notes) /\ note' \cap Unmade(used'.notes) = {}
    BY <2>1, <2>6, NoteStep
  <2>8. used' \in Counts
    <3>1. used'.messages \in 0..Len(Messages)
      BY <1>3, <1>4, <2>3, <2>5
    <3> QED BY <1>3, <2>5, <2>7, <3>1 DEF Counts
  <2>9. past'.forgotten \in SUBSET Arrived(used'.messages)
    <3>1. past.forgotten \in SUBSET Arrived(used.messages + 1)
      <4>1. {} \in SUBSET ToSet(Notes) /\ 0 \in Nat
        OBVIOUS
      <4> QED BY <1>2, <1>3, <2>3, <4>1, MessageFacts
    <3> QED BY <2>1, <2>5, <3>1
  <2> QED BY <1>2, <2>1, <2>2, <2>7, <2>8, <2>9 DEF PartsOK
<1>9. CASE Followup
  <2>1. loop' \in Loops
    BY <1>2, <1>9 DEF Followup, Loops
  <2> QED BY <1>1, <1>9, <2>1 DEF Followup, PartsOK
<1>10. CASE Timeout
  <2>1. PartsOK /\ note = {} /\ past' = past /\ pc' = "sending" /\ restored' = restored
    BY <1>1, <1>10 DEF Timeout, PartsOK
  <2>2. loop' \in Loops
    BY <1>2, <1>10 DEF Timeout, Loops
  <2>3. /\ used'.messages = used.messages /\ used'.answers = used.answers
        /\ used'.faults = used.faults
        /\ used' = [messages |-> used'.messages, notes |-> used'.notes,
                    answers |-> used'.answers, faults |-> used'.faults]
    BY <1>3, <1>10 DEF Timeout
  <2>4. /\ used.notes < Len(Notes)
        /\ note' = {Notes[used.notes + 1]}
        /\ used'.notes = used.notes + 1
    BY <1>3, <1>10 DEF Timeout
  <2>5. /\ used'.notes \in 0..Len(Notes)
        /\ note' \in SUBSET ToSet(Notes) /\ note' \cap Unmade(used'.notes) = {}
    BY <2>1, <2>4, NoteStep
  <2>6. used' \in Counts
    BY <1>3, <2>3, <2>5 DEF Counts
  <2> QED BY <1>2, <2>1, <2>2, <2>3, <2>5, <2>6 DEF PartsOK
<1>11. CASE Attempt
  <2>1. past' \in Pasts /\ past'.forgotten = past.forgotten
    BY <1>2, <1>11 DEF Attempt, Pasts
  <2> QED BY <1>1, <1>11, <2>1 DEF Attempt, PartsOK
<1>12. ASSUME Fault
       PROVE  used' \in Counts /\ used'.notes = used.notes /\ used'.messages = used.messages
  BY <1>2, <1>12 DEF Fault, Counts
<1>13. CASE Fail
  <2>1. loop' \in Loops
    BY <1>2, <1>4, <1>13 DEF Fail, Loops
  <2>2. past' \in Pasts /\ past'.forgotten = past.forgotten
    BY <1>2, <1>13 DEF Fail, Pasts
  <2>3. Fault /\ note' = {} /\ pc' \in {"sending", "ready"} /\ restored' = restored
    BY <1>13 DEF Fail, NoRequest
  <2> QED BY <1>2, <1>6, <1>12, <2>1, <2>2, <2>3 DEF PartsOK
<1>14. CASE AnswerText
  <2>1. loop' \in Loops
    BY <1>2, <1>4, <1>14 DEF AnswerText, Loops
  <2> QED BY <1>1, <1>14, <2>1 DEF AnswerText, PartsOK
<1>15. ASSUME NEW text, NEW ids, Answer(text, ids), pc' \in {"execute", "commit"}
       PROVE  PartsOK'
  <2>1. loop' \in Loops
    <3>1. loop' = [loop EXCEPT !.tries = 0, !.asking = FALSE, !.fresh = FALSE]
      BY <1>15 DEF Answer
    <3>2. 0 \in 0..MaxRetries
      BY <1>4
    <3> QED BY <1>2, <3>1, <3>2 DEF Loops
  <2>2. past' \in Pasts /\ past'.forgotten = past.forgotten
    BY <1>2, <1>15 DEF Answer, Pasts
  <2>3. used' \in Counts /\ used'.notes = used.notes /\ used'.messages = used.messages
    BY <1>2, <1>15 DEF Answer, Counts
  <2>4. note' = {} /\ restored' = restored
    BY <1>15 DEF Answer, NoRequest
  <2> QED BY <1>2, <1>6, <1>15, <2>1, <2>2, <2>3, <2>4 DEF PartsOK
<1>16. CASE AnswerTextLast
  BY <1>15, <1>16 DEF AnswerTextLast
<1>17. CASE \E ids \in (SUBSET CallIds) \ {{}} : AnswerCalls(ids)
  BY <1>15, <1>17 DEF AnswerCalls
<1>18. CASE Execute
  BY <1>1, <1>18 DEF Execute, PartsOK
<1>19. CASE EmptyReply
  <2>1. loop' \in Loops
    BY <1>2, <1>19 DEF EmptyReply, Loops
  <2> QED BY <1>1, <1>19, <2>1 DEF EmptyReply, PartsOK
<1>20. CASE CommitTools
  <2>1. loop' \in Loops
    BY <1>2, <1>20 DEF CommitTools, Loops
  <2> QED BY <1>1, <1>20, <2>1 DEF CommitTools, PartsOK
<1>21. CASE CommitWait
  <2>1. loop' \in Loops
    BY <1>2, <1>21 DEF CommitWait, Loops
  <2> QED BY <1>1, <1>21, <2>1 DEF CommitWait, PartsOK
<1>22. ASSUME End, Fault, past' \in Pasts,
              past'.forgotten \in SUBSET Arrived(used.messages), restored' \in BOOLEAN
       PROVE  PartsOK'
  BY <1>5, <1>6, <1>12, <1>22 DEF End, NoRequest, PartsOK
<1>23. CASE CommitStop
  BY <1>2, <1>22, <1>23 DEF CommitStop
<1>24. CASE GiveUp
  <2>1. past' \in Pasts /\ past'.forgotten = past.forgotten
    BY <1>2, <1>24 DEF GiveUp, Pasts
  <2> QED BY <1>2, <1>22, <1>24, <2>1 DEF GiveUp
<1>25. CASE Clear
  <2>1. ToSet(SubSeq(Messages, 1, used.messages)) = Arrived(used.messages)
        /\ Arrived(used.messages) \subseteq ToSet(Messages)
    BY <1>3, ArrivedFacts
  <2>2. <<>> \in Chains(All)
    BY DEF Chains
  <2>3. past' = [past EXCEPT !.owed = <<>>, !.forgotten = Arrived(used.messages)]
    BY <1>25, <2>1 DEF Clear
  <2>4. past' \in Pasts /\ past'.forgotten = Arrived(used.messages)
    BY <1>2, <2>1, <2>2, <2>3 DEF Pasts
  <2> QED BY <1>22, <1>25, <2>4 DEF Clear
<1>26. CASE Crash
  <2>1. disk.snap \in Chains(Kept)
    BY <1>1 DEF SessionOK, OnDisk
  <2>2. Words \subseteq Kept /\ Kept \subseteq All
    BY <1>1, SpeechFacts
  <2>3. Restore(disk.snap) \in Chains(All)
    BY <2>1, <2>2, RestoreFacts, LinesGrow
  <2>4. past' = [past EXCEPT !.notes = {}, !.owed = Restore(disk.snap), !.ended = FALSE]
    BY <1>26 DEF Crash

  <2>5. past' \in Pasts /\ past'.forgotten = past.forgotten
    BY <1>2, <2>3, <2>4 DEF Pasts
  <2>6. restored' \in BOOLEAN /\ Fault /\ End
    BY <1>26 DEF Crash
  <2> QED BY <1>2, <1>22, <2>5, <2>6
<1>27. CASE UNCHANGED vars
  BY <1>1, <1>27 DEF vars, PartsOK
<1> QED BY <1>7, <1>8, <1>9, <1>10, <1>11, <1>13, <1>14, <1>16, <1>17, <1>18, <1>19,
           <1>20, <1>21, <1>23, <1>24, <1>25, <1>26, <1>27 DEF Next

\* What an action does not change when the vocabulary grows,
LEMMA GrowStep ==
    ASSUME IInv, Talks \subseteq Talks', Asks \subseteq Asks', Kept \subseteq Kept'
    PROVE  /\ chain \in Chains(Talks') /\ local \in Chains(Asks') /\ request \in Chains(Asks')
           /\ pre \in [text : SUBSET Talks', saved : BOOLEAN]
           /\ session \in [saved : Entries(Talks'), snap : Chains(Kept'), flag : BOOLEAN]
<1> DEFINE T == Talks'
           A == Asks'
           K == Kept'
<1>1. ChainOK /\ RequestOK /\ SessionOK /\ Talks \subseteq T /\ Asks \subseteq A /\ Kept \subseteq K
  BY DEF IInv
<1> HIDE DEF T, A, K
<1>2. /\ chain \in Chains(T) /\ local \in Chains(A) /\ request \in Chains(A)
      /\ pre \in [text : SUBSET T, saved : BOOLEAN]
      /\ session \in [saved : Entries(T), snap : Chains(K), flag : BOOLEAN]
  BY <1>1, GrowFacts
<1> QED BY <1>2 DEF T, A, K

\* and when it stays.
LEMMA SameSpeech ==
    ASSUME used'.notes = used.notes, past' = past, note' = note
    PROVE  Talks' = Talks /\ Asks' = Asks /\ Kept' = Kept
BY DEF Talks, Asks, Kept

\* What is persisted of a session,
Sessions(T, K) ==
    {s \in [saved : Entries(T), snap : Chains(K), flag : BOOLEAN] : Len(s.saved) <= MaxSaved}

\* the chain of a session extended by new entries and cut off,
LEMMA PersistFacts ==
    ASSUME NEW T, NEW K, NEW s \in Sessions(T, K), NEW new \in Seq(Spoken(T))
    PROVE  [s EXCEPT !.saved = UpdateChain(@, new)] \in Sessions(T, K)
<1> DEFINE saved == UpdateChain(s.saved, new)
           r == [s EXCEPT !.saved = saved]
<1>1. s \in [saved : Entries(T), snap : Chains(K), flag : BOOLEAN]
  BY DEF Sessions
<1>2. saved \in Entries(T) /\ Len(saved) <= MaxSaved
  <2>1. s.saved \in Entries(T)
    BY <1>1
  <2> QED BY <2>1, UpdateFacts
<1>3. [s EXCEPT !.saved = UpdateChain(@, new)] = r
  OBVIOUS
<1> HIDE DEF saved
<1>4. r \in [saved : Entries(T), snap : Chains(K), flag : BOOLEAN] /\ r.saved = saved
  BY <1>1, <1>2
<1> HIDE DEF r
<1> QED BY <1>2, <1>3, <1>4 DEF Sessions

\* an entry that is one text,
LEMMA NewEntryFacts ==
    ASSUME NEW T, NEW text \in SUBSET T, NEW role \in {"user", "assistant"},
           role = "user" \/ text \subseteq Words
    PROVE  <<Entry(role, text)>> \in Seq(Spoken(T))
<1>1. Entry(role, text) \in Spoken(T)
  BY DEF Entry, Spoken
<1> QED BY <1>1

\* when a turn begins
LEMMA PreSaveFacts ==
    ASSUME NEW T, NEW K, session \in Sessions(T, K), disk = OnDisk(session),
           pre \in [text : SUBSET T, saved : BOOLEAN], NEW c \in Chains(T), PreSave(c)
    PROVE  /\ session' \in Sessions(T, K) /\ disk' = OnDisk(session')
           /\ session'.snap = session.snap
           /\ pre' \in [text : SUBSET T, saved : BOOLEAN]
<1> DEFINE text == LastUserText(c)
           new == <<Entry("user", text)>>
           next == [session EXCEPT !.saved = UpdateChain(@, new)]
<1>1. text \in SUBSET T
  BY TextFacts
<1>2. \/ UNCHANGED <<session, disk, pre>>
      \/ session' = next /\ disk' = OnDisk(next) /\ pre' = [text |-> text, saved |-> TRUE]
  BY DEF PreSave, Save
<1> HIDE DEF text
<1>3. next \in Sessions(T, K)
  <2>1. new \in Seq(Spoken(T))
    BY <1>1, NewEntryFacts
  <2> HIDE DEF new
  <2> QED BY <2>1, PersistFacts
<1>4. next.snap = session.snap
  BY DEF Sessions
<1> HIDE DEF next
<1>5. CASE UNCHANGED <<session, disk, pre>>
  <2>1. session' = session /\ disk' = disk /\ pre' = pre
    BY <1>5
  <2> QED BY <2>1
<1>6. CASE session' = next /\ disk' = OnDisk(next) /\ pre' = [text |-> text, saved |-> TRUE]
  <2>1. [text |-> text, saved |-> TRUE] \in [text : SUBSET T, saved : BOOLEAN]
    BY <1>1
  <2> QED BY <1>3, <1>4, <1>6, <2>1
<1> QED BY <1>2, <1>5, <1>6

\* and when it is answered.
LEMMA ReplyFacts ==
    ASSUME NEW T, NEW K, Words \subseteq T, session \in Sessions(T, K), disk = OnDisk(session),
           pre \in [text : SUBSET T, saved : BOOLEAN], NEW visible, Reply(visible)
    PROVE  /\ session' \in Sessions(T, K) /\ disk' = OnDisk(session')
           /\ session'.snap = session.snap
<1> DEFINE first == IF pre.saved THEN <<>> ELSE <<Entry("user", pre.text)>>
           new == first \o <<Entry("assistant", {"said"})>>
           next == [session EXCEPT !.saved = UpdateChain(@, new)]
<1>1. UNCHANGED <<session, disk>> \/ (session' = next /\ disk' = OnDisk(next))
  BY DEF Reply, Save
<1>2. first \in Seq(Spoken(T))
  <2>1. <<Entry("user", pre.text)>> \in Seq(Spoken(T))
    BY NewEntryFacts
  <2>2. <<>> \in Seq(Spoken(T))
    BY EmptySeq
  <2> QED BY <2>1, <2>2
<1>3. <<Entry("assistant", {"said"})>> \in Seq(Spoken(T))
  <2>1. {"said"} \in SUBSET T /\ {"said"} \subseteq Words
    BY DEF Words
  <2> QED BY <2>1, NewEntryFacts
<1> HIDE DEF first
<1>4. new \in Seq(Spoken(T))
  BY <1>2, <1>3, ConcatProperties
<1> HIDE DEF new
<1>5. next \in Sessions(T, K)
  BY <1>4, PersistFacts
<1>6. next.snap = session.snap
  BY DEF Sessions
<1> HIDE DEF next
<1> QED BY <1>1, <1>5, <1>6

\* So the session is in order before a step, in the vocabulary of the next.
LEMMA SessionFacts ==
    ASSUME IInv, NEW T, NEW K, session \in [saved : Entries(T), snap : Chains(K), flag : BOOLEAN]
    PROVE  session \in Sessions(T, K) /\ disk = OnDisk(session)
BY DEF IInv, SessionOK, Sessions

\* What is said after a step of execute()'s own,
LEMMA SaidNext ==
    ASSUME session' \in Sessions(Talks', Kept'), disk' = OnDisk(session'),
           chain' \in Chains(Talks'), pre' \in [text : SUBSET Talks', saved : BOOLEAN],
           local' \in Chains(Asks'), request' \in Chains(Asks'),
           ~restored' => past'.notes = {} \/ session'.snap = <<>>
    PROVE  (ChainOK /\ RequestOK /\ SessionOK)'
BY DEF ChainOK, RequestOK, SessionOK, Sessions

\* and after the end of one.
LEMMA EndNext ==
    ASSUME End, session' \in Sessions(Talks', Kept'), disk' = OnDisk(session'),
           ~restored' => past'.notes = {} \/ session'.snap = <<>>
    PROVE  (ChainOK /\ RequestOK /\ SessionOK)'
<1>1. \A W : <<>> \in Chains(W)
  BY DEF Chains
<1>2. pre' \in [text : SUBSET Talks', saved : BOOLEAN]
  BY DEF End, NewPre
<1>3. chain' \in Chains(Talks') /\ local' \in Chains(Asks') /\ request' \in Chains(Asks')
  BY <1>1 DEF End, NoRequest
<1> QED BY <1>2, <1>3, SaidNext

\* The start of execute(),
LEMMA StartSays ==
    ASSUME IInv, Start
    PROVE  (ChainOK /\ RequestOK /\ SessionOK)'
<1>1. Talks' = Talks /\ Asks' = Asks /\ Kept' = Kept
  BY SameSpeech DEF Start
<1>2. /\ local \in Chains(Asks') /\ request \in Chains(Asks')
      /\ session \in [saved : Entries(Talks'), snap : Chains(Kept'), flag : BOOLEAN]
  BY <1>1, GrowStep
<1>3. session \in Sessions(Talks', Kept') /\ disk = OnDisk(session)
  BY <1>2, SessionFacts
<1>4. session' = session /\ disk' = OnDisk(session') /\ local' = local /\ request' = request
  BY DEF Start, Save
<1>5. pre' \in [text : SUBSET Talks', saved : BOOLEAN]
  BY DEF Start, NewPre
<1>6. Words \subseteq Talks
  BY SpeechFacts DEF IInv
<1>7. chain' \in Chains(Talks')
  <2> DEFINE W == Talks'
  <2>1. Words \subseteq W /\ session.saved \in Entries(W)
    BY <1>1, <1>2, <1>6
  <2>2. chain' = <<System, Tools>> \o InitialHistory
    BY DEF Start
  <2> HIDE DEF W
  <2>3. {"now"} \in SUBSET W
    BY <2>1 DEF Words
  <2>4. User({"now"}) \in Lines(W) /\ System \in Lines(W) /\ Tools \in Lines(W)
    BY <2>3, MadeFacts
  <2>5. <<System, Tools>> \in Chains(W) /\ <<User({"now"})>> \in Chains(W) /\ <<>> \in Chains(W)
    BY <2>4 DEF Chains
  <2>6. SavedPayloads(session.saved) \in Chains(W)
    BY <2>1, SavedFacts
  <2>7. <<User({"now"})>> \o SavedPayloads(session.saved) \in Chains(W)
    BY <2>5, <2>6, PartFacts
  <2>8. InitialHistory \in Chains(W)
    BY <2>5, <2>7 DEF InitialHistory
  <2>9. <<System, Tools>> \o InitialHistory \in Chains(W)
    BY <2>5, <2>8, PartFacts
  <2> QED BY <2>2, <2>9 DEF W
<1>8. ~restored' => past'.notes = {} \/ session'.snap = <<>>
  BY <1>4 DEF IInv, SessionOK, Start
<1> QED BY <1>2, <1>3, <1>4, <1>5, <1>7, <1>8, SaidNext

\* a turn,
LEMMA TurnSays ==
    ASSUME IInv, NewMessage \/ Followup
    PROVE  (ChainOK /\ RequestOK /\ SessionOK)'
<1>0. PartsOK /\ PartsOK' /\ note = {}
  <2>1. [Next]_vars
    BY DEF Next
  <2>2. pc = "ready"
    BY DEF NewMessage, Followup
  <2> QED BY <2>1, <2>2, PartsStep DEF IInv, PartsOK
<1>1. Talks \subseteq Talks' /\ Asks \subseteq Asks' /\ Kept \subseteq Kept'
  <2>1. CASE Followup
    BY <2>1, SameSpeech DEF Followup
  <2>2. CASE NewMessage
    <3>1. MayHaveNote /\ past' = past
      BY <2>2 DEF NewMessage
    <3>2. used \in Counts
      BY <1>0 DEF PartsOK
    <3>3. \/ note' = {} /\ used'.notes = used.notes
          \/ /\ used.notes < Len(Notes)
             /\ note' = {Notes[used.notes + 1]}
             /\ used'.notes = used.notes + 1
      BY <3>1, <3>2 DEF MayHaveNote, Counts
    <3> QED BY <1>0, <3>1, <3>3, NoteStep
  <2> QED BY <2>1, <2>2
<1>2. /\ chain \in Chains(Talks') /\ local \in Chains(Asks') /\ request \in Chains(Asks')
      /\ pre \in [text : SUBSET Talks', saved : BOOLEAN]
      /\ session \in [saved : Entries(Talks'), snap : Chains(Kept'), flag : BOOLEAN]
  BY <1>1, GrowStep
<1>3. session \in Sessions(Talks', Kept') /\ disk = OnDisk(session)
  BY <1>2, SessionFacts
<1>4. Words \subseteq Talks'
  BY <1>0, SpeechFactsNext
<1>5. local' = local /\ request' = request /\ restored' = restored /\ past' = past
  BY DEF NewMessage, Followup
<1>6. Prepare(chain) \in Chains(Talks')
  BY <1>2, <1>4, PrepareFacts
<1>7. chain' \in Chains(Talks') /\ PreSave(chain')
  <2>1. CASE Followup
    BY <1>6, <2>1 DEF Followup
  <2>2. CASE NewMessage
    <3> DEFINE text == {Messages[used.messages + 1]}
               c    == Prepare(AddInput(Prepare(chain), text))
    <3>1. text \in SUBSET Talks'
      <4>1. /\ used.messages \in 0..Len(Messages) /\ used.messages < Len(Messages)
            /\ past.forgotten \in SUBSET Arrived(used.messages)
        BY <1>0, <2>2, CountFacts DEF NewMessage
      <4>2. used'.notes \in Nat /\ past'.notes \in SUBSET ToSet(Notes)
            /\ note' \in SUBSET ToSet(Notes)
        BY <1>0, CountFactsNext
      <4>3. text \in SUBSET Talked(past.forgotten, used'.notes, past'.notes, note')
        BY <4>1, <4>2, MessageFacts
      <4>4. Talks' = Talked(past.forgotten, used'.notes, past'.notes, note')
        BY <1>5 DEF Talks
      <4> QED BY <4>3, <4>4
    <3>2. chain' = c /\ PreSave(c)
      BY <2>2 DEF NewMessage
    <3>0. text \in (SUBSET Talks') \ {{}}
      BY <3>1
    <3> HIDE DEF text
    <3>3. AddInput(Prepare(chain), text) \in Chains(Talks')
      BY <1>6, <3>0, InputFacts
    <3>4. c \in Chains(Talks')
      BY <1>4, <3>3, PrepareFacts
    <3> HIDE DEF c
    <3> QED BY <3>2, <3>4
  <2> QED BY <2>1, <2>2
<1>8. /\ session' \in Sessions(Talks', Kept') /\ disk' = OnDisk(session')
      /\ session'.snap = session.snap
      /\ pre' \in [text : SUBSET Talks', saved : BOOLEAN]
  BY <1>2, <1>3, <1>7, PreSaveFacts
<1>9. ~restored' => past'.notes = {} \/ session'.snap = <<>>
  BY <1>5, <1>8 DEF IInv, SessionOK
<1> QED BY <1>2, <1>5, <1>7, <1>8, <1>9, SaidNext

\* the end of a wait,
LEMMA TimeoutSays ==
    ASSUME IInv, Timeout
    PROVE  (ChainOK /\ RequestOK /\ SessionOK)'
<1>0. PartsOK /\ PartsOK' /\ note = {}
  <2>1. [Next]_vars
    BY DEF Next
  <2>2. pc = "ready"
    BY DEF Timeout
  <2> QED BY <2>1, <2>2, PartsStep DEF IInv, PartsOK
<1>1. Talks \subseteq Talks' /\ Asks \subseteq Asks' /\ Kept \subseteq Kept'
  <2>1. used \in Counts
    BY <1>0 DEF PartsOK
  <2>2. /\ used.notes < Len(Notes) /\ past' = past
        /\ note' = {Notes[used.notes + 1]}
        /\ used'.notes = used.notes + 1
    BY <2>1 DEF Timeout, Counts
  <2> QED BY <1>0, <2>2, NoteStep
<1>2. /\ chain \in Chains(Talks') /\ local \in Chains(Asks') /\ request \in Chains(Asks')
      /\ pre \in [text : SUBSET Talks', saved : BOOLEAN]
      /\ session \in [saved : Entries(Talks'), snap : Chains(Kept'), flag : BOOLEAN]
  BY <1>1, GrowStep
<1>3. session \in Sessions(Talks', Kept') /\ disk = OnDisk(session)
  BY <1>2, SessionFacts
<1>4. Words \subseteq Talks'
  BY <1>0, SpeechFactsNext
<1>5. local' = local /\ request' = request /\ restored' = restored /\ past' = past
      /\ session' = session /\ disk' = disk /\ pre' = pre
  BY DEF Timeout
<1>6. chain' \in Chains(Talks')
  <2>1. Prepare(chain) \in Chains(Talks')
    BY <1>2, <1>4, PrepareFacts
  <2>2. WithSuspend(Prepare(chain)) \in Chains(Talks')
    BY <1>4, <2>1, SuspendFacts
  <2>3. Prepare(WithSuspend(Prepare(chain))) \in Chains(Talks')
    BY <1>4, <2>2, PrepareFacts
  <2> QED BY <2>3 DEF Timeout
<1>7. ~restored' => past'.notes = {} \/ session'.snap = <<>>
  BY <1>5 DEF IInv, SessionOK
<1> QED BY <1>2, <1>3, <1>5, <1>6, <1>7, SaidNext

\* a request,
LEMMA AttemptSays ==
    ASSUME IInv, Attempt
    PROVE  (ChainOK /\ RequestOK /\ SessionOK)'
<1> DEFINE c == Prepare(IF loop.tries = 0 THEN chain ELSE local)
           s == [session EXCEPT !.snap = Capture(Sent(c)), !.flag = @ \/ ~restored]
<1>0. PartsOK /\ past \in Pasts
  BY DEF IInv, PartsOK
<1>1. Talks' = Talks /\ Asks' = Asks /\ Kept' = Kept
  <2> DEFINE f == past.forgotten
             n == used.notes
             p == past.notes
             t == note
  <2>1. f \in SUBSET ToSet(Messages) /\ n \in Nat /\ p \in SUBSET ToSet(Notes)
        /\ t \in SUBSET ToSet(Notes)
    BY <1>0, CountFacts
  <2>2. used' = used /\ note' = note /\ past'.forgotten = f /\ past'.notes = p \cup t
    BY <1>0 DEF Attempt, Pasts
  <2>3. /\ Talks = Talked(f, n, p, t) /\ Talks' = Talked(f, n, p \cup t, t)
        /\ Asks = Asked(f, n, p, t) /\ Asks' = Asked(f, n, p \cup t, t)
        /\ Kept = Snapped(f, n) /\ Kept' = Snapped(f, n)
    BY <2>2 DEF Talks, Asks, Kept
  <2> HIDE DEF f, n, p, t
  <2>4. Talked(f, n, p \cup t, t) = Talked(f, n, p, t)
    BY DEF Talked
  <2>5. Asked(f, n, p \cup t, t) = Asked(f, n, p, t)
    BY DEF Asked
  <2> QED BY <2>3, <2>4, <2>5
<1>2. /\ chain \in Chains(Talks) /\ local \in Chains(Asks)
      /\ pre \in [text : SUBSET Talks, saved : BOOLEAN]
      /\ session \in [saved : Entries(Talks), snap : Chains(Kept), flag : BOOLEAN]
      /\ Len(session.saved) <= MaxSaved
      /\ ~restored => past.notes = {} \/ session.snap = <<>>
  BY DEF IInv, ChainOK, RequestOK, SessionOK
<1>3. /\ Words \subseteq Talks /\ Words \subseteq Asks /\ Words \subseteq Kept
      /\ Talks \subseteq Asks /\ Asks \subseteq Kept /\ note \subseteq Asks
      /\ past.notes = {} => Asks = Kept
  BY <1>0, SpeechFacts
<1>4. /\ chain' = (IF loop.tries = 0 THEN c ELSE chain)
      /\ local' = c /\ request' = Sent(c) /\ session' = s /\ disk' = OnDisk(s)
      /\ restored' = TRUE /\ pre' = pre
  BY DEF Attempt, Save
<1>5. chain' \in Chains(Talks)
  <2>1. Prepare(chain) \in Chains(Talks)
    BY <1>2, <1>3, PrepareFacts
  <2> QED BY <1>2, <1>4, <2>1
<1>6. c \in Chains(Asks)
  <2>1. chain \in Chains(Asks)
    BY <1>2, <1>3, LinesGrow
  <2> QED BY <1>2, <1>3, <2>1, PrepareFacts
<1> HIDE DEF c
<1>7. Sent(c) \in Chains(Asks)
  <2>1. View(c) \in Chains(Asks)
    <3>1. note # {} => User(note) \in Lines(Asks)
      <4>1. note # {} => note \in (SUBSET Asks) \ {{}}
        BY <1>3
      <4> QED BY <4>1, MadeFacts
    <3>2. note # {} => Append(c, User(note)) \in Chains(Asks)
      BY <1>6, <3>1, ChainFacts
    <3> QED BY <1>6, <3>2 DEF View
  <2>2. WithHistory(View(c)) \in Chains(Asks)
    <3>1. CASE restored
      BY <2>1, <3>1 DEF WithHistory
    <3>2. CASE ~restored
      <4>1. session.snap \in Chains(Asks)
        <5>1. CASE session.snap = <<>>
          <6>1. <<>> \in Chains(Asks)
            BY DEF Chains
          <6> QED BY <5>1, <6>1
        <5>2. CASE past.notes = {}
          BY <1>2, <1>3, <5>2
        <5> QED BY <1>2, <3>2, <5>1, <5>2
      <4>2. Restore(session.snap) \in Chains(Asks)
        BY <1>3, <4>1, RestoreFacts
      <4>3. Inject(View(c), Restore(session.snap)) \in Chains(Asks)
        BY <2>1, <4>2, InjectFacts
      <4> QED BY <3>2, <4>3 DEF WithHistory
    <3> QED BY <3>1, <3>2
  <2>3. Repair(WithHistory(View(c))) \in Chains(Asks)
    BY <1>3, <2>2, RepairFacts
  <2> QED BY <2>3 DEF Sent
<1>8. s \in Sessions(Talks, Kept)
  <2> DEFINE snap == Capture(Sent(c))
             flag == session.flag \/ ~restored
  <2>1. snap \in Chains(Asks)
    BY <1>7, CaptureFacts
  <2>2. snap \in Chains(Kept)
    BY <1>3, <2>1, LinesGrow
  <2>3. s = [session EXCEPT !.snap = snap, !.flag = flag]
    OBVIOUS
  <2>4. flag \in BOOLEAN
    OBVIOUS
  <2> HIDE DEF snap, flag, s
  <2>5. s = [saved |-> session.saved, snap |-> snap, flag |-> flag]
    BY <1>2, <2>3
  <2> QED BY <1>2, <2>2, <2>4, <2>5 DEF Sessions
<1> HIDE DEF s
<1> QED BY <1>1, <1>2, <1>4, <1>5, <1>6, <1>7, <1>8, SaidNext

\* one that fails,
LEMMA FailSays ==
    ASSUME IInv, Fail
    PROVE  (ChainOK /\ RequestOK /\ SessionOK)'
<1>0. PartsOK /\ used \in Counts /\ past \in Pasts
  BY DEF IInv, PartsOK
<1>1. /\ used'.notes = used.notes /\ past'.notes = past.notes
      /\ past'.forgotten = past.forgotten /\ note' = {}
  BY <1>0 DEF Fail, Fault, NoRequest, Counts, Pasts
<1>2. Talks \subseteq Talks' /\ Kept' = Kept /\ (note = {} => Asks \subseteq Talks')
  BY <1>1 DEF Talks, Kept, Asks, Talked, Asked
<1>3. /\ chain \in Chains(Talks) /\ request \in Chains(Asks)
      /\ session.saved \in Entries(Talks)
  BY DEF IInv, ChainOK, RequestOK, SessionOK
<1>4. chain' \in Chains(Talks')
  <2>1. chain \in Chains(Talks')
    BY <1>2, <1>3, LinesGrow
  <2>2. note = {} => request \in Chains(Talks')
    BY <1>2, <1>3, LinesGrow
  <2>3. chain' = chain \/ (note = {} /\ chain' = request)
    BY DEF Fail
  <2> QED BY <2>1, <2>2, <2>3
<1>5. /\ local' = <<>> /\ request' = <<>> /\ pre' = pre /\ session' = session /\ disk' = disk
      /\ restored' = restored
  BY DEF Fail, NoRequest
<1>6. local' \in Chains(Asks') /\ request' \in Chains(Asks')
  BY <1>5 DEF Chains
<1>7. /\ pre \in [text : SUBSET Talks', saved : BOOLEAN]
      /\ session \in [saved : Entries(Talks'), snap : Chains(Kept'), flag : BOOLEAN]
  BY <1>2, GrowFacts DEF IInv
<1>8. session \in Sessions(Talks', Kept') /\ disk = OnDisk(session)
  BY <1>7, SessionFacts
<1>9. ~restored' => past'.notes = {} \/ session'.snap = <<>>
  BY <1>1, <1>5 DEF IInv, SessionOK
<1> QED BY <1>4, <1>5, <1>6, <1>7, <1>8, <1>9, SaidNext

\* a text that is sent back,
LEMMA TextSays ==
    ASSUME IInv, AnswerText
    PROVE  (ChainOK /\ RequestOK /\ SessionOK)'
<1>0. PartsOK
  BY DEF IInv
<1>1. Talks' = Talks /\ Asks' = Asks /\ Kept' = Kept
  BY SameSpeech DEF AnswerText
<1>2. /\ chain \in Chains(Talks') /\ request \in Chains(Asks')
      /\ pre \in [text : SUBSET Talks', saved : BOOLEAN]
      /\ session \in [saved : Entries(Talks'), snap : Chains(Kept'), flag : BOOLEAN]
  BY <1>1, GrowStep
<1>3. session \in Sessions(Talks', Kept') /\ disk = OnDisk(session)
  BY <1>2, SessionFacts
<1>4. Words \subseteq Asks'
  BY <1>0, <1>1, SpeechFacts
<1> DEFINE answer == Assistant({"said"}, {})
           c == Append(request, answer)
<1>5. answer \in Lines(Asks')
  <2>1. {"said"} \in SUBSET Asks' /\ {} \in SUBSET CallIds /\ {"said"} \subseteq Words
    BY <1>4 DEF Words
  <2> QED BY <2>1, MadeFacts
<1>6. local' = WithDraft(c)
  BY DEF AnswerText
<1>12. answer.role = "assistant"
  BY DEF Assistant, Payload
<1> HIDE DEF answer
<1>7. c \in Chains(Asks') /\ c # <<>> /\ c[Len(c)].role = "assistant"
  <2>1. c \in Chains(Asks')
    BY <1>2, <1>5, ChainFacts
  <2>2. Len(c) = Len(request) + 1 /\ Len(request) \in Nat /\ c[Len(request) + 1] = answer
    BY <1>2, <1>5, AppendProperties, LenProperties DEF Chains
  <2>3. c # <<>>
    BY <2>2, EmptySeq
  <2> QED BY <1>12, <2>1, <2>2, <2>3
<1> HIDE DEF c
<1>8. local' \in Chains(Asks')
  BY <1>4, <1>6, <1>7, DraftFacts
<1>9. /\ chain' = chain /\ request' = <<>> /\ pre' = pre /\ session' = session /\ disk' = disk
      /\ restored' = restored /\ past' = past
  BY DEF AnswerText
<1>10. request' \in Chains(Asks')
  BY <1>9 DEF Chains
<1>11. ~restored' => past'.notes = {} \/ session'.snap = <<>>
  BY <1>9 DEF IInv, SessionOK
<1> QED BY <1>2, <1>3, <1>8, <1>9, <1>10, <1>11, SaidNext

\* an answer, of which the note is taken out,
LEMMA AnswerSays ==
    ASSUME IInv, NEW text \in SUBSET Words, NEW ids \in SUBSET CallIds, Answer(text, ids)
    PROVE  (ChainOK /\ RequestOK /\ SessionOK)'
<1>0. PartsOK /\ used \in Counts /\ past \in Pasts
  BY DEF IInv, PartsOK
<1>1. /\ used'.notes = used.notes /\ past'.notes = past.notes
      /\ past'.forgotten = past.forgotten /\ note' = {}
  BY <1>0 DEF Answer, NoRequest, Counts, Pasts
<1>2. Talks \subseteq Talks' /\ Kept' = Kept
  BY <1>1 DEF Talks, Kept, Talked
<1>3. Words \subseteq Asks /\ Words \subseteq Talks /\ Talks = Asks \ note
  BY <1>0, SpeechFacts
<1> DEFINE c == Append(request, Assistant(text, ids))
<1>4. c \in Chains(Asks)
  <2>1. request \in Chains(Asks)
    BY DEF IInv, RequestOK
  <2>2. Assistant(text, ids) \in Lines(Asks)
    BY <1>3, MadeFacts
  <2> QED BY <2>1, <2>2, ChainFacts
<1>5. chain' = Repair(IF note = {} THEN c ELSE Strip(c, note))
  BY DEF Answer, Continued
<1> HIDE DEF c
<1>6. (IF note = {} THEN c ELSE Strip(c, note)) \in Chains(Talks)
  <2>1. CASE note = {}
    <3>1. Talks = Asks
      BY <1>3, <2>1
    <3> QED BY <1>4, <2>1, <3>1
  <2>2. CASE note # {}
    <3>1. Words \subseteq Asks \ note
      BY <1>3
    <3>2. Strip(c, note) \in Chains(Asks \ note)
      BY <1>4, <3>1, StripFacts
    <3> QED BY <1>3, <2>2, <3>2
  <2> QED BY <2>1, <2>2
<1>7. chain' \in Chains(Talks')
  <2>1. Repair(IF note = {} THEN c ELSE Strip(c, note)) \in Chains(Talks)
    BY <1>3, <1>6, RepairFacts
  <2> QED BY <1>2, <1>5, <2>1, LinesGrow
<1>8. /\ local' = <<>> /\ request' = <<>> /\ pre' = pre /\ session' = session /\ disk' = disk
      /\ restored' = restored
  BY DEF Answer, NoRequest
<1>9. local' \in Chains(Asks') /\ request' \in Chains(Asks')
  BY <1>8 DEF Chains
<1>10. /\ pre \in [text : SUBSET Talks', saved : BOOLEAN]
       /\ session \in [saved : Entries(Talks'), snap : Chains(Kept'), flag : BOOLEAN]
  BY <1>2, GrowFacts DEF IInv
<1>11. session \in Sessions(Talks', Kept') /\ disk = OnDisk(session)
  BY <1>10, SessionFacts
<1>12. ~restored' => past'.notes = {} \/ session'.snap = <<>>
  BY <1>1, <1>8 DEF IInv, SessionOK
<1> QED BY <1>7, <1>8, <1>9, <1>10, <1>11, <1>12, SaidNext

\* the calls and the decision,
LEMMA DecisionSays ==
    ASSUME IInv, Execute \/ EmptyReply \/ CommitTools \/ CommitWait
    PROVE  (ChainOK /\ RequestOK /\ SessionOK)'
<1>0. PartsOK
  BY DEF IInv
<1>1. Talks' = Talks /\ Asks' = Asks /\ Kept' = Kept
  BY SameSpeech DEF Execute, EmptyReply, CommitTools, CommitWait
<1>2. /\ chain \in Chains(Talks') /\ local \in Chains(Asks') /\ request \in Chains(Asks')
      /\ pre \in [text : SUBSET Talks', saved : BOOLEAN]
      /\ session \in [saved : Entries(Talks'), snap : Chains(Kept'), flag : BOOLEAN]
  BY <1>1, GrowStep
<1>3. session \in Sessions(Talks', Kept') /\ disk = OnDisk(session)
  BY <1>2, SessionFacts
<1>4. Words \subseteq Talks'
  BY <1>0, <1>1, SpeechFacts
<1>5. local' = local /\ request' = request /\ pre' = pre /\ restored' = restored /\ past' = past
  BY DEF Execute, EmptyReply, CommitTools, CommitWait
<1>6. chain' \in Chains(Talks')
  <2>1. CASE Execute
    <3>1. OpenCalls \in SUBSET CallIds
      <4>1. CASE chain # <<>>
        <5>1. Len(chain) \in Nat \ {0}
          BY <1>2, <4>1, EmptySeq DEF Chains
        <5>2. Len(chain) \in 1..Len(chain)
          BY <5>1
        <5>3. Last(chain) \in Lines(Talks')
          BY <1>2, <5>2, ChainFacts DEF Last
        <5>4. Last(chain).calls \in SUBSET CallIds
          BY <5>3, ChangedFacts
        <5> QED BY <5>4 DEF OpenCalls
      <4>2. CASE chain = <<>>
        BY <4>2 DEF OpenCalls
      <4> QED BY <4>1, <4>2
    <3>2. PICK failed \in SUBSET OpenCalls, off \in SUBSET OpenCalls :
             \E refused \in SUBSET off :
                chain' = Executed((OpenCalls \ (failed \cup off)) \cup refused, failed, off)
      BY <2>1 DEF Execute
    <3>3. PICK done \in SUBSET CallIds : chain' = Executed(done, failed, off)
      <4>1. PICK refused \in SUBSET off :
               chain' = Executed((OpenCalls \ (failed \cup off)) \cup refused, failed, off)
        BY <3>2
      <4>2. (OpenCalls \ (failed \cup off)) \cup refused \in SUBSET CallIds
        BY <3>1, <3>2
      <4> QED BY <4>1, <4>2
    <3> DEFINE c == IF done = {} THEN chain ELSE Append(chain, Result(done))
    <3>4. c \in Chains(Talks')
      <4>1. Result(done) \in Lines(Talks')
        BY <3>3, MadeFacts
      <4> QED BY <1>2, <4>1, ChainFacts
    <3>5. chain' = RemoveCalls(RemoveCalls(c, off), failed)
      BY <3>3 DEF Executed
    <3> HIDE DEF c
    <3>6. RemoveCalls(c, off) \in Chains(Talks')
      BY <3>4, RemoveFacts
    <3>7. RemoveCalls(RemoveCalls(c, off), failed) \in Chains(Talks')
      BY <3>6, RemoveFacts
    <3> QED BY <3>5, <3>7
  <2>2. CASE EmptyReply
    <3>1. PICK ids : chain' = Prepare(Append(Prepare(PurgeReply(chain, ids)), User({"retry"})))
      BY <2>2 DEF EmptyReply
    <3>2. PurgeReply(chain, ids) \in Chains(Talks')
      BY <1>2, PurgeFacts
    <3> DEFINE c == Prepare(PurgeReply(chain, ids))
    <3>3. c \in Chains(Talks')
      BY <1>4, <3>2, PrepareFacts
    <3> HIDE DEF c
    <3>4. User({"retry"}) \in Lines(Talks')
      <4>1. {"retry"} \in SUBSET Talks'
        BY <1>4 DEF Words
      <4> QED BY <4>1, MadeFacts
    <3>5. Append(c, User({"retry"})) \in Chains(Talks')
      BY <3>3, <3>4, ChainFacts
    <3>6. Prepare(Append(c, User({"retry"}))) \in Chains(Talks')
      BY <1>4, <3>5, PrepareFacts
    <3> QED BY <3>1, <3>6 DEF c
  <2>3. CASE CommitTools
    BY <1>2, <2>3 DEF CommitTools
  <2>4. CASE CommitWait
    <3>1. WithSuspend(chain) \in Chains(Talks')
      BY <1>2, <1>4, SuspendFacts
    <3> QED BY <2>4, <3>1 DEF CommitWait
  <2> QED BY <2>1, <2>2, <2>3, <2>4
<1>7. /\ session' \in Sessions(Talks', Kept') /\ disk' = OnDisk(session')
      /\ session'.snap = session.snap
  <2>1. CASE CommitWait
    <3>1. PICK visible \in BOOLEAN : Reply(visible)
      BY <2>1 DEF CommitWait
    <3> QED BY <1>2, <1>3, <1>4, <3>1, ReplyFacts
  <2>2. CASE Execute \/ EmptyReply \/ CommitTools
    <3>1. session' = session /\ disk' = disk
      BY <2>2 DEF Execute, EmptyReply, CommitTools
    <3> QED BY <1>3, <3>1
  <2> QED BY <2>1, <2>2
<1>8. ~restored' => past'.notes = {} \/ session'.snap = <<>>
  BY <1>5, <1>7 DEF IInv, SessionOK
<1> QED BY <1>2, <1>5, <1>6, <1>7, <1>8, SaidNext

\* and the ends of execute(), of the history and of the process.
LEMMA EndSays ==
    ASSUME IInv, CommitStop \/ GiveUp \/ Clear \/ Crash
    PROVE  (ChainOK /\ RequestOK /\ SessionOK)'
<1>0. PartsOK /\ used \in Counts /\ past \in Pasts
  BY DEF IInv, PartsOK
<1>1. End /\ note' = {} /\ used'.notes = used.notes
  BY <1>0 DEF CommitStop, GiveUp, Clear, Crash, End, NoRequest, Fault, Counts
<1>2. Words \subseteq Talks
  BY <1>0, SpeechFacts
<1>3. CASE CommitStop \/ GiveUp
  <2>1. /\ past'.notes = past.notes /\ past'.forgotten = past.forgotten
        /\ restored' = restored
    BY <1>0, <1>3 DEF CommitStop, GiveUp, Pasts
  <2>2. Talks \subseteq Talks' /\ Kept' = Kept
    BY <1>1, <2>1 DEF Talks, Kept, Talked
  <2>3. /\ pre \in [text : SUBSET Talks', saved : BOOLEAN]
        /\ session \in [saved : Entries(Talks'), snap : Chains(Kept'), flag : BOOLEAN]
    BY <2>2, GrowFacts DEF IInv
  <2>4. session \in Sessions(Talks', Kept') /\ disk = OnDisk(session)
    BY <2>3, SessionFacts
  <2>5. /\ session' \in Sessions(Talks', Kept') /\ disk' = OnDisk(session')
        /\ session'.snap = session.snap
    <3>1. CASE CommitStop
      <4>1. PICK visible \in BOOLEAN : Reply(visible)
        BY <3>1 DEF CommitStop
      <4>2. Words \subseteq Talks'
        BY <1>2, <2>2
      <4> QED BY <2>3, <2>4, <4>1, <4>2, ReplyFacts
    <3>2. CASE GiveUp
      <4>1. session' = session /\ disk' = disk
        BY <3>2 DEF GiveUp
      <4> QED BY <2>4, <4>1
    <3> QED BY <1>3, <3>1, <3>2
  <2>6. ~restored' => past'.notes = {} \/ session'.snap = <<>>
    BY <2>1, <2>5 DEF IInv, SessionOK
  <2> QED BY <1>1, <2>5, <2>6, EndNext
<1>4. CASE Clear
  <2>1. session' = NewSession /\ disk' = OnDisk(NewSession)
    BY <1>4 DEF Clear, Save, Cleared
  <2>2. \A W : <<>> \in Entries(W) /\ <<>> \in Chains(W)
    BY DEF Entries, Chains
  <2>3. NewSession \in Sessions(Talks', Kept') /\ NewSession.snap = <<>>
    <3>1. Len(<<>>) <= MaxSaved
      BY RequestsAssumption
    <3> QED BY <2>2, <3>1 DEF NewSession, Sessions
  <2> QED BY <1>1, <2>1, <2>3, EndNext
<1>5. CASE Crash
  <2>1. past'.notes = {} /\ past'.forgotten = past.forgotten
    BY <1>0, <1>5 DEF Crash, Pasts
  <2>2. Talks \subseteq Talks' /\ Kept' = Kept
    BY <1>1, <2>1 DEF Talks, Kept, Talked
  <2>3. session \in [saved : Entries(Talks'), snap : Chains(Kept'), flag : BOOLEAN]
    BY <2>2, GrowFacts DEF IInv
  <2>4. session \in Sessions(Talks', Kept') /\ disk = OnDisk(session)
    BY <2>3, SessionFacts
  <2>5. session' = [saved |-> session.saved, snap |-> session.snap, flag |-> FALSE] /\ disk' = disk
    BY <1>5, <2>4 DEF Crash, OnDisk
  <2>6. session' \in Sessions(Talks', Kept') /\ disk' = OnDisk(session')
    BY <2>4, <2>5 DEF Sessions, OnDisk
  <2> QED BY <1>1, <2>1, <2>6, EndNext
<1> QED BY <1>3, <1>4, <1>5
-----------------------------------------------------------------------------
(* What a request is, and what becomes of the answer to it                 *)

\* The request of a settled chain in which the model has not the last word, or
\* with a note.
LEMMA SentFacts ==
    ASSUME NEW W, Words \subseteq W, note \in SUBSET W, NEW c \in Chains(W),
           Settled(c), Fronted(c), Greets(c, note),
           LastRole(c) \in {"user", "result"} \/ note # {},
           restored \/ \E V \in SUBSET W : /\ Words \subseteq V /\ V \cap note = {}
                                           /\ session.snap \in Chains(V)
    PROVE  Sent(c) \in Chains(W) /\ Ready(Sent(c), note)
<1> DEFINE v == View(c)
           h == WithHistory(v)
<1>1. v \in Chains(W) /\ Ready(v, note)
  <2> DEFINE u == User(note)
  <2>1. CASE note = {}
    BY <2>1 DEF View, Ready
  <2>2. CASE note # {}
    <3>1. u \in Lines(W) /\ u.role = "user" /\ u.calls = {} /\ ~IsPinned(u)
      <4>1. note \in (SUBSET W) \ {{}}
        BY <2>2
      <4> QED BY <4>1, MadeFacts DEF User, Payload, IsPinned
    <3>2. v = Append(c, u)
      BY <2>2 DEF View
    <3> HIDE DEF u, v
    <3>3. v \in Chains(W)
      BY <3>1, <3>2, ChainFacts
    <3>4. Follows(v) /\ Owned(v) /\ Met(v, {}, 0)
      BY <3>1, <3>2, AppendSettles DEF Settled
    <3>5. InOrder(c, v) /\ Greets(v, note)
      BY <3>1, <3>2, AppendOrder
    <3>6. LastRole(v) = "user"
      BY <3>1, <3>2, LastAppend
    <3> QED BY <3>3, <3>4, <3>5, <3>6 DEF Ready, Settled, InOrder
  <2> QED BY <2>1, <2>2
<1> HIDE DEF v
<1>2. h \in Chains(W) /\ Ready(h, note)
  <2>1. CASE restored
    BY <1>1, <2>1 DEF WithHistory
  <2>2. CASE ~restored
    <3> DEFINE d == Restore(session.snap)
    <3>1. PICK V \in SUBSET W : Words \subseteq V /\ V \cap note = {} /\ session.snap \in Chains(V)
      BY <2>2
    <3>2. d \in Chains(V) /\ Loose(d) /\ (d # <<>> => d[1].role = "user")
      BY <3>1, RestoreOrder
    <3>3. Settled(d)
      BY <3>1, RestoreSettles
    <3>4. h = Inject(v, d)
      BY <2>2 DEF WithHistory
    <3> HIDE DEF d, h
    <3>5. d \in Chains(W)
      BY <3>2, LinesGrow
    <3>6. d # <<>> => d[1].text \cap note = {}
      <4> SUFFICES ASSUME d # <<>> PROVE d[1].text \cap note = {}
        OBVIOUS
      <4>1. Len(d) \in Nat /\ d \in Seq(Lines(V)) /\ \A i \in 1..Len(d) : d[i] \in Lines(V)
        BY <3>2, ChainFacts
      <4>2. 1 \in 1..Len(d)
        BY <4>1
      <4>3. d[1] \in Lines(V)
        BY <4>1, <4>2
      <4>4. d[1].text \in SUBSET V
        BY <4>3, ChangedFacts
      <4> QED BY <3>1, <4>4
    <3>7. h \in Chains(W)
      BY <1>1, <3>4, <3>5, InjectFacts
    <3>8. Settled(h)
      BY <1>1, <3>3, <3>4, <3>5, InjectSettles DEF Ready
    <3>9. Fronted(h) /\ Greets(h, note) /\ LastRole(h) = LastRole(v)
      <4>1. Fronted(v) /\ Greets(v, note)
        BY <1>1 DEF Ready
      <4> QED BY <1>1, <3>2, <3>4, <3>5, <3>6, <4>1, InjectOrder
    <3> QED BY <1>1, <3>7, <3>8, <3>9 DEF Ready
  <2> QED BY <2>1, <2>2
<1> HIDE DEF h
<1> DEFINE r == Repair(h)
           I == {i \in DOMAIN h : ~IsSuspend(h[i])}
<1>3. Sent(c) = r
  BY DEF Sent, h, v
<1>4. r = Only(h, I) /\ Settled(r)
  BY <1>2, SettledRepaired DEF Ready, Those
<1>5. r \in Chains(W)
  BY <1>2, RepairFacts
<1>6. DOMAIN h = 1..Len(h) /\ I \in SUBSET (1..Len(h)) /\ Len(h) \in Nat
  BY <1>2, ChainFacts
<1>7. PICK g \in 1..Len(h) : /\ h[g].role = "user" /\ h[g].text \cap note = {}
                             /\ \A k \in 1..(g - 1) : IsPinned(h[k])
  BY <1>2 DEF Ready, Greets
<1>8. g \in I
  BY <1>6, <1>7 DEF IsSuspend
<1>9. \A i \in (1..Len(h)) \ I : h[i].role = "assistant"
  BY <1>6 DEF IsSuspend
<1> HIDE DEF r, I
<1>10. Fronted(r)
  BY <1>2, <1>4, <1>6, OnlyOrder DEF Ready
<1>11. Greets(r, note)
  BY <1>2, <1>4, <1>6, <1>7, <1>8, OnlyOrder
<1>12. LastRole(r) = LastRole(h)
  BY <1>2, <1>4, <1>6, <1>9, OnlyOrder DEF Ready
<1> QED BY <1>2, <1>3, <1>4, <1>5, <1>10, <1>11, <1>12 DEF Ready

\* Without the markers, and with whoever spoke twice in a row apart, a chain says
\* and calls what it did.
LEMMA CleanKeeps ==
    ASSUME NEW W, Words \subseteq W, NEW c \in Chains(W)
    PROVE  LET z == Cleaned(c)
           IN  z \in Chains(W) /\ Said(c) \subseteq Said(z) /\ Groups(z) = Groups(c)
<1> DEFINE q == Unmarked(c)
<1>1. q \in Chains(W) /\ Said(q) = Said(c) /\ Groups(q) = Groups(c)
  BY UnmarkedKeeps
<1> HIDE DEF q
<1>2. LET z == Folded(Rejoin, <<>>, q)
      IN  z \in Chains(W) /\ Said(q) \subseteq Said(z) /\ Groups(z) = Groups(q)
  BY <1>1, RejoinedKeeps
<1> QED BY <1>1, <1>2 DEF q, Cleaned

\* After the calls of a request all that was said in it, but for the note, is in the
\* chain, and all its turns;
LEMMA ContinuedCallsKeep ==
    ASSUME NEW W, Words \subseteq W, note \cap Words = {}, NEW c \in Chains(W), Ready(c, note),
           NEW m, Bare(c, note, m), NEW ids \in SUBSET CallIds, ids # {}
    PROVE  \E y \in Chains(W) :
              /\ Ready(y, {}) /\ Continued(c, {}, ids) = Append(y, Assistant({}, ids))
              /\ Said(c) \cap m \subseteq Said(y) /\ Groups(y) = Groups(c)
<1> DEFINE p == Assistant({}, ids)
<1>1. /\ p \in Lines(W) /\ p.role = "assistant" /\ HasCalls(p) /\ p.text = {} /\ ~IsSuspend(p)
  <2>1. {} \in SUBSET W /\ {} \subseteq Words
    OBVIOUS
  <2>2. p \in Lines(W)
    BY <2>1, MadeFacts
  <2> QED BY <2>2 DEF Assistant, Payload, HasCalls, IsSuspend
<1>2. Continued(c, {}, ids) = Repair(IF note = {} THEN Append(c, p) ELSE Strip(Append(c, p), note))
  BY DEF Continued
<1> HIDE DEF p
<1>3. ASSUME NEW z \in Chains(W), Settled(z), Fronted(z), Greets(z, {})
      PROVE  \E y \in Chains(W) : /\ Ready(y, {}) /\ Rejoin(z, p) = Append(y, p)
                                  /\ Said(z) \subseteq Said(y) /\ Groups(y) = Groups(z)
  <2>1. PICK y \in Chains(W) : Ready(y, {}) /\ Rejoin(z, p) = Append(y, p) /\ y \in {z, Append(z, Bridge)}
    BY <1>1, <1>3, RejoinCalls
  <2>2. Bridge \in Lines(W) /\ ~HasCalls(Bridge)
    BY MadeFacts DEF Bridge, User, Payload, HasCalls
  <2>3. Said(Append(z, Bridge)) = Said(z) \cup (IF Bridge.role = "user" THEN Bridge.text ELSE {})
    BY <2>2, SaidAppend
  <2>4. Groups(Append(z, Bridge)) = Groups(z)
    BY <2>2, GroupsAppend
  <2>5. Said(z) \subseteq Said(y) /\ Groups(y) = Groups(z)
    BY <2>1, <2>3, <2>4
  <2> QED BY <2>1, <2>5
<1>4. ASSUME NEW y \in Chains(W), Ready(y, {})
      PROVE  \E x \in Chains(W) : /\ Ready(x, {}) /\ Repair(Append(y, p)) = Append(x, p)
                                  /\ Said(y) \subseteq Said(x) /\ Groups(x) = Groups(y)
  <2> DEFINE z == Cleaned(y)
  <2>1. Owned(y) /\ Met(y, {}, 0) /\ Fronted(y) /\ Greets(y, {})
    BY <1>4 DEF Ready, Settled
  <2>2. /\ z \in Chains(W) /\ Settled(z) /\ Fronted(z) /\ Greets(z, {})
        /\ Repair(Append(y, p)) = Rejoin(z, p)
    BY <1>1, <2>1, RepairAppend
  <2>3. Said(y) \subseteq Said(z) /\ Groups(z) = Groups(y)
    BY CleanKeeps
  <2> HIDE DEF z
  <2>4. PICK x \in Chains(W) : /\ Ready(x, {}) /\ Rejoin(z, p) = Append(x, p)
                               /\ Said(z) \subseteq Said(x) /\ Groups(x) = Groups(z)
    BY <1>3, <2>2
  <2> QED BY <2>2, <2>3, <2>4
<1>5. CASE note = {}
  <2>1. Ready(c, {})
    BY <1>5
  <2>2. PICK x \in Chains(W) : /\ Ready(x, {}) /\ Repair(Append(c, p)) = Append(x, p)
                               /\ Said(c) \subseteq Said(x) /\ Groups(x) = Groups(c)
    BY <1>4, <2>1
  <2>3. Said(c) \cap m \subseteq Said(x)
    BY <2>2
  <2> QED BY <1>2, <1>5, <2>2, <2>3 DEF p
<1>6. CASE note # {}
  <2> DEFINE q == Without(c, note)
             z == Cleaned(q)
  <2>1. /\ z \in Chains(W) /\ Settled(z) /\ Fronted(z) /\ Greets(z, {})
        /\ Strip(Append(c, p), note) = Rejoin(z, p)
    <3>1. p.text \cap note = {}
      BY <1>1
    <3> QED BY <1>1, <3>1, StripAppend
  <2>2. q \in Chains(W) /\ Said(c) \cap m \subseteq Said(q) /\ Groups(q) = Groups(c)
    BY BareKeeps
  <2> HIDE DEF q
  <2>3. Said(q) \subseteq Said(z) /\ Groups(z) = Groups(q)
    BY <2>2, CleanKeeps
  <2> HIDE DEF z
  <2>4. PICK y \in Chains(W) : /\ Ready(y, {}) /\ Rejoin(z, p) = Append(y, p)
                               /\ Said(z) \subseteq Said(y) /\ Groups(y) = Groups(z)
    BY <1>3, <2>1
  <2>5. PICK x \in Chains(W) : /\ Ready(x, {}) /\ Repair(Append(y, p)) = Append(x, p)
                               /\ Said(y) \subseteq Said(x) /\ Groups(x) = Groups(y)
    BY <1>4, <2>4
  <2>6. Said(c) \cap m \subseteq Said(x) /\ Groups(x) = Groups(c)
    BY <2>2, <2>3, <2>4, <2>5
  <2>7. Continued(c, {}, ids) = Append(x, p)
    BY <1>2, <1>6, <2>1, <2>4, <2>5
  <2> QED BY <2>5, <2>6, <2>7 DEF p
<1> QED BY <1>5, <1>6

\* and after its text, which comes last.
LEMMA ContinuedSaidKeeps ==
    ASSUME NEW W, Words \subseteq W, note \cap Words = {}, NEW c \in Chains(W), Ready(c, note),
           NEW m, Bare(c, note, m)
    PROVE  LET d == Continued(c, {"said"}, {})
           IN  /\ d \in Chains(W) /\ Spoke(d)
               /\ Said(c) \cap m \subseteq Said(d) /\ Groups(d) = Groups(c)
<1> DEFINE p == Assistant({"said"}, {})
<1>1. /\ p \in Lines(W) /\ p.role = "assistant" /\ p.calls = {} /\ p.text = {"said"} /\ ~IsSuspend(p)
      /\ ~HasCalls(p)
  <2>1. {"said"} \in SUBSET W /\ {"said"} \subseteq Words /\ {} \in SUBSET CallIds
    BY DEF Words
  <2>2. p \in Lines(W)
    BY <2>1, MadeFacts
  <2> QED BY <2>2 DEF Assistant, Payload, IsSuspend, HasCalls
<1>2. Continued(c, {"said"}, {}) = Repair(IF note = {} THEN Append(c, p) ELSE Strip(Append(c, p), note))
  BY DEF Continued
<1>3. p.text \cap note = {} /\ "said" \in p.text
  <2>1. "said" \in Words
    BY DEF Words
  <2>2. "said" \notin note
    BY <2>1
  <2> QED BY <1>1, <2>2
<1> HIDE DEF p
<1>4. ASSUME NEW z \in Chains(W) PROVE Said(Append(z, p)) = Said(z) /\ Groups(Append(z, p)) = Groups(z)
  <2>1. Said(Append(z, p)) = Said(z) \cup (IF p.role = "user" THEN p.text ELSE {})
    BY <1>1, SaidAppend
  <2>2. Groups(Append(z, p)) = Groups(z)
    BY <1>1, GroupsAppend
  <2> QED BY <1>1, <2>1, <2>2
<1>5. ASSUME NEW x \in Chains(W), Spoke(x)
      PROVE  /\ Repair(x) \in Chains(W) /\ Spoke(Repair(x))
             /\ Said(Repair(x)) = Said(x) /\ Groups(Repair(x)) = Groups(x)
  <2>1. Settled(x)
    BY <1>5 DEF Spoke
  <2>2. Said(Repair(x)) = Said(x) /\ Groups(Repair(x)) = Groups(x)
    BY <2>1, SettledKeeps
  <2>3. Repair(x) \in Chains(W) /\ Spoke(Repair(x))
    BY <1>5, RepairSaid
  <2> QED BY <2>2, <2>3
<1>6. CASE note = {}
  <2>1. Ready(c, {})
    BY <1>6
  <2>2. Append(c, p) \in Chains(W) /\ Spoke(Append(c, p))
    BY <1>1, <1>3, <2>1, AppendSaid
  <2>3. Continued(c, {"said"}, {}) = Repair(Append(c, p))
    BY <1>2, <1>6
  <2>4. Said(Repair(Append(c, p))) = Said(c) /\ Groups(Repair(Append(c, p))) = Groups(c)
    BY <1>4, <1>5, <2>2
  <2> QED BY <1>5, <2>2, <2>3, <2>4
<1>7. CASE note # {}
  <2> DEFINE q == Without(c, note)
             z == Cleaned(q)
             x == Rejoin(z, p)
  <2>1. /\ z \in Chains(W) /\ Settled(z) /\ Fronted(z) /\ Greets(z, {})
        /\ Strip(Append(c, p), note) = x
    BY <1>1, <1>3, StripAppend
  <2>2. q \in Chains(W) /\ Said(c) \cap m \subseteq Said(q) /\ Groups(q) = Groups(c)
    BY BareKeeps
  <2> HIDE DEF q
  <2>3. Said(q) \subseteq Said(z) /\ Groups(z) = Groups(q)
    BY <2>2, CleanKeeps
  <2> HIDE DEF z
  <2>4. x \in Chains(W) /\ Spoke(x)
    BY <1>1, <1>3, <2>1, RejoinSaid
  <2>5. Said(z) \subseteq Said(x) /\ Groups(x) = Groups(z)
    <3>1. Said(Append(z, p)) \subseteq Said(x) /\ Groups(x) = Groups(Append(z, p))
      BY <1>1, <2>1, RejoinKeeps
    <3> QED BY <1>4, <2>1, <3>1
  <2> HIDE DEF x
  <2>6. Continued(c, {"said"}, {}) = Repair(x)
    BY <1>2, <1>7, <2>1
  <2>7. /\ Repair(x) \in Chains(W) /\ Spoke(Repair(x))
        /\ Said(Repair(x)) = Said(x) /\ Groups(Repair(x)) = Groups(x)
    BY <1>5, <2>4
  <2> QED BY <2>2, <2>3, <2>5, <2>6, <2>7
<1> QED BY <1>6, <1>7

\* So the calls come last in the loop's chain, after a user or a result,
LEMMA ContinuedCalls ==
    ASSUME NEW W, Words \subseteq W, note \cap Words = {}, NEW c \in Chains(W), Ready(c, note),
           NEW ids \in SUBSET CallIds, ids # {}
    PROVE  \E y \in Chains(W) : Ready(y, {}) /\ Continued(c, {}, ids) = Append(y, Assistant({}, ids))
<1>1. Bare(c, note, {})
  BY DEF Bare
<1> QED BY <1>1, ContinuedCallsKeep

\* or the text does.
LEMMA ContinuedSaid ==
    ASSUME NEW W, Words \subseteq W, note \cap Words = {}, NEW c \in Chains(W), Ready(c, note)
    PROVE  Spoke(Continued(c, {"said"}, {}))
<1>1. Bare(c, note, {})
  BY DEF Bare
<1> QED BY <1>1, ContinuedSaidKeeps

-----------------------------------------------------------------------------
(* What a round of calls leaves                                            *)

\* What a round leaves of the calls that were put off or failed.
LEMMA ExecutedFacts ==
    ASSUME NEW W, NEW c \in Chains(W), NEW ids \in SUBSET CallIds, ids # {},
           chain = Append(c, Assistant({}, ids)), Execute
    PROVE  \E done \in SUBSET CallIds : \E left \in SUBSET done : chain' = Round(c, left, done)
<1> DEFINE p == Assistant({}, ids)
<1>1. p \in Lines(W) /\ p.role = "assistant" /\ p.calls = ids
  <2>1. p \in Lines(W)
    BY RoundFacts
  <2> QED BY <2>1 DEF Assistant, Payload
<1>2. OpenCalls = ids
  <2>1. c \in Seq(Lines(W))
    BY ChainFacts
  <2> HIDE DEF p
  <2>2. chain # <<>> /\ Last(chain) = p
    BY <1>1, <2>1 DEF Last, p
  <2> QED BY <1>1, <2>2 DEF OpenCalls
<1>3. PICK failed \in SUBSET ids, off \in SUBSET ids : \E refused \in SUBSET off :
         /\ failed \cap off = {}
         /\ chain' = Executed((ids \ (failed \cup off)) \cup refused, failed, off)
  BY <1>2 DEF Execute
<1>4. PICK refused \in SUBSET off :
         /\ failed \cap off = {}
         /\ chain' = Executed((ids \ (failed \cup off)) \cup refused, failed, off)
  BY <1>3
<1> DEFINE done == (ids \ (failed \cup off)) \cup refused
           left == (ids \ off) \ failed
<1>5. done \in SUBSET CallIds /\ left \in SUBSET done
  OBVIOUS
<1>6. chain' = RemoveCalls(RemoveCalls(Round(c, ids, done), off), failed)
  BY <1>4 DEF Executed, Round
<1> HIDE DEF done
<1>7. RemoveCalls(Round(c, ids, done), off) = Round(c, ids \ off, done)
  BY <1>5, RoundRemoves
<1>8. RemoveCalls(Round(c, ids \ off, done), failed) = Round(c, left, done)
  <2>1. ids \ off \in SUBSET CallIds /\ failed \in SUBSET (ids \ off)
    BY <1>4
  <2> QED BY <1>5, <2>1, RoundRemoves
<1> QED BY <1>5, <1>6, <1>7, <1>8
-----------------------------------------------------------------------------
(* What is ready to be sent                                                *)

\* A message, added to a settled chain or merged into the one before it, makes it
\* ready to be sent.
LEMMA InputReady ==
    ASSUME NEW W, NEW c \in Chains(W), Settled(c), Fronted(c), NEW text \in (SUBSET W) \ {{}}
    PROVE  AddInput(c, text) \in Chains(W) /\ Ready(AddInput(c, text), {})
<1> DEFINE n == Len(c)
           line == [c[n] EXCEPT !.text = @ \cup text]
           d == [c EXCEPT ![n] = line]
           y == AddInput(c, text)
<1>1. n \in Nat /\ DOMAIN c = 1..n /\ c \in Seq(Lines(W)) /\ \A i \in 1..n : c[i] \in Lines(W)
  BY ChainFacts
<1>2. y \in Chains(W)
  BY InputFacts
<1>3. c # <<>> => n \in 1..n
  BY <1>1, EmptySeq
<1>4. CASE c # <<>> /\ c[n].role = "user"
  <2>1. y = d
    BY <1>1, <1>3, <1>4 DEF AddInput, Last
  <2>2. n \in 1..n /\ c[n] \in Lines(W)
    BY <1>1, <1>3, <1>4
  <2>3. /\ line.role = c[n].role /\ line.calls = c[n].calls /\ line.results = c[n].results
    BY <2>2 DEF Lines
  <2>4. line \in Lines(W)
    <3>1. c[n].text \cup text \in SUBSET W /\ c[n].text \cup text # {}
      BY <2>2, ChangedFacts
    <3>2. line = [c[n] EXCEPT !.text = c[n].text \cup text]
      OBVIOUS
    <3> HIDE DEF line, n
    <3> QED BY <1>4, <2>2, <3>1, <3>2, ChangedFacts
  <2> HIDE DEF line, y
  <2>5. Len(d) = Len(c) /\ \A j \in 1..n : d[j] = IF j = n THEN line ELSE c[j]
    BY <1>1, <2>2, <2>4, ExceptSeq
  <2> HIDE DEF d
  <2>6. Alike(c, d, Len(c)) /\ \A k \in 1..Len(c) : d[k].role = c[k].role
    BY <2>3, <2>5 DEF Alike
  <2>7. d \in Chains(W)
    BY <1>2, <2>1
  <2>8. Settled(d)
    BY <2>5, <2>6, <2>7, AlikeSettled DEF Settled
  <2>9. InOrder(c, d) /\ HasUser(d)
    <3>1. InOrder(c, d)
      BY <2>5, <2>6, <2>7, SameOrder
    <3>2. HasUser(c)
      BY <1>4, <2>2 DEF HasUser
    <3> QED BY <3>1, <3>2 DEF InOrder
  <2>10. Fronted(d) /\ Greets(d, {})
    BY <2>7, <2>8, <2>9, GreetsFacts DEF InOrder
  <2>11. LastRole(d) = "user"
    <3>1. LastRole(d) = d[Len(d)].role
      BY <2>7, <2>10, FrontedLast
    <3> QED BY <1>4, <2>2, <2>5, <2>6, <3>1
  <2> QED BY <2>1, <2>7, <2>8, <2>10, <2>11 DEF Ready, y
<1>5. CASE ~(c # <<>> /\ c[n].role = "user")
  <2>1. y = Append(c, User(text))
    BY <1>5 DEF AddInput, Last
  <2> QED BY <1>2, <2>1, UserReady
<1> QED BY <1>4, <1>5

\* The invariant holds of a fresh process with an empty session,
LEMMA InitInv == Init => IInv
<1> SUFFICES ASSUME Init PROVE IInv
  OBVIOUS
<1>1. \A W : <<>> \in Chains(W) /\ <<>> \in Entries(W)
  BY DEF Chains, Entries
<1>2. Len(Messages) \in Nat /\ Len(Notes) \in Nat /\ MaxRetries \in Nat /\ MaxSaved \in Nat \ {0}
  BY NamesFacts, RequestsAssumption
<1>3. loop \in Loops
  BY <1>2 DEF Init, NewLoop, Loops
<1>4. used \in Counts /\ past \in Pasts
  BY <1>1, <1>2 DEF Init, Counts, Pasts
<1>5. past.forgotten = {} /\ note = {} /\ pc = "idle" /\ restored = FALSE
  BY DEF Init
<1>6. PartsOK
  BY <1>3, <1>4, <1>5 DEF PartsOK
<1>7. ChainOK /\ RequestOK
  BY <1>1 DEF Init, ChainOK, RequestOK, NewPre
<1>8. SessionOK
  <2>1. session = [saved |-> <<>>, snap |-> <<>>, flag |-> FALSE] /\ disk = OnDisk(session)
        /\ past.notes = {}
    BY DEF Init, NewSession
  <2>2. Len(<<>>) <= MaxSaved
    BY <1>2
  <2> QED BY <1>1, <2>1, <2>2 DEF SessionOK
<1> QED BY <1>6, <1>7, <1>8 DEF IInv

\* and each handler, crash and restart keeps it.
LEMMA NextInv == IInv /\ [Next]_vars => IInv'
<1> SUFFICES ASSUME IInv, [Next]_vars PROVE IInv'
  OBVIOUS
<1>1. PartsOK'
  BY PartsStep
<1> SUFFICES (ChainOK /\ RequestOK /\ SessionOK)'
  <2>1. (ChainOK /\ RequestOK /\ SessionOK)' => ChainOK' /\ RequestOK' /\ SessionOK'
    OBVIOUS
  <2> QED BY <1>1, <2>1 DEF IInv
<1>2. CASE Start
  BY <1>2, StartSays
<1>3. CASE NewMessage \/ Followup
  BY <1>3, TurnSays
<1>4. CASE Timeout
  BY <1>4, TimeoutSays
<1>5. CASE Attempt
  BY <1>5, AttemptSays
<1>6. CASE Fail
  BY <1>6, FailSays
<1>7. CASE AnswerText
  BY <1>7, TextSays
<1>8. CASE AnswerTextLast
  <2>1. {"said"} \in SUBSET Words /\ {} \in SUBSET CallIds
    BY DEF Words
  <2>2. Answer({"said"}, {})
    BY <1>8 DEF AnswerTextLast
  <2> QED BY <2>1, <2>2, AnswerSays
<1>9. CASE \E ids \in (SUBSET CallIds) \ {{}} : AnswerCalls(ids)
  <2>1. PICK ids \in SUBSET CallIds : Answer({}, ids)
    BY <1>9 DEF AnswerCalls
  <2>2. {} \in SUBSET Words
    OBVIOUS
  <2> QED BY <2>1, <2>2, AnswerSays
<1>10. CASE Execute \/ EmptyReply \/ CommitTools \/ CommitWait
  BY <1>10, DecisionSays
<1>11. CASE CommitStop \/ GiveUp \/ Clear \/ Crash
  BY <1>11, EndSays
<1>12. CASE UNCHANGED vars
  <2>1. Talks' = Talks /\ Asks' = Asks /\ Kept' = Kept
    BY <1>12, SameSpeech DEF vars
  <2>2. ChainOK'
    BY <1>12, <2>1 DEF vars, IInv, ChainOK
  <2>3. RequestOK'
    BY <1>12, <2>1 DEF vars, IInv, RequestOK
  <2>4. SessionOK'
    BY <1>12, <2>1 DEF vars, IInv, SessionOK, OnDisk
  <2> QED BY <2>2, <2>3, <2>4
<1> QED BY <1>2, <1>3, <1>4, <1>5, <1>6, <1>7, <1>8, <1>9, <1>10, <1>11, <1>12 DEF Next

\* The invariant holds in every state of the process.
THEOREM Invariant == Spec => []IInv
BY InitInv, NextInv, PTL DEF Spec

\* The state is of its types.
THEOREM TypeCorrect == Spec => []TypeOK
<1>1. IInv => TypeOK
  <2> SUFFICES ASSUME IInv PROVE TypeOK
    OBVIOUS
  <2>1. /\ chain \in Chains(Talks) /\ local \in Chains(Asks) /\ request \in Chains(Asks)
        /\ session.snap \in Chains(Kept)
    BY DEF IInv, ChainOK, RequestOK, SessionOK
  <2>2. ASSUME NEW W, NEW c \in Chains(W), NEW i \in DOMAIN c
        PROVE  /\ c[i].role \in {"system", "tool", "user", "assistant", "result"}
               /\ c[i].calls \cup c[i].results \subseteq CallIds
               /\ c[i].calls # {} => c[i].role = "assistant"
               /\ c[i].results # {} => c[i].role = "result"
    <3>1. c[i] \in Lines(W)
      BY ChainFacts
    <3> QED BY <3>1 DEF Lines, Roles
  <2>3. ASSUME NEW c \in {chain, local, request, session.snap}, NEW i \in DOMAIN c
        PROVE  /\ c[i].role \in {"system", "tool", "user", "assistant", "result"}
               /\ c[i].calls \cup c[i].results \subseteq CallIds
               /\ c[i].calls # {} => c[i].role = "assistant"
               /\ c[i].results # {} => c[i].role = "result"
    BY <2>1, <2>2
  <2>4. pc \in {"idle", "ready", "sending", "flight", "execute", "commit"}
        /\ loop.tries \in 0..MaxRetries /\ Len(session.saved) <= MaxSaved
    BY DEF IInv, PartsOK, SessionOK, Loops
  <2> QED BY <2>3, <2>4 DEF TypeOK
<1> QED BY <1>1, Invariant, PTL

\* Between turns the chain says nothing of the notes that this process made:
\* whatever failed, was sent back or came out of the snapshot meanwhile.
THEOREM NotesAreStripped == Spec => []OwnNoteStripped
<1>1. IInv => OwnNoteStripped
  <2> SUFFICES ASSUME IInv PROVE Said(chain) \cap past.notes = {}
    BY DEF OwnNoteStripped
  <2>1. Said(chain) \subseteq Talks
    BY SaidFacts DEF IInv, ChainOK
  <2> QED BY <2>1 DEF Talks, Talked
<1> QED BY <1>1, Invariant, PTL

\* The request says, of the notes this process made, at most its own.
OwnNoteOnly == Said(request) \cap past.notes \subseteq note

\* A request has, of the notes this process made, its own only: one that comes
\* again is from before a restart, out of the snapshot.
THEOREM OneNoteARequest == Spec => []OwnNoteOnly
<1>1. IInv => OwnNoteOnly
  <2> SUFFICES ASSUME IInv PROVE Said(request) \cap past.notes \subseteq note
    BY DEF OwnNoteOnly
  <2>1. Said(request) \subseteq Asks
    BY SaidFacts DEF IInv, RequestOK
  <2> QED BY <2>1 DEF Asks, Asked
<1> QED BY <1>1, Invariant, PTL

\* After a clear no message of before it is in a request, in the snapshot or in
\* the persisted chain, and none comes back at a restart.
THEOREM ForgetsForGood == Spec => []ClearForgets
<1>1. IInv => ClearForgets
  <2> SUFFICES ASSUME IInv PROVE ClearForgets
    OBVIOUS
  <2>1. PartsOK /\ request \in Chains(Asks) /\ session.snap \in Chains(Kept)
        /\ session.saved \in Entries(Talks)
    BY DEF IInv, RequestOK, SessionOK
  <2>2. Kept \cap past.forgotten = {} /\ Asks \subseteq Kept /\ Talks \subseteq Kept
    BY <2>1, SpeechFacts DEF Kept, Snapped
  <2>3. Said(request) \subseteq Kept /\ Said(session.snap) \subseteq Kept
    BY <2>1, <2>2, SaidFacts
  <2>4. Told(request) \cap past.forgotten = {} /\ Told(session.snap) \cap past.forgotten = {}
    BY <2>2, <2>3 DEF Told
  <2>5. \A i \in DOMAIN session.saved : session.saved[i].text \in SUBSET Talks
    <3> DEFINE e == session.saved
               T == Talks
    <3>1. e \in Entries(T)
      BY <2>1
    <3> HIDE DEF e, T
    <3>2. DOMAIN e = 1..Len(e) /\ \A i \in 1..Len(e) : e[i].text \in SUBSET T
      BY <3>1, EntryFacts
    <3>3. \A i \in DOMAIN e : e[i].text \in SUBSET T
      BY <3>2
    <3> QED BY <3>3 DEF e, T
  <2>6. \A i \in DOMAIN session.saved : session.saved[i].text \cap past.forgotten = {}
    BY <2>2, <2>5
  <2> QED BY <2>4, <2>6 DEF ClearForgets
<1> QED BY <1>1, Invariant, PTL
-----------------------------------------------------------------------------
(* Every request can be sent                                               *)

\* The flags are set where they are read.
FlagsOK ==
    /\ loop.tries > 0 \/ loop.asking => pc \in {"sending", "flight"}
    /\ loop.waiting \/ loop.tools => pc = "ready"
    /\ ~(loop.waiting /\ loop.tools)

\* The chain a request is made of: without a note somebody asks in it.
Reading ==
    pc \in {"sending", "flight"} =>
        /\ Settled(chain) /\ Greets(chain, {})
        /\ loop.asking \/ (note = {} /\ loop.tries = 0) => LastRole(chain) \in {"user", "result"}

\* What is sent, and what is sent again after a text.
Sending ==
    /\ pc = "sending" /\ loop.tries > 0 => Ready(local, note)
    /\ pc = "flight" => Ready(request, note)

\* The calls to run come last, after a chain that could be sent.
Called ==
    pc = "execute" =>
        \E q \in Chains(All), ids \in SUBSET CallIds :
            ids # {} /\ Ready(q, {}) /\ chain = Append(q, Assistant({}, ids))

\* When the model is asked to read on, there is something to read.
Decided ==
    /\ pc = "commit" \/ loop.waiting \/ loop.tools => HasUser(chain)
    /\ (pc = "commit" /\ Last(chain).role # "assistant") \/ loop.tools
           => LastRole(Prepare(chain)) \in {"user", "result"}

\* The history that is still to be put in says nothing of the note.
Unread == ~restored => session.snap \in Chains(Kept \ note)

SInv == FlagsOK /\ Fronted(chain) /\ Reading /\ Sending /\ Called /\ Decided /\ Unread

\* The chains of a state, in the vocabulary of all.
LEMMA AllFacts ==
    ASSUME IInv
    PROVE  /\ Words \subseteq All /\ PartsOK
           /\ chain \in Chains(All) /\ local \in Chains(All) /\ request \in Chains(All)
<1>1. PartsOK /\ chain \in Chains(Talks) /\ local \in Chains(Asks) /\ request \in Chains(Asks)
  BY DEF IInv, ChainOK, RequestOK
<1>2. Talks \subseteq All /\ Asks \subseteq All /\ Words \subseteq All
  BY <1>1, SpeechFacts
<1> QED BY <1>1, <1>2, LinesGrow

\* What a request is made of: a settled chain, which stays as it is.
LEMMA AttemptFacts ==
    ASSUME IInv, SInv, Attempt
    PROVE  \E c \in Chains(Asks) :
              /\ c = IF loop.tries = 0 THEN chain ELSE local
              /\ Settled(c) /\ Fronted(c) /\ Greets(c, note)
              /\ LastRole(c) \in {"user", "result"} \/ note # {}
              /\ restored \/ \E V \in SUBSET Asks : /\ Words \subseteq V /\ V \cap note = {}
                                                  /\ session.snap \in Chains(V)
              /\ chain' = chain /\ local' = c /\ request' = Sent(c)
              /\ session'.snap = Capture(Sent(c))
<1> DEFINE c == IF loop.tries = 0 THEN chain ELSE local
<1>1. PartsOK /\ Words \subseteq All
  BY AllFacts
<1>2. /\ Words \subseteq Asks /\ Talks \subseteq Asks /\ note \subseteq Asks /\ Talks = Asks \ note
      /\ past.notes = {} => Asks = Kept
  BY <1>1, SpeechFacts
<1>3. /\ chain \in Chains(Talks) /\ chain \in Chains(Asks) /\ local \in Chains(Asks)
      /\ session.snap \in Chains(Kept)
      /\ ~restored => past.notes = {} \/ session.snap = <<>>
  BY <1>2, LinesGrow DEF IInv, ChainOK, RequestOK, SessionOK
<1>4. /\ pc = "sending" /\ pc' = "flight" /\ note' = note /\ loop' = loop /\ restored' = TRUE
  BY DEF Attempt
<1>5. note \cap Words = {}
  BY <1>1, RequestsAssumption DEF PartsOK
<1>6. Greets(chain, note)
  <2>1. PICK i \in 1..Len(chain) : chain[i].role = "user" /\ \A k \in 1..(i - 1) : IsPinned(chain[k])
    BY <1>4 DEF SInv, Reading, Greets
  <2>2. chain[i] \in Lines(Talks)
    BY <1>3, <2>1, ChainFacts
  <2>3. chain[i].text \in SUBSET Talks
    BY <2>2, ChangedFacts
  <2>4. chain[i].text \cap note = {}
    BY <1>2, <2>3
  <2> QED BY <2>1, <2>4 DEF Greets
<1>7. loop \in Loops
  BY <1>1 DEF PartsOK
<1>8. /\ c \in Chains(Asks) /\ Settled(c) /\ Fronted(c) /\ Greets(c, note)
      /\ LastRole(c) \in {"user", "result"} \/ note # {}
  <2>1. CASE loop.tries = 0
    BY <1>3, <1>4, <1>6, <2>1 DEF SInv, Reading
  <2>2. CASE loop.tries # 0
    <3>1. loop.tries > 0
      BY <1>7, <2>2, RequestsAssumption DEF Loops
    <3> QED BY <1>3, <1>4, <3>1 DEF SInv, Sending, Ready
  <2> QED BY <2>1, <2>2
<1>9. restored \/ \E V \in SUBSET Asks : /\ Words \subseteq V /\ V \cap note = {}
                                         /\ session.snap \in Chains(V)
  <2>1. CASE ~restored /\ past.notes = {}
    <3> DEFINE V == Kept \ note
    <3>1. V \in SUBSET Asks /\ Words \subseteq V /\ V \cap note = {}
      BY <1>2, <1>5, <2>1
    <3>2. session.snap \in Chains(V)
      BY <2>1 DEF SInv, Unread
    <3> QED BY <3>1, <3>2
  <2>2. CASE ~restored /\ session.snap = <<>>
    <3>1. session.snap \in Chains(Talks)
      BY <2>2 DEF Chains
    <3>2. Talks \in SUBSET Asks /\ Words \subseteq Talks /\ Talks \cap note = {}
      BY <1>2, <1>5
    <3> QED BY <3>1, <3>2
  <2> QED BY <1>3, <2>1, <2>2
<1>10. /\ chain' = IF loop.tries = 0 THEN Prepare(c) ELSE chain
       /\ local' = Prepare(c) /\ request' = Sent(Prepare(c))
       /\ session'.snap = Capture(Sent(Prepare(c)))
  <2>1. session \in [saved : Entries(Talks), snap : Chains(Kept), flag : BOOLEAN]
    BY DEF IInv, SessionOK
  <2> QED BY <2>1 DEF Attempt, Save
<1>11. loop.tries = 0 => c = chain
  OBVIOUS
<1> HIDE DEF c
<1>12. Prepare(c) = c
  BY <1>2, <1>8, SettledPrepared
<1>13. chain' = chain /\ local' = c /\ request' = Sent(c) /\ session'.snap = Capture(Sent(c))
  BY <1>10, <1>11, <1>12
<1> QED BY <1>8, <1>9, <1>13 DEF c

\* When the note is gone, or nothing of it changes, the history is still without it.
LEMMA UnreadNext ==
    ASSUME IInv', SInv,
           \/ note' = {} \/ restored' = TRUE
           \/ /\ note' = note /\ Kept' = Kept /\ session'.snap = session.snap /\ restored' = restored
    PROVE  Unread'
<1>1. session'.snap \in Chains(Kept')
  BY DEF IInv, SessionOK
<1>2. note' = {} => Kept' \ note' = Kept'
  OBVIOUS
<1> QED BY <1>1, <1>2 DEF SInv, Unread

\* The end of execute(),
LEMMA EndReady ==
    ASSUME IInv, SInv, IInv', End
    PROVE  SInv'
<1>1. /\ pc' = "idle" /\ chain' = <<>> /\ note' = {}
      /\ loop' = NewLoop
  BY DEF End, NoRequest
<1>2. FlagsOK'
  BY <1>1 DEF FlagsOK, NewLoop
<1>3. Fronted(chain')
  BY <1>1 DEF Fronted
<1>4. Reading' /\ Sending' /\ Called'
  BY <1>1 DEF Reading, Sending, Called
<1>5. Decided'
  BY <1>1 DEF Decided, NewLoop
<1>6. Unread'
  BY <1>1, UnreadNext
<1> QED BY <1>2, <1>3, <1>4, <1>5, <1>6 DEF SInv

\* the start of it,
LEMMA StartReady ==
    ASSUME IInv, SInv, IInv', Start
    PROVE  SInv'
<1>0. PartsOK /\ PartsOK' /\ chain' \in Chains(Talks') /\ Words \subseteq All
  BY AllFacts DEF IInv, ChainOK
<1>1. /\ pc = "idle" /\ pc' = "ready" /\ loop' = NewLoop /\ note' = note
      /\ chain' = <<System, Tools>> \o InitialHistory
  BY DEF Start
<1>2. note' = {}
  BY <1>0, <1>1 DEF PartsOK
<1>3. FlagsOK' /\ Reading' /\ Sending' /\ Called' /\ Decided'
  BY <1>1 DEF FlagsOK, NewLoop, Reading, Sending, Called, Decided
<1>4. Unread'
  BY <1>2, UnreadNext
<1>5. Fronted(chain')
  <2> DEFINE h == InitialHistory
  <2>1. session.saved \in Entries(All)
    <3>1. session.saved \in Entries(Talks) /\ Talks \subseteq All
      BY <1>0, SpeechFacts DEF IInv, SessionOK
    <3> DEFINE U == Heard(Talks)
               V == Heard(All)
    <3>2. U \subseteq V
      BY <3>1 DEF Heard, Spoken
    <3>3. session.saved \in Seq(U)
      BY <3>1 DEF Entries
    <3> HIDE DEF U, V
    <3>4. session.saved \in Seq(V)
      BY <3>2, <3>3, SeqMonotonic
    <3> QED BY <3>4 DEF Entries, V
  <2>2. SavedPayloads(session.saved) \in Chains(All) /\ Loose(SavedPayloads(session.saved))
    <3> DEFINE s == SavedPayloads(session.saved)
    <3>1. s \in Chains(All)
      BY <1>0, <2>1, SavedFacts
    <3>2. \A i \in DOMAIN s : s[i].role \in {"user", "assistant"}
      BY DEF SavedPayloads, User, Assistant, Payload
    <3> HIDE DEF s
    <3>3. DOMAIN s = 1..Len(s)
      BY <3>1, ChainFacts
    <3>4. Loose(s)
      BY <3>2, <3>3 DEF Loose, IsPinned
    <3> QED BY <3>1, <3>4 DEF s
  <2> DEFINE s == SavedPayloads(session.saved)
             now == <<User({"now"})>>
  <2>3. User({"now"}) \in Lines(All) /\ System \in Lines(All) /\ Tools \in Lines(All)
        /\ User({"now"}).role = "user"
    <3>1. {"now"} \in SUBSET All
      BY <1>0 DEF Words
    <3> QED BY <3>1, MadeFacts DEF User, Payload
  <2>4. now \in Chains(All) /\ <<System, Tools>> \in Chains(All) /\ <<>> \in Chains(All)
        /\ Len(now) = 1 /\ now[1].role = "user"
    BY <2>3 DEF Chains
  <2> HIDE DEF s, now
  <2>5. h \in Chains(All) /\ Loose(h)
    <3>1. CASE h = <<>>
      BY <2>4, <3>1 DEF Loose
    <3>2. CASE h = now \o s
      <4>1. now \o s \in Chains(All)
        BY <2>2, <2>4, PartFacts DEF s
      <4>5. s \in Chains(All)
        BY <2>2 DEF s
      <4>6. /\ Len(now \o s) = Len(now) + Len(s) /\ Len(s) \in Nat
            /\ \A i \in 1..(Len(now) + Len(s)) :
                 (now \o s)[i] = IF i <= Len(now) THEN now[i] ELSE s[i - Len(now)]
        BY <2>4, <4>5, JoinFacts
      <4>2. /\ Len(now \o s) = 1 + Len(s) /\ Len(s) \in Nat
            /\ \A i \in 1..(1 + Len(s)) : (now \o s)[i] = IF i <= 1 THEN now[i] ELSE s[i - 1]
        BY <2>4, <4>6
      <4>3. \A i \in 1..(1 + Len(s)) : ~IsPinned((now \o s)[i])
        <5> TAKE i \in 1..(1 + Len(s))
        <5>1. CASE i = 1
          BY <2>4, <4>2, <5>1 DEF IsPinned
        <5>2. CASE i # 1
          <6>1. i - 1 \in 1..Len(s) /\ (now \o s)[i] = s[i - 1]
            BY <4>2, <5>2
          <6> QED BY <2>2, <6>1 DEF Loose, s
        <5> QED BY <5>1, <5>2
      <4> QED BY <3>2, <4>1, <4>2, <4>3 DEF Loose
    <3> QED BY <3>1, <3>2 DEF InitialHistory, s, now
  <2> HIDE DEF h
  <2> DEFINE a == <<System, Tools>>
             r == a \o h
  <2>6. Len(a) = 2
    OBVIOUS
  <2>7. a \in Chains(All)
    BY <2>4
  <2> HIDE DEF a
  <2>11. /\ Len(r) = Len(a) + Len(h) /\ Len(h) \in Nat
         /\ \A i \in 1..(Len(a) + Len(h)) : r[i] = IF i <= Len(a) THEN a[i] ELSE h[i - Len(a)]
    BY <2>5, <2>7, JoinFacts
  <2>8. /\ Len(r) = 2 + Len(h) /\ Len(h) \in Nat
        /\ \A i \in 1..(2 + Len(h)) : r[i] = IF i <= 2 THEN a[i] ELSE h[i - 2]
    BY <2>6, <2>11
  <2>9. IsPinned(a[1]) /\ IsPinned(a[2])
    BY DEF a, System, Tools, IsPinned, Payload
  <2> HIDE DEF r
  <2>10. ASSUME NEW i \in 1..Len(r), NEW j \in 1..Len(r), i < j, IsPinned(r[j])
         PROVE  IsPinned(r[i])
    <3>1. CASE j > 2
      <4>1. j - 2 \in 1..Len(h) /\ r[j] = h[j - 2]
        BY <2>8, <3>1
      <4> QED BY <2>5, <2>10, <4>1 DEF Loose
    <3>2. CASE j <= 2
      <4>1. i = 1
        BY <2>8, <2>10, <3>2
      <4>2. r[1] = a[1]
        BY <2>8, <4>1
      <4> QED BY <2>9, <4>1, <4>2
    <3> QED BY <2>8, <3>1, <3>2
  <2> QED BY <1>1, <2>10 DEF Fronted, r, a, h
<1> QED BY <1>3, <1>4, <1>5 DEF SInv

\* What a turn makes of the chain and the flags; the note may be new.
LEMMA TurnNext ==
    ASSUME IInv, SInv, IInv', pc = "ready", pc' = "sending", Ready(chain', {}), loop' \in Loops,
           loop'.tries = loop.tries, loop'.asking = loop.asking,
           loop'.waiting = FALSE, loop'.tools = FALSE, Unread'
    PROVE  SInv'
<1>1. loop \in Loops
  BY DEF IInv, PartsOK
<1>2. loop.tries = 0 /\ loop.asking = FALSE
  BY <1>1 DEF SInv, FlagsOK, Loops
<1>3. FlagsOK'
  BY <1>2 DEF FlagsOK
<1>4. Fronted(chain') /\ Reading'
  BY DEF Ready, Reading
<1>5. Sending' /\ Called' /\ Decided'
  BY <1>2 DEF Sending, Called, Decided
<1> QED BY <1>3, <1>4, <1>5 DEF SInv

\* What the snapshot says when a note may have been made.
LEMMA NewNoteUnread ==
    ASSUME IInv, IInv', SInv, note = {}, past' = past, restored' = restored,
           session'.snap = session.snap,
           \/ note' = {} /\ used'.notes = used.notes
           \/ /\ used.notes < Len(Notes)
              /\ note' = {Notes[used.notes + 1]}
              /\ used'.notes = used.notes + 1
    PROVE  Unread'
<1>1. CASE note' = {}
  BY <1>1, UnreadNext
<1>2. CASE /\ used.notes < Len(Notes)
           /\ note' = {Notes[used.notes + 1]}
           /\ used'.notes = used.notes + 1
  <2>1. used.notes \in 0..Len(Notes)
    BY CountFacts DEF IInv
  <2>2. /\ Unmade(used.notes) = Unmade(used.notes + 1) \cup {Notes[used.notes + 1]}
    BY <1>2, <2>1, NoteFacts
  <2>3. Kept = Kept' \ note'
    BY <1>2, <2>2 DEF Kept, Snapped
  <2>4. session.snap \in Chains(Kept)
    BY DEF IInv, SessionOK
  <2> QED BY <2>3, <2>4 DEF Unread
<1> QED BY <1>1, <1>2

\* a turn,
LEMMA TurnReady ==
    ASSUME IInv, SInv, IInv', NewMessage \/ Followup
    PROVE  SInv'
<1> DEFINE p == Prepare(chain)
<1>1. PartsOK /\ Words \subseteq All /\ chain \in Chains(All)
  BY AllFacts
<1>2. pc = "ready" /\ pc' = "sending" /\ note = {}
  BY <1>1 DEF NewMessage, Followup, PartsOK
<1>3. p \in Chains(All) /\ Settled(p) /\ InOrder(chain, p)
  BY <1>1, PrepareOrder
<1>4. Fronted(p) /\ (HasUser(chain) => HasUser(p))
  BY <1>3 DEF SInv, InOrder
<1> HIDE DEF p
<1>5. /\ loop' \in Loops /\ loop'.tries = loop.tries /\ loop'.asking = loop.asking
      /\ loop'.waiting = FALSE /\ loop'.tools = FALSE
  <2>1. loop \in Loops /\ loop' \in Loops
    BY <1>1 DEF IInv, PartsOK
  <2>2. Followup => loop.waiting = FALSE
    BY <2>1 DEF Followup, SInv, FlagsOK, Loops
  <2> QED BY <2>1, <2>2 DEF NewMessage, Followup, Loops
<1>6. Ready(chain', {})
  <2>1. CASE Followup
    <3>1. loop.tools /\ chain' = p
      BY <2>1 DEF Followup, p
    <3>2. HasUser(chain) /\ LastRole(p) \in {"user", "result"}
      BY <3>1 DEF SInv, Decided, p
    <3>3. Greets(p, {})
      BY <1>3, <1>4, <3>2, GreetsFacts
    <3> QED BY <1>3, <1>4, <3>1, <3>2, <3>3 DEF Ready
  <2>2. CASE NewMessage
    <3> DEFINE text == {Messages[used.messages + 1]}
               c    == AddInput(p, text)
    <3>1. text \in (SUBSET All) \ {{}}
      <4>1. used.messages \in 0..Len(Messages) /\ used.messages < Len(Messages)
        BY <1>1, <2>2, CountFacts DEF NewMessage
      <4>2. used.messages + 1 \in 1..Len(Messages)
        BY <4>1, NamesFacts
      <4> QED BY <4>2, NamesFacts DEF All
    <3>2. chain' = Prepare(c)
      BY <2>2 DEF NewMessage, p
    <3> HIDE DEF text
    <3>3. c \in Chains(All) /\ Ready(c, {})
      BY <1>3, <1>4, <3>1, InputReady
    <3> HIDE DEF c
    <3>4. Prepare(c) = c
      BY <1>1, <3>3, SettledPrepared DEF Ready
    <3> QED BY <3>2, <3>3, <3>4
  <2> QED BY <2>1, <2>2
<1>7. Unread'
  <2>1. CASE Followup
    <3>1. note' = {}
      BY <1>2, <2>1 DEF Followup
    <3> QED BY <3>1, UnreadNext
  <2>2. CASE NewMessage
    <3>1. MayHaveNote /\ past' = past /\ restored' = restored
      BY <2>2 DEF NewMessage
    <3>2. used \in Counts
      BY <1>1 DEF PartsOK
    <3>3. \/ note' = {} /\ used'.notes = used.notes
          \/ /\ used.notes < Len(Notes)
             /\ note' = {Notes[used.notes + 1]}
             /\ used'.notes = used.notes + 1
      BY <3>1, <3>2 DEF MayHaveNote, Counts
    <3>4. session'.snap = session.snap
      <4> DEFINE c == Prepare(AddInput(Prepare(chain), {Messages[used.messages + 1]}))
      <4>1. PreSave(c)
        BY <2>2 DEF NewMessage
      <4> HIDE DEF c
      <4>2. session \in [saved : Entries(Talks), snap : Chains(Kept), flag : BOOLEAN]
        BY DEF IInv, SessionOK
      <4> DEFINE new == <<Entry("user", LastUserText(c))>>
                 next == [session EXCEPT !.saved = UpdateChain(@, new)]
      <4>3. session' = session \/ session' = next
        BY <4>1 DEF PreSave, Save
      <4>4. next.snap = session.snap
        BY <4>2
      <4> QED BY <4>3, <4>4
    <3> QED BY <1>2, <3>1, <3>3, <3>4, NewNoteUnread
  <2> QED BY <2>1, <2>2
<1> QED BY <1>2, <1>5, <1>6, <1>7, TurnNext

\* the end of a wait, where the note asks,
LEMMA TimeoutReady ==
    ASSUME IInv, SInv, IInv', Timeout
    PROVE  SInv'
<1> DEFINE p == Prepare(chain)
           d == WithSuspend(p)
<1>1. PartsOK /\ Words \subseteq All /\ chain \in Chains(All)
  BY AllFacts
<1>2. /\ pc = "ready" /\ pc' = "sending" /\ loop.waiting /\ note = {}
      /\ used.notes < Len(Notes) /\ note' = {Notes[used.notes + 1]}
  BY <1>1 DEF Timeout, PartsOK
<1>3. p \in Chains(All) /\ Settled(p) /\ InOrder(chain, p)
  BY <1>1, PrepareOrder
<1>4. Fronted(p) /\ HasUser(p)
  BY <1>2, <1>3 DEF SInv, InOrder, Decided
<1> HIDE DEF p
<1>5. d \in Chains(All) /\ Settled(d) /\ Fronted(d) /\ Greets(d, {})
  BY <1>1, <1>3, <1>4, SuspendReady
<1>6. chain' = Prepare(d)
  BY DEF Timeout, d, p
<1> HIDE DEF d
<1>7. chain' = d
  BY <1>1, <1>5, <1>6, SettledPrepared
<1>8. loop \in Loops /\ loop' \in Loops
  BY <1>1 DEF IInv, PartsOK
<1>9. /\ loop.tries = 0 /\ loop.asking = FALSE /\ loop.tools = FALSE
      /\ loop'.tries = 0 /\ loop'.asking = FALSE /\ loop'.tools = FALSE /\ loop'.waiting = FALSE
  BY <1>2, <1>8 DEF Timeout, SInv, FlagsOK, Loops
<1>10. FlagsOK' /\ Sending' /\ Called' /\ Decided'
  BY <1>2, <1>9 DEF FlagsOK, Sending, Called, Decided
<1>11. Fronted(chain') /\ Reading'
  BY <1>2, <1>5, <1>7, <1>9 DEF Reading
<1>12. Unread'
  <2>1. used'.notes = used.notes + 1
    BY <1>1 DEF Timeout, PartsOK, Counts
  <2>2. past' = past /\ restored' = restored /\ session' = session
    BY DEF Timeout
  <2> QED BY <1>2, <2>1, <2>2, NewNoteUnread
<1> QED BY <1>10, <1>11, <1>12 DEF SInv

\* a request,
LEMMA AttemptReady ==
    ASSUME IInv, SInv, IInv', Attempt
    PROVE  SInv'
<1>1. Words \subseteq Asks /\ note \subseteq Asks
  BY AllFacts, SpeechFacts
<1>2. /\ pc = "sending" /\ pc' = "flight" /\ note' = note /\ loop' = loop /\ restored' = TRUE
  BY DEF Attempt
<1>3. PICK c \in Chains(Asks) :
         /\ Settled(c) /\ Fronted(c) /\ Greets(c, note)
         /\ LastRole(c) \in {"user", "result"} \/ note # {}
         /\ restored \/ \E V \in SUBSET Asks : /\ Words \subseteq V /\ V \cap note = {}
                                             /\ session.snap \in Chains(V)
         /\ chain' = chain /\ request' = Sent(c)
  BY AttemptFacts
<1>4. Ready(Sent(c), note)
  BY <1>1, <1>3, SentFacts
<1>5. Sending'
  BY <1>2, <1>3, <1>4 DEF Sending
<1>6. FlagsOK' /\ Reading' /\ Called' /\ Decided' /\ Fronted(chain')
  BY <1>2, <1>3 DEF SInv, FlagsOK, Reading, Called, Decided
<1>7. Unread'
  BY <1>2, UnreadNext
<1> QED BY <1>5, <1>6, <1>7 DEF SInv

\* one that fails,
LEMMA FailReady ==
    ASSUME IInv, SInv, IInv', Fail
    PROVE  SInv'
<1>1. PartsOK
  BY AllFacts
<1>2. loop \in Loops
  BY <1>1 DEF PartsOK
<1>3. /\ pc = "flight" /\ note' = {}
      /\ pc' = (IF loop.asking THEN "sending" ELSE "ready")
      /\ loop' = [loop EXCEPT !.tries = 0]
      /\ chain' = chain \/ (note = {} /\ chain' = request)
  BY DEF Fail, NoRequest
<1>4. /\ loop'.tries = 0 /\ loop'.asking = loop.asking /\ loop.waiting = FALSE /\ loop.tools = FALSE
      /\ loop'.waiting = FALSE /\ loop'.tools = FALSE
  BY <1>2, <1>3 DEF SInv, FlagsOK, Loops
<1>5. Ready(request, note)
  BY <1>3 DEF SInv, Sending
<1>6. Fronted(chain') /\ Settled(chain') /\ Greets(chain', {})
  BY <1>3, <1>5 DEF SInv, Reading, Ready
<1>7. loop.asking => LastRole(chain') \in {"user", "result"}
  BY <1>3, <1>5 DEF SInv, Reading, Ready
<1>8. FlagsOK' /\ Sending' /\ Called' /\ Decided'
  BY <1>3, <1>4 DEF FlagsOK, Sending, Called, Decided
<1>9. Reading'
  BY <1>3, <1>6, <1>7 DEF Reading
<1>10. Unread'
  BY <1>3, UnreadNext
<1> QED BY <1>6, <1>8, <1>9, <1>10 DEF SInv

\* a text that is sent back,
LEMMA TextReady ==
    ASSUME IInv, SInv, IInv', AnswerText
    PROVE  SInv'
<1>1. PartsOK /\ Words \subseteq All /\ request \in Chains(All)
  BY AllFacts
<1>2. loop \in Loops
  BY <1>1 DEF PartsOK
<1>3. /\ pc = "flight" /\ pc' = "sending" /\ note' = note /\ chain' = chain /\ restored' = restored
      /\ local' = WithDraft(Append(request, Assistant({"said"}, {})))
      /\ loop' = [loop EXCEPT !.tries = @ + 1] /\ session' = session
  BY DEF AnswerText
<1>4. /\ loop'.tries = loop.tries + 1 /\ loop'.tries > 0 /\ loop'.asking = loop.asking
      /\ loop'.waiting = loop.waiting /\ loop'.tools = loop.tools
  BY <1>2, <1>3, RequestsAssumption DEF Loops
<1>5. Ready(request, note)
  BY <1>3 DEF SInv, Sending
<1>6. Ready(local', note)
  BY <1>1, <1>3, <1>5, DraftReady
<1>7. Sending'
  BY <1>3, <1>6 DEF Sending
<1>8. FlagsOK' /\ Called' /\ Decided' /\ Fronted(chain')
  BY <1>3, <1>4 DEF SInv, FlagsOK, Called, Decided
<1>9. Reading'
  BY <1>3, <1>4 DEF SInv, Reading
<1>10. Unread'
  <2>1. Kept' = Kept
    BY SameSpeech DEF AnswerText
  <2> QED BY <1>3, <2>1, UnreadNext
<1> QED BY <1>7, <1>8, <1>9, <1>10 DEF SInv

\* an answer,
LEMMA AnswerReady ==
    ASSUME IInv, SInv, IInv',
           AnswerTextLast \/ \E ids \in (SUBSET CallIds) \ {{}} : AnswerCalls(ids)
    PROVE  SInv'
<1>1. PartsOK /\ Words \subseteq All /\ request \in Chains(All) /\ loop \in Loops
  BY AllFacts DEF PartsOK
<1>2. /\ pc = "flight" /\ pc' \in {"execute", "commit"} /\ note' = {}
      /\ loop' = [loop EXCEPT !.tries = 0, !.asking = FALSE, !.fresh = FALSE]
  BY DEF AnswerTextLast, AnswerCalls, Answer, NoRequest
<1>3. /\ loop'.tries = 0 /\ loop'.asking = FALSE /\ loop.waiting = FALSE /\ loop.tools = FALSE
      /\ loop'.waiting = FALSE /\ loop'.tools = FALSE
  BY <1>1, <1>2 DEF SInv, FlagsOK, Loops
<1>4. FlagsOK' /\ Reading' /\ Sending'
  BY <1>2, <1>3 DEF FlagsOK, Reading, Sending
<1>5. Unread'
  BY <1>2, UnreadNext
<1>6. Ready(request, note) /\ note \cap Words = {}
  BY <1>1, <1>2, RequestsAssumption DEF SInv, Sending, PartsOK
<1>7. CASE \E ids \in (SUBSET CallIds) \ {{}} : AnswerCalls(ids)
  <2>1. PICK ids \in (SUBSET CallIds) \ {{}} : AnswerCalls(ids)
    BY <1>7
  <2>2. pc' = "execute" /\ chain' = Continued(request, {}, ids) /\ ids \in SUBSET CallIds /\ ids # {}
    BY <2>1 DEF AnswerCalls, Answer
  <2>3. PICK q \in Chains(All) : Ready(q, {}) /\ Continued(request, {}, ids) = Append(q, Assistant({}, ids))
    BY <1>1, <1>6, <2>2, ContinuedCalls
  <2>4. Called'
    BY <2>2, <2>3 DEF Called
  <2>5. Fronted(chain')
    <3>1. Assistant({}, ids) \in Lines(All) /\ ~IsPinned(Assistant({}, ids))
      BY <2>2, MadeFacts DEF Assistant, Payload, IsPinned
    <3>2. InOrder(q, Append(q, Assistant({}, ids)))
      BY <3>1, AppendOrder
    <3> QED BY <2>2, <2>3, <3>2 DEF InOrder, Ready
  <2>6. Decided'
    BY <1>3, <2>2 DEF Decided
  <2> QED BY <1>4, <1>5, <2>4, <2>5, <2>6 DEF SInv
<1>8. CASE AnswerTextLast
  <2>1. pc' = "commit" /\ chain' = Continued(request, {"said"}, {})
    BY <1>8 DEF AnswerTextLast, Answer
  <2>2. Spoke(chain')
    BY <1>1, <1>6, <2>1, ContinuedSaid
  <2>3. Called'
    BY <2>1 DEF Called
  <2>4. Fronted(chain') /\ HasUser(chain')
    <3>1. chain' \in Chains(Talks')
      BY DEF IInv, ChainOK
    <3> HIDE <1>8
    <3>2. Greets(chain', {})
      BY <2>2 DEF Spoke
    <3>3. HasUser(chain')
      BY <3>1, <3>2, GreetsFacts
    <3> QED BY <2>2, <3>3 DEF Spoke
  <2>5. Decided'
    BY <1>3, <2>1, <2>2, <2>4 DEF Decided, Spoke, Last
  <2> QED BY <1>4, <1>5, <2>3, <2>4, <2>5 DEF SInv
<1> QED BY <1>7, <1>8

\* a round of calls,
LEMMA ExecuteReady ==
    ASSUME IInv, SInv, IInv', Execute
    PROVE  SInv'
<1>1. PartsOK /\ Words \subseteq All
  BY AllFacts
<1>2. /\ pc = "execute" /\ pc' = "commit" /\ note' = note /\ loop' = loop /\ restored' = restored
      /\ session' = session
  BY DEF Execute
<1>3. note = {}
  BY <1>1, <1>2 DEF PartsOK
<1>4. loop.tries = 0 /\ loop.asking = FALSE /\ loop.waiting = FALSE /\ loop.tools = FALSE
  <2>1. loop \in Loops
    BY <1>1 DEF PartsOK
  <2> QED BY <1>2, <2>1 DEF SInv, FlagsOK, Loops
<1>5. FlagsOK' /\ Reading' /\ Sending' /\ Called'
  BY <1>2, <1>4 DEF FlagsOK, Reading, Sending, Called
<1>6. Unread'
  BY <1>2, <1>3, UnreadNext
<1>7. PICK q \in Chains(All), ids \in SUBSET CallIds :
         ids # {} /\ Ready(q, {}) /\ chain = Append(q, Assistant({}, ids))
  BY <1>2 DEF SInv, Called
<1>8. PICK done \in SUBSET CallIds : \E left \in SUBSET done : chain' = Round(q, left, done)
  BY <1>7, ExecutedFacts
<1>9. PICK left \in SUBSET done : chain' = Round(q, left, done)
  BY <1>8
<1>10. left \in SUBSET CallIds
  BY <1>9
<1>11. LastRole(Prepare(Round(q, left, done))) \in {"user", "result"}
  BY <1>1, <1>7, <1>9, RoundPrepared
<1>12. InOrder(q, Round(q, left, done))
  BY <1>9, <1>10, RoundFacts
<1>13. Fronted(q) /\ HasUser(q)
  BY <1>7, GreetsFacts DEF Ready
<1>14. Fronted(chain') /\ HasUser(chain')
  BY <1>9, <1>12, <1>13 DEF InOrder
<1>15. Decided'
  BY <1>9, <1>11, <1>14 DEF Decided
<1> QED BY <1>5, <1>6, <1>14, <1>15 DEF SInv

\* an empty reply, after which the retry asks,
LEMMA EmptyReady ==
    ASSUME IInv, SInv, IInv', EmptyReply
    PROVE  SInv'
<1>1. PartsOK /\ Words \subseteq All /\ chain \in Chains(All) /\ loop \in Loops
  BY AllFacts DEF PartsOK
<1>2. /\ pc = "commit" /\ pc' = "sending" /\ note' = note /\ loop' = [loop EXCEPT !.asking = TRUE]
  BY DEF EmptyReply
<1>3. PICK ids : chain' = Prepare(Append(Prepare(PurgeReply(chain, ids)), User({"retry"})))
  BY DEF EmptyReply
<1> DEFINE a == PurgeReply(chain, ids)
           p == Prepare(a)
           d == Append(p, User({"retry"}))
<1>4. a \in Chains(All) /\ Fronted(a)
  BY <1>1, PurgeOrder DEF SInv
<1>5. chain' = Prepare(d)
  BY <1>3
<1> HIDE DEF a
<1>6. p \in Chains(All) /\ Settled(p) /\ Fronted(p)
  BY <1>1, <1>4, PrepareOrder DEF InOrder
<1> HIDE DEF p
<1>7. {"retry"} \in SUBSET All
  BY <1>1 DEF Words
<1>8. d \in Chains(All) /\ Ready(d, {})
  BY <1>6, <1>7, UserReady
<1> HIDE DEF d
<1>9. chain' = d
  BY <1>1, <1>5, <1>8, SettledPrepared DEF Ready
<1>10. /\ loop.tries = 0 /\ loop.waiting = FALSE /\ loop.tools = FALSE
       /\ loop'.tries = 0 /\ loop'.waiting = FALSE /\ loop'.tools = FALSE
  BY <1>1, <1>2 DEF SInv, FlagsOK, Loops
<1>11. FlagsOK' /\ Sending' /\ Called' /\ Decided'
  BY <1>2, <1>10 DEF FlagsOK, Sending, Called, Decided
<1>12. Fronted(chain') /\ Reading'
  BY <1>8, <1>9 DEF Ready, Reading
<1>13. Unread'
  <2>1. note' = {}
    BY <1>1, <1>2 DEF PartsOK
  <2> QED BY <2>1, UnreadNext
<1> QED BY <1>11, <1>12, <1>13 DEF SInv

\* and the decisions after which execute() goes on.
LEMMA CommitReady ==
    ASSUME IInv, SInv, IInv', CommitTools \/ CommitWait
    PROVE  SInv'
<1>1. PartsOK /\ Words \subseteq All /\ chain \in Chains(All) /\ loop \in Loops
  BY AllFacts DEF PartsOK
<1>2. pc = "commit" /\ pc' = "ready" /\ note' = note
  BY DEF CommitTools, CommitWait
<1>3. /\ loop.tries = 0 /\ loop.asking = FALSE /\ loop.waiting = FALSE /\ loop.tools = FALSE
  BY <1>1, <1>2 DEF SInv, FlagsOK, Loops
<1>4. /\ loop'.tries = 0 /\ loop'.asking = FALSE
      /\ CommitTools => loop'.waiting = FALSE /\ loop'.tools = TRUE
      /\ CommitWait => loop'.waiting = TRUE /\ loop'.tools = FALSE
  BY <1>1, <1>3 DEF CommitTools, CommitWait, Loops
<1>5. FlagsOK' /\ Reading' /\ Sending' /\ Called'
  BY <1>2, <1>4 DEF FlagsOK, Reading, Sending, Called
<1>6. Unread'
  <2>1. note' = {}
    BY <1>1, <1>2 DEF PartsOK
  <2> QED BY <2>1, UnreadNext
<1>7. CASE CommitTools
  <2>1. chain' = chain /\ Last(chain).role # "assistant"
    BY <1>7 DEF CommitTools
  <2>2. Fronted(chain') /\ Decided'
    BY <1>2, <2>1 DEF SInv, Decided
  <2> QED BY <1>5, <1>6, <2>2 DEF SInv
<1>8. CASE CommitWait
  <2>1. chain' = WithSuspend(chain)
    BY <1>8 DEF CommitWait
  <2>2. InOrder(chain, WithSuspend(chain))
    BY <1>1, SuspendOrder
  <2>3. Fronted(chain') /\ HasUser(chain')
    BY <1>2, <2>1, <2>2 DEF SInv, Decided, InOrder
  <2>4. Decided'
    BY <1>2, <1>4, <1>8, <2>3 DEF Decided
  <2> QED BY <1>5, <1>6, <2>3, <2>4 DEF SInv
<1> QED BY <1>7, <1>8

\* The request is ready in a fresh process,
LEMMA InitReady == Init => SInv
<1> SUFFICES ASSUME Init PROVE SInv
  OBVIOUS
<1>1. FlagsOK /\ Fronted(chain) /\ Reading /\ Sending /\ Called /\ Decided
  BY DEF Init, NewLoop, FlagsOK, Fronted, Reading, Sending, Called, Decided
<1>2. Unread
  BY DEF Init, NewSession, Unread, Chains
<1> QED BY <1>1, <1>2 DEF SInv

\* and each handler, crash and restart keeps it so.
LEMMA NextReady == IInv /\ SInv /\ [Next]_vars => SInv'
<1> SUFFICES ASSUME IInv, SInv, [Next]_vars PROVE SInv'
  OBVIOUS
<1>1. IInv'
  BY NextInv
<1>2. CASE Start
  BY <1>1, <1>2, StartReady
<1>3. CASE NewMessage \/ Followup
  BY <1>1, <1>3, TurnReady
<1>4. CASE Timeout
  BY <1>1, <1>4, TimeoutReady
<1>5. CASE Attempt
  BY <1>1, <1>5, AttemptReady
<1>6. CASE Fail
  BY <1>1, <1>6, FailReady
<1>7. CASE AnswerText
  BY <1>1, <1>7, TextReady
<1>8. CASE AnswerTextLast \/ \E ids \in (SUBSET CallIds) \ {{}} : AnswerCalls(ids)
  BY <1>1, <1>8, AnswerReady
<1>9. CASE Execute
  BY <1>1, <1>9, ExecuteReady
<1>10. CASE EmptyReply
  BY <1>1, <1>10, EmptyReady
<1>11. CASE CommitTools \/ CommitWait
  BY <1>1, <1>11, CommitReady
<1>12. CASE CommitStop \/ GiveUp \/ Clear \/ Crash
  <2>1. End
    BY <1>12 DEF CommitStop, GiveUp, Clear, Crash
  <2> QED BY <1>1, <2>1, EndReady
<1>13. CASE UNCHANGED vars
  <2>1. Kept' = Kept
    BY <1>13, SameSpeech DEF vars
  <2> QED BY <1>13, <2>1
          DEF vars, SInv, FlagsOK, Reading, Sending, Called, Decided, Unread
<1> QED BY <1>2, <1>3, <1>4, <1>5, <1>6, <1>7, <1>8, <1>9, <1>10, <1>11, <1>12, <1>13 DEF Next

\* No request the plugin makes has its roles out of order, a call without its
\* result or the model's word last, whatever failed, was cut short or came back
\* from disk before it.
THEOREM RequestsCanBeSent == Spec => []EveryRequestSendable
<1>1. IInv /\ SInv => EveryRequestSendable
  <2> SUFFICES ASSUME IInv, SInv, pc = "flight"
               PROVE  Sendable(request) /\ LastRole(request) \in {"user", "result"}
    BY DEF EveryRequestSendable
  <2>1. Settled(request) /\ LastRole(request) \in {"user", "result"}
    BY DEF SInv, Sending, Ready
  <2>2. request \in Chains(All)
    BY AllFacts
  <2> QED BY <2>1, <2>2, SettledSendable
<1> QED BY <1>1, InitInv, NextInv, InitReady, NextReady, PTL DEF Spec

-----------------------------------------------------------------------------
(* What a restart brings back                                              *)

\* As long as a request is in flight, the snapshot is the one captured of it, and
\* the stream counts as restored.
Captured == pc = "flight" => restored /\ session.snap = Capture(request)

\* That is so of a fresh process,
LEMMA InitCaptured == Init => Captured
BY DEF Init, Captured

\* and every step keeps it: only an attempt puts a request in flight.
LEMMA NextCaptured == IInv /\ SInv /\ Captured /\ [Next]_vars => Captured'
<1> SUFFICES ASSUME IInv, SInv, Captured, [Next]_vars PROVE Captured'
  OBVIOUS
<1>1. CASE Attempt
  <2>1. PICK c \in Chains(Asks) : request' = Sent(c) /\ session'.snap = Capture(Sent(c))
    BY <1>1, AttemptFacts
  <2>2. restored' = TRUE
    BY <1>1 DEF Attempt
  <2> QED BY <2>1, <2>2 DEF Captured
<1>2. CASE UNCHANGED vars
  BY <1>2 DEF vars, Captured
<1>3. CASE Next /\ ~Attempt
  <2>1. pc' # "flight"
    BY <1>3 DEF Next, Start, NewMessage, Followup, Timeout, Fail, AnswerText, AnswerTextLast,
                AnswerCalls, Execute, EmptyReply, CommitTools, CommitWait, CommitStop, GiveUp,
                Clear, Crash, End
  <2> QED BY <2>1 DEF Captured
<1> QED BY <1>1, <1>2, <1>3

\* A restart at any moment of a request would bring back all that was said in it
\* and all its turns, however it was put together.
THEOREM SnapshotIsFaithful == Spec => []SnapshotFaithful
<1>1. IInv /\ SInv /\ Captured => SnapshotFaithful
  <2> SUFFICES ASSUME IInv, SInv, Captured, pc = "flight"
               PROVE  /\ Said(Restore(session.snap)) = Said(request)
                      /\ Turns(Restore(session.snap)) = Turns(request)
    BY DEF SnapshotFaithful
  <2>1. session.snap = Capture(request) /\ Settled(request)
    BY DEF Captured, SInv, Sending, Ready
  <2>2. request \in Chains(All) /\ Words \subseteq All
    BY AllFacts
  <2> QED BY <2>1, <2>2, CapturedIsRestored
<1> QED BY <1>1, InitInv, NextInv, InitReady, NextReady, InitCaptured, NextCaptured, PTL DEF Spec

\* What is sent of a chain: with the history, if it is still to be put in, first.
LEMMA SentKeeps ==
    ASSUME NEW W, Words \subseteq W, note \in SUBSET W, NEW c \in Chains(W), Settled(c),
           restored \/ \E V \in SUBSET W : Words \subseteq V /\ session.snap \in Chains(V)
    PROVE  LET h == IF restored THEN <<>> ELSE Restore(session.snap)
           IN  /\ h \in Chains(W) /\ Settled(h)
               /\ Said(Sent(c)) = (Said(c) \cup note) \cup Said(h)
               /\ Groups(Sent(c)) = Groups(h) \o Groups(c)
<1> DEFINE v == View(c)
           x == WithHistory(v)
           h == IF restored THEN <<>> ELSE Restore(session.snap)
           u == User(note)
<1>1. note # {} => u \in Lines(W)
  <2>1. note # {} => note \in (SUBSET W) \ {{}}
    OBVIOUS
  <2> QED BY <2>1, MadeFacts
<1>2. u.role = "user" /\ u.calls = {} /\ u.text = note /\ ~HasCalls(u) /\ ~IsPinned(u)
  BY DEF User, Payload, HasCalls, IsPinned
<1>3. note # {} => v = Append(c, u)
  BY DEF View
<1>4. note = {} => v = c
  BY DEF View
<1> HIDE DEF u, v
<1>5. v \in Chains(W) /\ Settled(v) /\ Said(v) = Said(c) \cup note /\ Groups(v) = Groups(c)
  <2>1. CASE note = {}
    BY <1>4, <2>1
  <2>2. CASE note # {}
    <3>1. v \in Chains(W)
      BY <1>1, <1>3, <2>2, ChainFacts
    <3>2. Follows(v) /\ Owned(v) /\ Met(v, {}, 0)
      BY <1>1, <1>2, <1>3, <2>2, AppendSettles DEF Settled
    <3>3. Said(v) = Said(c) \cup (IF u.role = "user" THEN u.text ELSE {})
      BY <1>1, <1>3, <2>2, SaidAppend
    <3>4. Groups(v) = IF HasCalls(u) THEN Append(Groups(c), Group(u)) ELSE Groups(c)
      BY <1>1, <1>3, <2>2, GroupsAppend
    <3> QED BY <1>2, <3>1, <3>2, <3>3, <3>4 DEF Settled
  <2> QED BY <2>1, <2>2
<1>6. h \in Chains(W) /\ Settled(h)
  <2>1. CASE restored
    <3>1. <<>> \in Chains(W)
      BY DEF Chains
    <3> QED BY <2>1, <3>1, EmptySettled
  <2>2. CASE ~restored
    <3>1. PICK V \in SUBSET W : Words \subseteq V /\ session.snap \in Chains(V)
      BY <2>2
    <3>2. Restore(session.snap) \in Chains(V) /\ Settled(Restore(session.snap))
      BY <3>1, RestoreFacts, RestoreSettles
    <3>3. Restore(session.snap) \in Chains(W)
      BY <3>2, LinesGrow
    <3> QED BY <2>2, <3>2, <3>3
  <2> QED BY <2>1, <2>2
<1>7. restored => h = <<>> /\ x = v
  BY DEF WithHistory
<1>8. ~restored => x = Inject(v, h)
  BY DEF WithHistory
<1>9. Sent(c) = Repair(x)
  BY DEF Sent, v
<1> HIDE DEF h, x
<1>10. /\ x \in Chains(W) /\ Settled(x)
       /\ Said(x) = Said(v) \cup Said(h) /\ Groups(x) = Groups(h) \o Groups(v)
  <2>1. CASE restored
    <3>1. Said(<<>>) = {}
      BY DEF Said
    <3>2. Groups(<<>>) = <<>> /\ Groups(v) \in Seq(Closed)
      <4>1. System \in Lines(W)
        BY MadeFacts
      <4> QED BY <1>5, <4>1, GroupsAppend
    <3>3. <<>> \o Groups(v) = Groups(v)
      BY <3>2, ConcatEmptySeq
    <3> QED BY <1>5, <1>7, <2>1, <3>1, <3>2, <3>3
  <2>2. CASE ~restored
    <3>1. x \in Chains(W)
      BY <1>5, <1>6, <1>8, <2>2, InjectFacts
    <3>2. Settled(x)
      BY <1>5, <1>6, <1>8, <2>2, InjectSettles
    <3>3. /\ Said(Inject(v, h)) = Said(v) \cup Said(h)
          /\ Groups(Inject(v, h)) = Groups(h) \o Groups(v)
      BY <1>5, <1>6, InjectKeeps
    <3> QED BY <1>8, <2>2, <3>1, <3>2, <3>3
  <2> QED BY <2>1, <2>2
<1>11. Said(Repair(x)) = Said(x) /\ Groups(Repair(x)) = Groups(x)
  BY <1>10, SettledKeeps
<1> QED BY <1>5, <1>6, <1>9, <1>10, <1>11 DEF h

\* A chain that has the conversation the process was started with.
Knows(c) == Told(past.owed) \subseteq Told(c) /\ IsPrefix(Groups(past.owed), Groups(c))

\* Until the first attempt the conversation is what the snapshot would bring back;
\* until one ends, what is in flight or about to be sent again has it.
KInv ==
    /\ past.owed \in Chains(All) /\ Settled(past.owed)
    /\ ~restored => past.owed = <<>> \/ past.owed = Restore(session.snap)
    /\ restored /\ ~past.ended =>
         \/ pc = "flight" /\ Knows(request)
         \/ pc = "sending" /\ loop.tries > 0 /\ Knows(local)

\* A process that was not started yet owes nothing.
LEMMA InitKnows == Init => KInv
<1> SUFFICES ASSUME Init PROVE KInv
  OBVIOUS
<1>1. past.owed = <<>> /\ restored = FALSE
  BY DEF Init
<1>2. <<>> \in Chains(All)
  BY DEF Chains
<1> QED BY <1>1, <1>2, EmptySettled DEF KInv

\* A request that is made:
LEMMA AttemptKnows ==
    ASSUME IInv, SInv, KInv, Attempt
    PROVE  KInv'
<1>1. Words \subseteq Asks /\ note \subseteq Asks /\ Asks \subseteq All /\ Words \subseteq All
  BY AllFacts, SpeechFacts
<1>2. /\ pc' = "flight" /\ restored' = TRUE /\ past'.owed = past.owed /\ past'.ended = past.ended
      /\ pc = "sending" /\ loop' = loop
  <2>1. past \in Pasts
    BY DEF IInv, PartsOK
  <2> QED BY <2>1 DEF Attempt, Pasts
<1>3. PICK c \in Chains(Asks) :
         /\ c = IF loop.tries = 0 THEN chain ELSE local
         /\ Settled(c)
         /\ restored \/ \E V \in SUBSET Asks : Words \subseteq V /\ session.snap \in Chains(V)
         /\ request' = Sent(c)
  BY AttemptFacts
<1>4. past.owed \in Chains(All) /\ Settled(past.owed)
  BY DEF KInv
<1> DEFINE h == IF restored THEN <<>> ELSE Restore(session.snap)
<1>5. /\ h \in Chains(Asks)
      /\ Said(request') = (Said(c) \cup note) \cup Said(h)
      /\ Groups(request') = Groups(h) \o Groups(c)
  BY <1>1, <1>3, SentKeeps
<1>6. h \in Chains(All) /\ c \in Chains(All)
  BY <1>1, <1>5, LinesGrow
<1>7. Groups(h) \in Seq(Closed) /\ Groups(c) \in Seq(Closed) /\ Groups(<<>>) = <<>>
  <2>1. System \in Lines(All)
    BY MadeFacts
  <2> QED BY <1>6, <2>1, GroupsAppend
<1>8. ASSUME ~past.ended PROVE Told(past.owed) \subseteq Told(request')
                              /\ IsPrefix(Groups(past.owed), Groups(request'))
  <2>1. CASE restored
    <3>1. Knows(local) /\ c = local
      BY <1>2, <1>3, <1>8, <2>1, RequestsAssumption DEF KInv, IInv, PartsOK, Loops
    <3>2. Groups(request') = Groups(c)
      <4>1. h = <<>>
        BY <2>1
      <4> HIDE DEF h
      <4>2. <<>> \o Groups(c) = Groups(c)
        BY <1>7, ConcatEmptySeq
      <4> QED BY <1>5, <1>7, <4>1, <4>2
    <3>3. Said(c) \subseteq Said(request')
      BY <1>5
    <3> QED BY <3>1, <3>2, <3>3 DEF Knows, Told
  <2>2. CASE ~restored /\ past.owed = <<>>
    <3>1. Told(past.owed) = {}
      BY <2>2 DEF Told, Said
    <3>2. Groups(request') \in Seq(Closed)
      <4> HIDE DEF h
      <4> QED BY <1>5, <1>7, ConcatProperties
    <3>3. IsPrefix(Groups(past.owed), Groups(request'))
      BY <1>7, <2>2, <3>2, PrefixFacts
    <3> QED BY <3>1, <3>3
  <2>3. CASE ~restored /\ past.owed = Restore(session.snap)
    <3>1. h = past.owed
      BY <2>3
    <3> HIDE DEF h
    <3>2. Said(past.owed) \subseteq Said(request')
      BY <1>5, <3>1
    <3>3. IsPrefix(Groups(h), Groups(h) \o Groups(c))
      BY <1>7, PrefixFacts
    <3> QED BY <1>5, <3>1, <3>2, <3>3 DEF Told
  <2> QED BY <2>1, <2>2, <2>3 DEF KInv
<1>9. ~past'.ended => Knows(request)'
  BY <1>2, <1>8 DEF Knows, Told
<1> QED BY <1>2, <1>4, <1>9 DEF KInv

\* a text, which is sent back with all there was before it,
LEMMA TextKnows ==
    ASSUME IInv, SInv, KInv, AnswerText
    PROVE  KInv'
<1>1. Words \subseteq All /\ request \in Chains(All) /\ loop \in Loops
  BY AllFacts DEF PartsOK
<1>2. /\ pc = "flight" /\ pc' = "sending" /\ restored' = restored /\ past' = past
      /\ local' = WithDraft(Append(request, Assistant({"said"}, {}))) /\ session' = session
      /\ loop' = [loop EXCEPT !.tries = @ + 1]
  BY DEF AnswerText
<1>3. loop'.tries > 0
  BY <1>1, <1>2, RequestsAssumption DEF Loops
<1>4. Groups(local') = Groups(request) /\ Said(local') = Said(request) \cup {"followup"}
  BY <1>1, <1>2, DraftKeeps
<1>5. restored /\ ~past.ended => Knows(local)'
  <2> SUFFICES ASSUME restored, ~past.ended PROVE Knows(local)'
    OBVIOUS
  <2>1. Knows(request)
    BY <1>2 DEF KInv
  <2> QED BY <1>2, <1>4, <2>1 DEF Knows, Told
<1> QED BY <1>2, <1>3, <1>5 DEF KInv

\* and every other step.
LEMMA NextKnows == IInv /\ SInv /\ KInv /\ [Next]_vars => KInv'
<1> SUFFICES ASSUME IInv, SInv, KInv, [Next]_vars PROVE KInv'
  OBVIOUS
<1>1. past \in Pasts
  BY DEF IInv, PartsOK
<1>2. /\ past.owed \in Chains(All) /\ Settled(past.owed)
      /\ ~restored => past.owed = <<>> \/ past.owed = Restore(session.snap)
  BY DEF KInv
<1>3. session \in [saved : Entries(Talks), snap : Chains(Kept), flag : BOOLEAN]
      /\ disk = OnDisk(session)
  BY DEF IInv, SessionOK
<1>4. CASE Attempt
  BY <1>4, AttemptKnows
<1>5. CASE AnswerText
  BY <1>5, TextKnows
<1>6. CASE Fail \/ AnswerTextLast \/ (\E ids \in (SUBSET CallIds) \ {{}} : AnswerCalls(ids)) \/ GiveUp
  <2>1. /\ past'.owed = past.owed /\ past'.ended = TRUE
        /\ restored' = restored /\ session' = session
    BY <1>1, <1>6 DEF Fail, AnswerTextLast, AnswerCalls, Answer, GiveUp, Pasts
  <2> QED BY <1>2, <2>1 DEF KInv
<1>7. CASE Start \/ NewMessage \/ Followup \/ Timeout \/ Execute \/ EmptyReply
              \/ CommitTools \/ CommitWait \/ CommitStop
  <2>1. restored' = restored /\ past' = past
    BY <1>7 DEF Start, NewMessage, Followup, Timeout, Execute, EmptyReply, CommitTools,
                CommitWait, CommitStop
  <2>2. session'.snap = session.snap
    BY <1>3, <1>7 DEF Start, NewMessage, Followup, Timeout, Execute, EmptyReply, CommitTools,
                CommitWait, CommitStop, PreSave, Reply, Save
  <2>3. restored => past.ended
    <3>1. loop.tries > 0 => pc \in {"sending", "flight"}
      BY DEF SInv, FlagsOK
    <3>2. pc \notin {"sending", "flight"}
      BY <1>7 DEF Start, NewMessage, Followup, Timeout, Execute, EmptyReply, CommitTools,
                  CommitWait, CommitStop
    <3> QED BY <3>2 DEF KInv
  <2> QED BY <1>2, <2>1, <2>2, <2>3 DEF KInv
<1>8. CASE Clear
  <2>1. past'.owed = <<>> /\ restored' = FALSE
    BY <1>1, <1>8 DEF Clear, Pasts
  <2>2. <<>> \in Chains(All)
    BY DEF Chains
  <2> QED BY <2>1, <2>2, EmptySettled DEF KInv
<1>9. CASE Crash
  <2>1. /\ past'.owed = Restore(session.snap) /\ restored' = FALSE
        /\ session'.snap = session.snap
    BY <1>1, <1>3, <1>9 DEF Crash, Pasts, OnDisk
  <2>2. session.snap \in Chains(All) /\ Words \subseteq All
    <3>1. Kept \subseteq All
      BY AllFacts, SpeechFacts
    <3> QED BY <1>3, <3>1, AllFacts, LinesGrow
  <2>3. Restore(session.snap) \in Chains(All) /\ Settled(Restore(session.snap))
    BY <2>2, RestoreFacts, RestoreSettles
  <2> QED BY <2>1, <2>3 DEF KInv
<1>10. CASE UNCHANGED vars
  BY <1>10 DEF vars, KInv, Knows, Told
<1> QED BY <1>4, <1>5, <1>6, <1>7, <1>8, <1>9, <1>10 DEF Next

\* The first request after a restart, also when it is made several times because
\* the model answered with text, has all of the conversation the process was
\* started with, calls and results included.
THEOREM RestartsKnowHistory == Spec => []RestartKnowsHistory
<1>1. IInv /\ SInv /\ Captured /\ KInv => RestartKnowsHistory
  <2> SUFFICES ASSUME IInv, SInv, Captured, KInv, pc = "flight", ~past.ended
               PROVE  /\ Told(past.owed) \subseteq Told(request)
                      /\ IsPrefix(Turns(past.owed), Turns(request))
    BY DEF RestartKnowsHistory
  <2>1. restored
    BY DEF Captured
  <2>2. Knows(request)
    BY <2>1 DEF KInv
  <2>3. Turns(past.owed) = Groups(past.owed)
    BY SettledTurns DEF KInv
  <2>4. Turns(request) = Groups(request)
    <3>1. Settled(request)
      BY DEF SInv, Sending, Ready
    <3> QED BY <3>1, AllFacts, SettledTurns
  <2> QED BY <2>2, <2>3, <2>4 DEF Knows
<1> QED BY <1>1, InitInv, NextInv, InitReady, NextReady, InitCaptured, NextCaptured,
           InitKnows, NextKnows, PTL DEF Spec

-----------------------------------------------------------------------------
(* Who said what, and what was said last                                   *)

\* What a user says of m.
Voice(p, m) == IF p.role = "user" THEN p.text \cap m ELSE {}

\* Whatever d says of m, c says, and in that order.
Recalls(c, d, m) ==
    /\ \A k \in 1..Len(d) : Voice(d[k], m) # {} =>
          \E i \in 1..Len(c) : Voice(c[i], m) = Voice(d[k], m)
    /\ \A j, k \in 1..Len(d) : j < k /\ Voice(d[j], m) # {} /\ Voice(d[k], m) # {} =>
          \E g, i \in 1..Len(c) : /\ g < i /\ Voice(c[g], m) = Voice(d[j], m)
                                  /\ Voice(c[i], m) = Voice(d[k], m)

\* A user who says nothing of n.
Asker(p, n) == p.role = "user" /\ p.text \cap n = {}

\* The last of those in c says t; or there is none, and t is empty.
Ends(c, n, t) ==
    \/ t = {} /\ \A i \in 1..Len(c) : ~Asker(c[i], n)
    \/ \E i \in 1..Len(c) : /\ Asker(c[i], n) /\ c[i].text = t
                            /\ \A j \in (i + 1)..Len(c) : ~Asker(c[j], n)

\* What is said last, but for n.
LastText(c, n) == CHOOSE t : Ends(c, n, t)

\* The last of them says one text,
LEMMA EndsOnce ==
    ASSUME NEW W, NEW c \in Chains(W), NEW n
    PROVE  \A t : Ends(c, n, t) <=> LastText(c, n) = t
<1> DEFINE N == Len(c)
           U == {i \in 1..N : Asker(c[i], n)}
<1>1. N \in Nat
  BY ChainFacts
<1>2. \E t : Ends(c, n, t)
  <2>1. CASE U = {}
    BY <2>1 DEF Ends
  <2>2. CASE U # {}
    <3>1. PICK i \in U : \A j \in U : j <= i
      <4> HIDE DEF N
      <4>1. U \in SUBSET (1..N)
        OBVIOUS
      <4> HIDE DEF U
      <4> QED BY <1>1, <2>2, <4>1, Largest
    <3>2. \A j \in (i + 1)..N : j \in 1..N /\ ~(j <= i)
      BY <1>1
    <3>3. \A j \in (i + 1)..N : ~Asker(c[j], n)
      BY <3>1, <3>2
    <3>4. Ends(c, n, c[i].text)
      BY <3>1, <3>3 DEF Ends
    <3> QED BY <3>4
  <2> QED BY <2>1, <2>2
<1>3. Ends(c, n, LastText(c, n))
  BY <1>2 DEF LastText
<1>4. ASSUME NEW s, NEW t, Ends(c, n, s), Ends(c, n, t) PROVE s = t
  <2>1. CASE \A i \in 1..Len(c) : ~Asker(c[i], n)
    BY <1>4, <2>1 DEF Ends
  <2>2. CASE \E i \in 1..Len(c) : Asker(c[i], n)
    <3>1. PICK i \in 1..N : /\ Asker(c[i], n) /\ c[i].text = s
                            /\ \A j \in (i + 1)..N : ~Asker(c[j], n)
      BY <1>4, <2>2 DEF Ends
    <3>2. PICK k \in 1..N : /\ Asker(c[k], n) /\ c[k].text = t
                            /\ \A j \in (k + 1)..N : ~Asker(c[j], n)
      BY <1>4, <2>2 DEF Ends
    <3>3. i = k
      <4>1. k \notin (i + 1)..N /\ i \notin (k + 1)..N
        BY <3>1, <3>2
      <4> HIDE DEF N
      <4> QED BY <1>1, <4>1
    <3> QED BY <3>1, <3>2, <3>3
  <2> QED BY <2>1, <2>2
<1> QED BY <1>3, <1>4

\* with one more payload,
LEMMA LastTextAppend ==
    ASSUME NEW W, NEW c \in Chains(W), NEW p \in Lines(W), NEW n
    PROVE  LastText(Append(c, p), n) = IF Asker(p, n) THEN p.text ELSE LastText(c, n)
<1> DEFINE d == Append(c, p)
           N == Len(c)
<1>1. N \in Nat /\ d \in Chains(W) /\ Len(d) = N + 1 /\ d[N + 1] = p /\ \A k \in 1..N : d[k] = c[k]
  BY AppendGroups
<1> HIDE DEF d
<1>2. CASE Asker(p, n)
  <2>1. N + 1 \in 1..Len(d) /\ \A j \in ((N + 1) + 1)..Len(d) : FALSE
    BY <1>1
  <2>2. Ends(d, n, p.text)
    BY <1>1, <1>2, <2>1 DEF Ends
  <2> QED BY <1>1, <1>2, <2>2, EndsOnce DEF d
<1>3. CASE ~Asker(p, n)
  <2> DEFINE t == LastText(c, n)
  <2>1. Ends(c, n, t)
    BY EndsOnce
  <2> HIDE DEF t
  <2>2. \A j \in 1..Len(d) : j \in 1..N \/ j = N + 1
    BY <1>1
  <2>3. CASE \A i \in 1..N : ~Asker(c[i], n)
    <3>1. t = {}
      BY <2>1, <2>3 DEF Ends
    <3>2. Ends(d, n, t)
      BY <1>1, <1>3, <2>2, <2>3, <3>1 DEF Ends
    <3> QED BY <1>1, <1>3, <3>2, EndsOnce DEF d, t
  <2>4. CASE \E i \in 1..N : Asker(c[i], n)
    <3>1. PICK i \in 1..N : /\ Asker(c[i], n) /\ c[i].text = t
                            /\ \A j \in (i + 1)..N : ~Asker(c[j], n)
      BY <2>1, <2>4 DEF Ends
    <3>2. i \in 1..Len(d) /\ \A j \in (i + 1)..Len(d) : (j \in (i + 1)..N /\ j \in 1..N) \/ j = N + 1
      BY <1>1
    <3>3. Asker(d[i], n) /\ d[i].text = t /\ \A j \in (i + 1)..Len(d) : ~Asker(d[j], n)
      BY <1>1, <1>3, <3>1, <3>2
    <3>4. Ends(d, n, t)
      BY <3>2, <3>3 DEF Ends
    <3> QED BY <1>1, <1>3, <3>4, EndsOnce DEF d, t
  <2> QED BY <2>3, <2>4
<1> QED BY <1>2, <1>3

\* and of some payloads of a chain, in their order.
Picks(d, c, at) ==
    /\ at \in [1..Len(d) -> 1..Len(c)]
    /\ \A k \in 1..Len(d) : d[k] = c[at[k]]
    /\ \A j, k \in 1..Len(d) : j < k => at[j] < at[k]

\* which is the last as well when no user who says nothing of n is left out.
LEMMA LastTextPicks ==
    ASSUME NEW W, NEW c \in Chains(W), NEW d \in Chains(W), NEW at, Picks(d, c, at), NEW n, NEW o,
           \A k \in 1..Len(d) : Asker(d[k], o) <=> Asker(d[k], n),
           \A i \in 1..Len(c) : Asker(c[i], n) => \E k \in 1..Len(d) : at[k] = i
    PROVE  LastText(d, o) = LastText(c, n)
<1> DEFINE t == LastText(c, n)
<1>1. Len(c) \in Nat /\ Len(d) \in Nat
  BY ChainFacts
<1>2. Ends(c, n, t)
  BY EndsOnce
<1> HIDE DEF t
<1>3. /\ \A k \in 1..Len(d) : at[k] \in 1..Len(c) /\ d[k] = c[at[k]]
      /\ \A j, k \in 1..Len(d) : j < k => at[j] < at[k]
  BY DEF Picks
<1>4. CASE \A i \in 1..Len(c) : ~Asker(c[i], n)
  <2>1. \A k \in 1..Len(d) : ~Asker(d[k], o)
    BY <1>3, <1>4
  <2>2. t = {}
    BY <1>2, <1>4 DEF Ends
  <2>3. Ends(d, o, t)
    BY <2>1, <2>2 DEF Ends
  <2> QED BY <2>3, EndsOnce DEF t
<1>5. CASE \E i \in 1..Len(c) : Asker(c[i], n)
  <2>1. PICK i \in 1..Len(c) : /\ Asker(c[i], n) /\ c[i].text = t
                               /\ \A j \in (i + 1)..Len(c) : ~Asker(c[j], n)
    BY <1>2, <1>5 DEF Ends
  <2>2. PICK k \in 1..Len(d) : at[k] = i
    BY <2>1
  <2>3. Asker(d[k], o) /\ d[k].text = t
    BY <1>3, <2>1, <2>2
  <2>4. ASSUME NEW j \in (k + 1)..Len(d) PROVE ~Asker(d[j], o)
    <3>1. j \in 1..Len(d) /\ k < j
      BY <1>1
    <3>2. at[j] \in (i + 1)..Len(c)
      <4>1. at[k] < at[j] /\ at[j] \in 1..Len(c)
        BY <1>3, <3>1
      <4> QED BY <1>1, <2>2, <4>1
    <3>3. ~Asker(c[at[j]], n)
      BY <2>1, <3>2
    <3> QED BY <1>3, <3>1, <3>3
  <2>5. Ends(d, o, t)
    BY <2>3, <2>4 DEF Ends
  <2> QED BY <2>5, EndsOnce DEF t
<1> QED BY <1>4, <1>5

\* What is picked is told in the same order.
LEMMA RecallsPicks ==
    ASSUME NEW c, NEW d, NEW at, Picks(d, c, at), NEW m
    PROVE  Recalls(c, d, m)
<1>1. /\ \A k \in 1..Len(d) : at[k] \in 1..Len(c) /\ d[k] = c[at[k]]
      /\ \A j, k \in 1..Len(d) : j < k => at[j] < at[k]
  BY DEF Picks
<1>2. ASSUME NEW k \in 1..Len(d)
      PROVE  \E i \in 1..Len(c) : Voice(c[i], m) = Voice(d[k], m)
  <2>1. at[k] \in 1..Len(c) /\ d[k] = c[at[k]]
    BY <1>1
  <2> QED BY <2>1
<1>3. ASSUME NEW j \in 1..Len(d), NEW k \in 1..Len(d), j < k
      PROVE  \E g, i \in 1..Len(c) : /\ g < i /\ Voice(c[g], m) = Voice(d[j], m)
                                     /\ Voice(c[i], m) = Voice(d[k], m)
  <2>1. at[j] \in 1..Len(c) /\ d[j] = c[at[j]] /\ at[k] \in 1..Len(c) /\ d[k] = c[at[k]]
    BY <1>1
  <2>2. at[j] < at[k]
    BY <1>1, <1>3
  <2> QED BY <2>1, <2>2
<1> QED BY <1>2, <1>3 DEF Recalls

-----------------------------------------------------------------------------
(* What the sanitizers and the snapshot tell again                         *)

\* d says of m what c says, and its last word, but for n, is that of c or a bridge.
Echoes(c, d, m, n) ==
    Recalls(c, d, m) /\ LastText(d, n) \in {LastText(c, n), {"bridge"}}

\* What a chain says it says,
LEMMA RecallsSelf ==
    ASSUME NEW c, NEW m
    PROVE  Recalls(c, c, m)
BY DEF Recalls

\* and what is told again of what was told again was told.
LEMMA RecallsOn ==
    ASSUME NEW c, NEW d, NEW e, NEW m, Recalls(c, d, m), Recalls(d, e, m)
    PROVE  Recalls(c, e, m)
<1>1. ASSUME NEW k \in 1..Len(e), Voice(e[k], m) # {}
      PROVE  \E i \in 1..Len(c) : Voice(c[i], m) = Voice(e[k], m)
  <2>1. PICK i \in 1..Len(d) : Voice(d[i], m) = Voice(e[k], m)
    BY <1>1 DEF Recalls
  <2>2. \E h \in 1..Len(c) : Voice(c[h], m) = Voice(d[i], m)
    BY <1>1, <2>1 DEF Recalls
  <2> QED BY <2>1, <2>2
<1>2. ASSUME NEW j \in 1..Len(e), NEW k \in 1..Len(e), j < k,
             Voice(e[j], m) # {}, Voice(e[k], m) # {}
      PROVE  \E g, i \in 1..Len(c) : /\ g < i /\ Voice(c[g], m) = Voice(e[j], m)
                                     /\ Voice(c[i], m) = Voice(e[k], m)
  <2>1. PICK g \in 1..Len(d), i \in 1..Len(d) :
            g < i /\ Voice(d[g], m) = Voice(e[j], m) /\ Voice(d[i], m) = Voice(e[k], m)
    BY <1>2 DEF Recalls
  <2>2. \E x, y \in 1..Len(c) : /\ x < y /\ Voice(c[x], m) = Voice(d[g], m)
                                /\ Voice(c[y], m) = Voice(d[i], m)
    BY <1>2, <2>1 DEF Recalls
  <2> QED BY <2>1, <2>2
<1> QED BY <1>1, <1>2 DEF Recalls

\* A chain with one more, payload by payload.
LEMMA OneMore ==
    ASSUME NEW W, NEW c \in Chains(W), NEW p \in Lines(W)
    PROVE  LET d == Append(c, p)
           IN  /\ Len(c) \in Nat /\ d \in Chains(W) /\ Len(d) = Len(c) + 1
               /\ d[Len(c) + 1] = p /\ \A k \in 1..Len(c) : d[k] = c[k]
BY AppendGroups, ChainFacts

\* One more in both,
LEMMA RecallsBoth ==
    ASSUME NEW W, NEW c \in Chains(W), NEW d \in Chains(W), NEW m, Recalls(c, d, m),
           NEW p \in Lines(W), NEW q \in Lines(W), Voice(q, m) \in {Voice(p, m), {}}
    PROVE  Recalls(Append(c, p), Append(d, q), m)
<1> DEFINE x == Append(c, p)
           y == Append(d, q)
           N == Len(c)
           M == Len(d)
<1>1. N \in Nat /\ Len(x) = N + 1 /\ x[N + 1] = p /\ \A k \in 1..N : x[k] = c[k]
  BY OneMore
<1>2. M \in Nat /\ Len(y) = M + 1 /\ y[M + 1] = q /\ \A k \in 1..M : y[k] = d[k]
  BY OneMore
<1> HIDE DEF x, y
<1>3. \A k \in 1..Len(y) : k \in 1..M \/ k = M + 1
  BY <1>2
<1>4. N + 1 \in 1..Len(x) /\ \A k \in 1..N : k \in 1..Len(x) /\ k < N + 1
  BY <1>1
<1>5. ASSUME NEW k \in 1..M, Voice(y[k], m) # {}
      PROVE  \E i \in 1..N : Voice(x[i], m) = Voice(y[k], m)
  <2>1. y[k] = d[k]
    BY <1>2
  <2>2. PICK i \in 1..N : Voice(c[i], m) = Voice(d[k], m)
    BY <1>5, <2>1 DEF Recalls
  <2> QED BY <1>1, <2>1, <2>2
<1>6. Voice(y[M + 1], m) # {} => Voice(x[N + 1], m) = Voice(y[M + 1], m)
  BY <1>1, <1>2
<1>7. ASSUME NEW k \in 1..Len(y), Voice(y[k], m) # {}
      PROVE  \E i \in 1..Len(x) : Voice(x[i], m) = Voice(y[k], m)
  <2>1. CASE k \in 1..M
    BY <1>4, <1>5, <1>7, <2>1
  <2>2. CASE k = M + 1
    BY <1>4, <1>6, <1>7, <2>2
  <2> QED BY <1>3, <2>1, <2>2
<1>8. ASSUME NEW j \in 1..Len(y), NEW k \in 1..Len(y), j < k,
             Voice(y[j], m) # {}, Voice(y[k], m) # {}
      PROVE  \E g, i \in 1..Len(x) : /\ g < i /\ Voice(x[g], m) = Voice(y[j], m)
                                     /\ Voice(x[i], m) = Voice(y[k], m)
  <2>1. j \in 1..M
    BY <1>2, <1>8
  <2>2. CASE k \in 1..M
    <3>1. y[j] = d[j] /\ y[k] = d[k]
      BY <1>2, <2>1, <2>2
    <3>2. PICK g \in 1..N, i \in 1..N : /\ g < i /\ Voice(c[g], m) = Voice(d[j], m)
                                         /\ Voice(c[i], m) = Voice(d[k], m)
      BY <1>8, <2>1, <2>2, <3>1 DEF Recalls
    <3> QED BY <1>1, <1>4, <3>1, <3>2
  <2>3. CASE k = M + 1
    <3>1. PICK g \in 1..N : Voice(x[g], m) = Voice(y[j], m)
      BY <1>5, <1>8, <2>1
    <3> QED BY <1>4, <1>6, <1>8, <2>3, <3>1
  <2> QED BY <1>3, <2>2, <2>3
<1> QED BY <1>7, <1>8 DEF Recalls, x, y

\* one more in either,
LEMMA RecallsMore ==
    ASSUME NEW W, NEW c \in Chains(W), NEW d \in Chains(W), NEW m, Recalls(c, d, m),
           NEW p \in Lines(W)
    PROVE  /\ Recalls(Append(c, p), d, m)
           /\ Voice(p, m) = {} => Recalls(c, Append(d, p), m)
<1> DEFINE x == Append(c, p)
           y == Append(d, p)
           N == Len(c)
           M == Len(d)
<1>1. N \in Nat /\ Len(x) = N + 1 /\ x[N + 1] = p /\ \A k \in 1..N : x[k] = c[k]
  BY OneMore
<1>2. M \in Nat /\ Len(y) = M + 1 /\ y[M + 1] = p /\ \A k \in 1..M : y[k] = d[k]
  BY OneMore
<1> HIDE DEF x, y
<1>3. Recalls(x, d, m)
  <2>1. \A k \in 1..N : k \in 1..Len(x) /\ x[k] = c[k]
    BY <1>1
  <2>2. ASSUME NEW k \in 1..M, Voice(d[k], m) # {}
        PROVE  \E i \in 1..Len(x) : Voice(x[i], m) = Voice(d[k], m)
    <3>1. PICK i \in 1..N : Voice(c[i], m) = Voice(d[k], m)
      BY <2>2 DEF Recalls
    <3> QED BY <2>1, <3>1
  <2>3. ASSUME NEW j \in 1..M, NEW k \in 1..M, j < k, Voice(d[j], m) # {}, Voice(d[k], m) # {}
        PROVE  \E g, i \in 1..Len(x) : /\ g < i /\ Voice(x[g], m) = Voice(d[j], m)
                                       /\ Voice(x[i], m) = Voice(d[k], m)
    <3>1. PICK g \in 1..N, i \in 1..N : /\ g < i /\ Voice(c[g], m) = Voice(d[j], m)
                                         /\ Voice(c[i], m) = Voice(d[k], m)
      BY <2>3 DEF Recalls
    <3> QED BY <2>1, <3>1
  <2> QED BY <2>2, <2>3 DEF Recalls
<1>4. ASSUME Voice(p, m) = {} PROVE Recalls(c, y, m)
  <2>1. \A k \in 1..Len(y) : Voice(y[k], m) # {} => k \in 1..M /\ y[k] = d[k]
    <3>1. \A k \in 1..Len(y) : k \in 1..M \/ k = M + 1
      BY <1>2
    <3> QED BY <1>2, <1>4, <3>1
  <2>2. ASSUME NEW k \in 1..Len(y), Voice(y[k], m) # {}
        PROVE  \E i \in 1..N : Voice(c[i], m) = Voice(y[k], m)
    <3>1. k \in 1..M /\ y[k] = d[k]
      BY <2>1, <2>2
    <3> QED BY <2>2, <3>1 DEF Recalls
  <2>3. ASSUME NEW j \in 1..Len(y), NEW k \in 1..Len(y), j < k,
               Voice(y[j], m) # {}, Voice(y[k], m) # {}
        PROVE  \E g, i \in 1..N : /\ g < i /\ Voice(c[g], m) = Voice(y[j], m)
                                  /\ Voice(c[i], m) = Voice(y[k], m)
    <3>1. j \in 1..M /\ y[j] = d[j] /\ k \in 1..M /\ y[k] = d[k]
      BY <2>1, <2>3
    <3>2. Voice(d[j], m) # {} /\ Voice(d[k], m) # {}
      BY <2>3, <3>1
    <3>3. \E g, i \in 1..N : /\ g < i /\ Voice(c[g], m) = Voice(d[j], m)
                             /\ Voice(c[i], m) = Voice(d[k], m)
      BY <2>3, <3>1, <3>2 DEF Recalls
    <3> QED BY <3>1, <3>3
  <2> QED BY <2>2, <2>3 DEF Recalls
<1> QED BY <1>3, <1>4 DEF x, y

\* and the same users in the same places.
LEMMA RecallsSame ==
    ASSUME NEW c, NEW d, Len(d) = Len(c), NEW m,
           \A k \in 1..Len(c) : Voice(d[k], m) = Voice(c[k], m)
    PROVE  Recalls(c, d, m)
BY DEF Recalls

\* The last word is the same when only others change.
LEMMA LastTextSame ==
    ASSUME NEW W, NEW c \in Chains(W), NEW d \in Chains(W), Len(d) = Len(c), NEW n,
           \A k \in 1..Len(c) : d[k] = c[k] \/ (~Asker(d[k], n) /\ ~Asker(c[k], n))
    PROVE  LastText(d, n) = LastText(c, n)
<1>1. Ends(c, n, LastText(c, n)) /\ Len(c) \in Nat
  BY EndsOnce, ChainFacts
<1> DEFINE t == LastText(c, n)
<1> HIDE DEF t
<1>2. Ends(c, n, t)
  BY <1>1 DEF t
<1>3. \A k \in 1..Len(c) : Asker(d[k], n) <=> Asker(c[k], n)
  OBVIOUS
<1>4. CASE \A i \in 1..Len(c) : ~Asker(c[i], n)
  <2>1. t = {}
    BY <1>2, <1>4 DEF Ends
  <2>2. Ends(d, n, t)
    BY <1>3, <1>4, <2>1 DEF Ends
  <2> QED BY <2>2, EndsOnce DEF t
<1>5. CASE \E i \in 1..Len(c) : Asker(c[i], n)
  <2>1. PICK i \in 1..Len(c) : /\ Asker(c[i], n) /\ c[i].text = t
                               /\ \A j \in (i + 1)..Len(c) : ~Asker(c[j], n)
    BY <1>2, <1>5 DEF Ends
  <2>2. \A j \in (i + 1)..Len(c) : j \in 1..Len(c)
    BY <1>1
  <2>3. Asker(d[i], n) /\ d[i].text = t /\ \A j \in (i + 1)..Len(d) : ~Asker(d[j], n)
    BY <1>3, <2>1, <2>2
  <2>4. Ends(d, n, t)
    BY <2>1, <2>3 DEF Ends
  <2> QED BY <2>4, EndsOnce DEF t
<1> QED BY <1>4, <1>5

\* So it is with echoes: of an echo,
LEMMA EchoOn ==
    ASSUME NEW c, NEW d, NEW e, NEW m, NEW n, Echoes(c, d, m, n), Echoes(d, e, m, n)
    PROVE  Echoes(c, e, m, n)
<1>1. Recalls(c, e, m)
  BY RecallsOn DEF Echoes
<1>2. LastText(e, n) \in {LastText(c, n), {"bridge"}}
  BY DEF Echoes
<1> QED BY <1>1, <1>2 DEF Echoes

\* a chain of itself,
LEMMA EchoSelf ==
    ASSUME NEW c, NEW m, NEW n
    PROVE  Echoes(c, c, m, n)
BY RecallsSelf DEF Echoes

\* with one more, the same or one nobody hears, in both,
LEMMA EchoBoth ==
    ASSUME NEW W, NEW c \in Chains(W), NEW d \in Chains(W), NEW m, NEW n, Echoes(c, d, m, n),
           NEW p \in Lines(W), NEW q \in Lines(W), p = q \/ (p.role # "user" /\ q.role # "user")
    PROVE  Echoes(Append(c, p), Append(d, q), m, n)
<1>1. Recalls(c, d, m) /\ LastText(d, n) \in {LastText(c, n), {"bridge"}}
  BY DEF Echoes
<1>2. Voice(q, m) \in {Voice(p, m), {}}
  BY DEF Voice
<1>3. Recalls(Append(c, p), Append(d, q), m)
  BY <1>1, <1>2, RecallsBoth
<1>4. Asker(q, n) <=> Asker(p, n) /\ q.text = p.text
  BY DEF Asker
<1>5. LastText(Append(c, p), n) = IF Asker(p, n) THEN p.text ELSE LastText(c, n)
  BY LastTextAppend
<1>6. LastText(Append(d, q), n) = IF Asker(q, n) THEN q.text ELSE LastText(d, n)
  BY LastTextAppend
<1>7. LastText(Append(d, q), n) \in {LastText(Append(c, p), n), {"bridge"}}
  <2>1. CASE p = q
    BY <1>1, <1>5, <1>6, <2>1
  <2>2. CASE p.role # "user" /\ q.role # "user"
    <3>1. ~Asker(p, n) /\ ~Asker(q, n)
      BY <2>2 DEF Asker
    <3> QED BY <1>1, <1>5, <1>6, <3>1
  <2> QED BY <2>1, <2>2
<1> QED BY <1>3, <1>7 DEF Echoes

\* with one more that nobody hears in either,
LEMMA EchoMore ==
    ASSUME NEW W, NEW c \in Chains(W), NEW d \in Chains(W), NEW m, NEW n, Echoes(c, d, m, n),
           NEW p \in Lines(W), p.role # "user"
    PROVE  Echoes(Append(c, p), d, m, n) /\ Echoes(c, Append(d, p), m, n)
<1>1. Recalls(c, d, m) /\ LastText(d, n) \in {LastText(c, n), {"bridge"}}
  BY DEF Echoes
<1>2. Voice(p, m) = {} /\ ~Asker(p, n)
  BY DEF Voice, Asker
<1>3. Recalls(Append(c, p), d, m) /\ Recalls(c, Append(d, p), m)
  BY <1>1, <1>2, RecallsMore
<1>4. LastText(Append(c, p), n) = LastText(c, n) /\ LastText(Append(d, p), n) = LastText(d, n)
  BY <1>2, LastTextAppend
<1> QED BY <1>1, <1>3, <1>4 DEF Echoes

\* or a bridge,
LEMMA EchoBridge ==
    ASSUME NEW W, Words \subseteq W, NEW c \in Chains(W), NEW d \in Chains(W), NEW m, NEW n,
           Echoes(c, d, m, n), "bridge" \notin m, "bridge" \notin n
    PROVE  Echoes(c, Append(d, Bridge), m, n)
<1>1. Recalls(c, d, m)
  BY DEF Echoes
<1>2. Bridge \in Lines(W) /\ Bridge.role = "user" /\ Bridge.text = {"bridge"}
  BY MadeFacts DEF Bridge, User, Payload
<1> HIDE DEF Bridge
<1>3. Voice(Bridge, m) = {} /\ Asker(Bridge, n)
  BY <1>2 DEF Voice, Asker
<1>4. Recalls(c, Append(d, Bridge), m)
  BY <1>1, <1>2, <1>3, RecallsMore
<1>5. LastText(Append(d, Bridge), n) = {"bridge"}
  BY <1>2, <1>3, LastTextAppend
<1> QED BY <1>4, <1>5 DEF Echoes

\* with other payloads than users changed,
LEMMA EchoSame ==
    ASSUME NEW W, NEW c \in Chains(W), NEW d \in Chains(W), Len(d) = Len(c), NEW m, NEW n,
           \A k \in 1..Len(c) : d[k] = c[k] \/ (d[k].role # "user" /\ c[k].role # "user")
    PROVE  Echoes(c, d, m, n)
<1>1. \A k \in 1..Len(c) : Voice(d[k], m) = Voice(c[k], m)
  BY DEF Voice
<1>2. \A k \in 1..Len(c) : d[k] = c[k] \/ (~Asker(d[k], n) /\ ~Asker(c[k], n))
  BY DEF Asker
<1>3. Recalls(c, d, m)
  BY <1>1, RecallsSame
<1>4. LastText(d, n) = LastText(c, n)
  BY <1>2, LastTextSame
<1> QED BY <1>3, <1>4 DEF Echoes

\* and without some that nobody hears.
LEMMA EchoPicks ==
    ASSUME NEW W, NEW c \in Chains(W), NEW d \in Chains(W), NEW at, Picks(d, c, at), NEW m, NEW n,
           \A i \in 1..Len(c) : c[i].role = "user" => \E k \in 1..Len(d) : at[k] = i
    PROVE  Echoes(c, d, m, n)
<1>1. Recalls(c, d, m)
  BY RecallsPicks
<1>2. \A i \in 1..Len(c) : Asker(c[i], n) => \E k \in 1..Len(d) : at[k] = i
  BY DEF Asker
<1>3. \A k \in 1..Len(d) : Asker(d[k], n) <=> Asker(d[k], n)
  OBVIOUS
<1>4. LastText(d, n) = LastText(c, n)
  BY <1>2, <1>3, LastTextPicks
<1> QED BY <1>1, <1>4 DEF Echoes

\* Some payloads are picked in order.
LEMMA PickedPicks ==
    ASSUME NEW W, NEW c \in Chains(W), NEW I \in SUBSET (1..Len(c))
    PROVE  \E at : /\ Picks(Only(c, I), c, at)
                   /\ \A k \in 1..Len(Only(c, I)) : at[k] \in I
                   /\ \A i \in I : \E k \in 1..Len(Only(c, I)) : at[k] = i
<1> DEFINE e == Only(c, I)
<1>1. c \in Seq(Lines(W))
  BY ChainFacts
<1>2. \E at : Picked(e, c, I, at)
  BY <1>1, OnlyPicks
<1> HIDE DEF e
<1>3. PICK at : Picked(e, c, I, at)
  BY <1>2
<1>4. at \in [1..Len(e) -> 1..Len(c)]
  BY <1>3 DEF Picked
<1>5. Picks(e, c, at)
  BY <1>3, <1>4 DEF Picked, Picks
<1>6. /\ \A k \in 1..Len(e) : at[k] \in I
      /\ \A i \in I : \E k \in 1..Len(e) : at[k] = i
  BY <1>3 DEF Picked
<1> QED BY <1>5, <1>6 DEF e

\* What is left of a chain when others than users go.
LEMMA EchoOnly ==
    ASSUME NEW W, NEW c \in Chains(W), NEW I \in SUBSET (1..Len(c)), NEW m, NEW n,
           \A i \in (1..Len(c)) \ I : c[i].role # "user"
    PROVE  Echoes(c, Only(c, I), m, n)
<1>1. PICK at : /\ Picks(Only(c, I), c, at)
                /\ \A i \in I : \E k \in 1..Len(Only(c, I)) : at[k] = i
  BY PickedPicks
<1>2. \A i \in 1..Len(c) : c[i].role = "user" => \E k \in 1..Len(Only(c, I)) : at[k] = i
  BY <1>1
<1>3. Only(c, I) \in Chains(W)
  BY ChainFacts
<1> QED BY <1>1, <1>2, <1>3, EchoPicks

\* One with a gap,
LEMMA EchoRemove ==
    ASSUME NEW W, NEW c \in Chains(W), NEW x \in 1..Len(c), c[x].role # "user", NEW m, NEW n
    PROVE  Echoes(c, RemoveAt(c, x), m, n)
<1> DEFINE d == RemoveAt(c, x)
           at == [k \in 1..Len(d) |-> IF k < x THEN k ELSE k + 1]
<1>1. Len(c) \in Nat
  BY ChainFacts
<1>2. /\ d \in Chains(W) /\ Len(d) = Len(c) - 1
      /\ \A k \in 1..(x - 1) : d[k] = c[k]
      /\ \A k \in x..(Len(c) - 1) : d[k] = c[k + 1]
  BY GapFacts
<1> HIDE DEF d
<1>3. \A k \in 1..Len(d) : at[k] \in 1..Len(c) /\ d[k] = c[at[k]]
  BY <1>1, <1>2
<1>4. \A j, k \in 1..Len(d) : j < k => at[j] < at[k]
  BY <1>1, <1>2
<1>5. \A i \in 1..Len(c) : i # x => \E k \in 1..Len(d) : at[k] = i
  <2> SUFFICES ASSUME NEW i \in 1..Len(c), i # x PROVE \E k \in 1..Len(d) : at[k] = i
    OBVIOUS
  <2>1. CASE i < x
    <3>1. i \in 1..Len(d) /\ at[i] = i
      BY <1>1, <1>2, <2>1
    <3> QED BY <3>1
  <2>2. CASE i > x
    <3>1. i - 1 \in 1..Len(d) /\ at[i - 1] = i
      BY <1>1, <1>2, <2>2
    <3> QED BY <3>1
  <2> QED BY <1>1, <2>1, <2>2
<1>6. at \in [1..Len(d) -> 1..Len(c)]
  BY <1>3
<1> HIDE DEF at
<1>7. Picks(d, c, at)
  BY <1>3, <1>4, <1>6 DEF Picks
<1>8. \A i \in 1..Len(c) : c[i].role = "user" => \E k \in 1..Len(d) : at[k] = i
  BY <1>5
<1>9. Echoes(c, d, m, n)
  BY <1>2, <1>7, <1>8, EchoPicks
<1> QED BY <1>9 DEF d

\* and with another in a place.
LEMMA EchoReplace ==
    ASSUME NEW W, NEW c \in Chains(W), NEW x \in 1..Len(c), NEW p \in Lines(W), NEW m, NEW n,
           p.role # "user", c[x].role # "user"
    PROVE  Echoes(c, ReplaceAt(c, x, p), m, n)
<1> DEFINE d == ReplaceAt(c, x, p)
<1>1. d \in Chains(W) /\ Len(d) = Len(c) /\ \A k \in 1..Len(c) : d[k] = IF k = x THEN p ELSE c[k]
  BY ChainFacts, ExceptSeq DEF ReplaceAt, Chains
<1> HIDE DEF d
<1>2. \A k \in 1..Len(c) : d[k] = c[k] \/ (d[k].role # "user" /\ c[k].role # "user")
  BY <1>1
<1>3. Echoes(c, d, m, n)
  BY <1>1, <1>2, EchoSame
<1> QED BY <1>3 DEF d

\* A healed chain echoes,
LEMMA HealEcho ==
    ASSUME NEW W, NEW c \in Chains(W), NEW m, NEW n
    PROVE  Heal(c) \in Chains(W) /\ Echoes(c, Heal(c), m, n)
<1>1. PICK x \in Chains(W), I \in SUBSET (1..Len(c)) :
              /\ Heal(c) = Only(x, I) /\ Len(x) = Len(c)
              /\ \A j \in 1..Len(c) : x[j].role = c[j].role
              /\ \A j \in 1..Len(c) : c[j].role = "user" => j \in I /\ x[j] = c[j]
  BY HealShape
<1>2. Echoes(c, x, m, n)
  <2>1. \A k \in 1..Len(c) : x[k] = c[k] \/ (x[k].role # "user" /\ c[k].role # "user")
    BY <1>1
  <2> QED BY <1>1, <2>1, EchoSame
<1>3. Echoes(x, Only(x, I), m, n)
  <2>1. I \in SUBSET (1..Len(x)) /\ \A i \in (1..Len(x)) \ I : x[i].role # "user"
    BY <1>1
  <2> QED BY <2>1, EchoOnly
<1>4. Echoes(c, Only(x, I), m, n)
  BY <1>2, <1>3, EchoOn
<1> QED BY <1>1, <1>4, HealFacts

\* dropping the open calls does,
LEMMA DropEcho ==
    ASSUME NEW W, NEW a \in Passes(W), Sound(a), NEW m, NEW n
    PROVE  Echoes(a.out, DropPending(a).out, m, n)
<1> DEFINE left == [a.out[a.at] EXCEPT !.calls = @ \ a.pending]
<1>1. a.out \in Chains(W)
  BY DEF Passes
<1>2. CASE a.pending = {}
  BY <1>2, EchoSelf DEF DropPending
<1>3. CASE a.pending # {}
  <2>1. a.at \in 1..Len(a.out) /\ a.out[a.at].role = "assistant"
    BY <1>3 DEF Passes, Sound
  <2>2. left \in Lines(W) /\ left.role = a.out[a.at].role
    <3>1. a.out[a.at] \in Lines(W)
      BY <1>1, <2>1, ChainFacts
    <3>2. left \in Lines(W)
      BY <3>1, ChangedFacts
    <3> QED BY <3>1, <3>2 DEF Lines
  <2> HIDE DEF left
  <2>3. Echoes(a.out, RemoveAt(a.out, a.at), m, n)
    BY <1>1, <2>1, EchoRemove
  <2>4. Echoes(a.out, ReplaceAt(a.out, a.at, left), m, n)
    BY <1>1, <2>1, <2>2, EchoReplace
  <2>5. DropPending(a).out \in {RemoveAt(a.out, a.at), ReplaceAt(a.out, a.at, left)}
    BY <1>3 DEF DropPending, left
  <2> QED BY <2>3, <2>4, <2>5
<1> QED BY <1>2, <1>3

\* merging a text into the last,
LEMMA EchoMerge ==
    ASSUME NEW W, NEW c \in Chains(W), NEW i \in 1..Len(c), NEW p \in Lines(W),
           c[i].role = "assistant", p.role = "assistant", NEW m, NEW n
    PROVE  Echoes(c, MergeText(c, i, p), m, n)
<1> DEFINE line == [c[i] EXCEPT !.text = @ \cup p.text]
<1>1. DOMAIN c = 1..Len(c) /\ c[i] \in Lines(W)
  BY ChainFacts
<1>2. MergeText(c, i, p) = ReplaceAt(c, i, line)
  BY <1>1 DEF MergeText, ReplaceAt
<1>3. line.role = c[i].role
  BY <1>1 DEF Lines
<1>4. line \in Lines(W)
  <2>1. /\ c[i].text \in SUBSET W /\ p.text \in SUBSET W
        /\ c[i].text \subseteq Words /\ p.text \subseteq Words
    BY <1>1, ChangedFacts
  <2>2. c[i].text \cup p.text \in SUBSET W /\ c[i].text \cup p.text \subseteq Words
    BY <2>1
  <2>3. line = [c[i] EXCEPT !.text = c[i].text \cup p.text]
    OBVIOUS
  <2> HIDE DEF line
  <2> QED BY <1>1, <2>2, <2>3, ChangedFacts
<1> HIDE DEF line
<1>5. line.role # "user" /\ c[i].role # "user"
  BY <1>3
<1> QED BY <1>2, <1>4, <1>5, EchoReplace

\* and each step of the pass keeps an echo one.
LEMMA StepEcho ==
    ASSUME NEW W, Words \subseteq W, NEW m, NEW n, "bridge" \notin m, "bridge" \notin n,
           NEW x \in Chains(W), NEW a \in Passes(W), Sound(a), Echoes(x, a.out, m, n),
           NEW p \in Lines(W)
    PROVE  Echoes(Append(x, p), SanitizeStep(a, p).out, m, n)
<1> DEFINE d == SanitizeStep(a, p).out
           b == DropPending(a)
           y == Append(x, p)
<1>1. /\ a.out \in Chains(W) /\ p.role \in Roles
      /\ b \in Passes(W) /\ b.out \in Chains(W) /\ b.pending = {}
      /\ Echoes(x, b.out, m, n)
  <2>1. p.role \in Roles
    BY ChangedFacts
  <2>2. b \in Passes(W) /\ b.pending = {} /\ Echoes(a.out, b.out, m, n)
    BY DropFacts, DropEcho
  <2> HIDE DEF b
  <2>3. Echoes(x, b.out, m, n)
    BY <2>2, EchoOn
  <2> QED BY <2>1, <2>2, <2>3 DEF Passes
<1>2. a \in [out : Chains(W), pending : SUBSET CallIds, at : Nat]
      /\ b \in [out : Chains(W), pending : SUBSET CallIds, at : Nat]
  BY <1>1 DEF Passes
<1> HIDE DEF b
<1>3. CASE IsPinned(p)
  <2>1. SanitizeStep(a, p) = Keep(a, p)
    BY <1>3 DEF SanitizeStep, IsPinned
  <2>2. Keep(a, p).out = Append(a.out, p)
    BY <1>2 DEF Keep
  <2>3. d = Append(a.out, p)
    BY <2>1, <2>2
  <2> HIDE DEF d
  <2> QED BY <1>1, <2>3, EchoBoth DEF d
<1>4. CASE p.role = "user"
  <2>1. d = Append(b.out, p)
    BY <1>2, <1>4 DEF SanitizeStep, Keep, IsPinned, b
  <2> QED BY <1>1, <2>1, EchoBoth
<1>5. CASE p.role = "result"
  <2> DEFINE hit == p.results \cap a.pending
  <2>1. ~IsPinned(p)
    BY <1>5 DEF IsPinned
  <2>2. d \in {a.out, Append(a.out, Result(hit))}
    <3>1. SanitizeStep(a, p) = AddResult(a, p)
      BY <1>5, <2>1 DEF SanitizeStep
    <3> QED BY <1>2, <3>1 DEF AddResult
  <2>3. Result(hit) \in Lines(W) /\ Result(hit).role # "user" /\ p.role # "user"
    <3>1. hit \in SUBSET CallIds
      BY <1>2
    <3> QED BY <1>5, <3>1, MadeFacts DEF Result, Payload
  <2> HIDE DEF hit
  <2>4. Echoes(y, a.out, m, n)
    BY <1>1, <2>3, EchoMore
  <2>5. Echoes(y, Append(a.out, Result(hit)), m, n)
    BY <1>1, <2>3, EchoBoth
  <2> HIDE DEF d
  <2> QED BY <2>2, <2>4, <2>5 DEF d
<1>6. CASE p.role = "assistant"
  <2> DEFINE i == LastIndex(b.out)
             t == MergeText(b.out, i, p)
             parted == Append(Append(b.out, Bridge), p)
  <2>1. ~IsPinned(p) /\ SanitizeStep(a, p) = AddAssistant(b, p) /\ p.role # "user"
    BY <1>6 DEF SanitizeStep, IsPinned, b
  <2>2. d \in {b.out, Append(b.out, p), parted} \/ (d = t /\ LastRole(b.out) = "assistant")
    <3> HIDE DEF i, t
    <3> QED BY <1>2, <2>1 DEF AddAssistant, Open, Keep, i, t
  <2>3. y \in Chains(W) /\ Echoes(y, b.out, m, n)
    BY <1>1, <2>1, EchoMore, ChainFacts
  <2>4. Echoes(y, Append(b.out, p), m, n)
    BY <1>1, <2>1, EchoBoth
  <2>5. Echoes(y, parted, m, n)
    <3>1. Echoes(x, Append(b.out, Bridge), m, n)
      BY <1>1, EchoBridge
    <3>2. Append(b.out, Bridge) \in Chains(W)
      BY <1>1, MadeFacts, ChainFacts
    <3> QED BY <3>1, <3>2, EchoBoth
  <2>6. LastRole(b.out) = "assistant" => Echoes(y, t, m, n)
    <3> SUFFICES ASSUME LastRole(b.out) = "assistant" PROVE Echoes(y, t, m, n)
      OBVIOUS
    <3>1. i \in 1..Len(b.out) /\ b.out[i].role = "assistant"
      BY <1>1, RoleFacts
    <3> HIDE DEF i
    <3>2. Echoes(b.out, t, m, n)
      BY <1>1, <1>6, <3>1, EchoMerge
    <3> HIDE DEF t, y
    <3> QED BY <2>3, <3>2, EchoOn
  <2> HIDE DEF t, parted, d
  <2>7. Echoes(y, d, m, n)
    BY <2>2, <2>3, <2>4, <2>5, <2>6
  <2> QED BY <2>7 DEF d
<1> HIDE DEF d, y
<1> QED BY <1>1, <1>3, <1>4, <1>5, <1>6 DEF Roles, d, y, IsPinned

\* So a sanitized chain echoes,
LEMMA SanitizeEcho ==
    ASSUME NEW W, Words \subseteq W, NEW c \in Chains(W),
           NEW m, NEW n, "bridge" \notin m, "bridge" \notin n
    PROVE  Echoes(c, Sanitize(c), m, n)
<1> DEFINE b == [out |-> <<>>, pending |-> {}, at |-> 0]
           N == Len(c)
<1>1. b \in Passes(W) /\ N \in Nat /\ \A k \in 1..N : c[k] \in Lines(W)
  BY ChainFacts DEF Passes
<1>2. Sound(b) /\ b.out = <<>>
  BY DEF Sound, Follows, Owned, Met
<1> HIDE DEF b
<1>3. PICK f \in [0..N -> Passes(W)] :
         Sanitizing(f, b, c) /\ Folded(SanitizeStep, b, c) = f[N]
  BY <1>1, SanitizeRuns
<1> DEFINE T == {k \in 0..N : Sound(f[k]) /\ Echoes(SubSeq(c, 1, k), f[k].out, m, n)}
<1>4. 0 \in T
  <2>1. f[0] = b /\ 0 \in 0..N
    BY <1>1, <1>3 DEF Sanitizing
  <2>2. SubSeq(c, 1, 0) = <<>>
    BY SubSeqEmpty
  <2>3. Echoes(SubSeq(c, 1, 0), f[0].out, m, n)
    BY <1>2, <2>1, <2>2, EchoSelf
  <2> QED BY <1>2, <2>1, <2>3
<1>5. ASSUME NEW k \in 0..(N - 1), k \in T PROVE k + 1 \in T
  <2> DEFINE p == c[k + 1]
             a == f[k]
             x == SubSeq(c, 1, k)
  <2>1. k + 1 \in 0..N /\ k + 1 # 0 /\ (k + 1) - 1 = k /\ k + 1 \in 1..N /\ k \in 0..N
    BY <1>1
  <2>2. f[k + 1] = SanitizeStep(a, p)
    BY <1>3, <2>1 DEF Sanitizing
  <2>3. a \in Passes(W) /\ Sound(a) /\ p \in Lines(W) /\ Echoes(x, a.out, m, n)
    BY <1>1, <1>3, <1>5, <2>1
  <2>4. x \in Chains(W) /\ SubSeq(c, 1, k + 1) = Append(x, p)
    BY PrefixStep
  <2> HIDE DEF a, p, x
  <2>5. Sound(f[k + 1]) /\ Echoes(Append(x, p), f[k + 1].out, m, n)
    BY <2>2, <2>3, <2>4, StepSound, StepEcho
  <2> QED BY <2>1, <2>4, <2>5
<1>6. 0..N \subseteq T
  <2> HIDE DEF T, N
  <2> QED BY <1>1, <1>4, <1>5, SetInduction
<1>7. f[N] \in Passes(W) /\ Sound(f[N]) /\ Echoes(c, f[N].out, m, n)
  <2>1. N \in 0..N
    BY <1>1
  <2>2. N \in T
    BY <1>6, <2>1
  <2>3. SubSeq(c, 1, N) = c
    BY ChainFacts, SubSeqFull
  <2> QED BY <1>3, <2>1, <2>2, <2>3
<1>8. Sanitize(c) = DropPending(f[N]).out
  BY <1>3 DEF Sanitize, b
<1>9. Echoes(f[N].out, DropPending(f[N]).out, m, n)
  BY <1>7, DropEcho
<1> QED BY <1>7, <1>8, <1>9, EchoOn

\* and a prepared one.
LEMMA PrepareEcho ==
    ASSUME NEW W, Words \subseteq W, NEW c \in Chains(W),
           NEW m, NEW n, "bridge" \notin m, "bridge" \notin n
    PROVE  Prepare(c) \in Chains(W) /\ Echoes(c, Prepare(c), m, n)
<1>1. Heal(c) \in Chains(W) /\ Echoes(c, Heal(c), m, n)
  BY HealEcho
<1>2. Echoes(Heal(c), Prepare(c), m, n)
  BY <1>1, SanitizeEcho DEF Prepare
<1> QED BY <1>1, <1>2, EchoOn, PrepareFacts

\* A payload that comes after a repaired chain is heard as it was,
LEMMA RejoinEcho ==
    ASSUME NEW W, Words \subseteq W, NEW m, NEW n, "bridge" \notin m, "bridge" \notin n,
           NEW x \in Chains(W), NEW c \in Chains(W), Echoes(x, c, m, n), NEW p \in Lines(W)
    PROVE  Echoes(Append(x, p), Rejoin(c, p), m, n)
<1> DEFINE i == LastIndex(c)
           t == MergeText(c, i, p)
           y == Append(x, p)
<1>1. Echoes(y, Append(c, p), m, n)
  BY EchoBoth
<1>2. CASE p.role # "assistant" \/ LastRole(c) # "assistant"
  <2>1. Rejoin(c, p) = Append(c, p)
    BY <1>2 DEF Rejoin
  <2> QED BY <1>1, <2>1
<1>3. CASE p.role = "assistant" /\ LastRole(c) = "assistant"
  <2>1. Rejoin(c, p) \in {c \o <<Bridge, p>>, t}
    BY <1>3 DEF Rejoin
  <2>2. c \o <<Bridge, p>> = Append(Append(c, Bridge), p)
    <3>1. c \in Seq(Lines(W)) /\ Bridge \in Lines(W)
      BY ChainFacts, MadeFacts
    <3> HIDE DEF Bridge
    <3> QED BY <3>1
  <2>3. Echoes(y, Append(Append(c, Bridge), p), m, n)
    <3>1. Append(c, Bridge) \in Chains(W) /\ Echoes(x, Append(c, Bridge), m, n)
      BY MadeFacts, ChainFacts, EchoBridge
    <3> QED BY <3>1, EchoBoth
  <2>4. Echoes(y, t, m, n)
    <3>1. i \in 1..Len(c) /\ c[i].role = "assistant"
      BY <1>3, RoleFacts
    <3> HIDE DEF i
    <3>2. Echoes(c, t, m, n)
      BY <1>3, <3>1, EchoMerge
    <3>3. Echoes(y, c, m, n)
      BY <1>3, EchoMore
    <3> HIDE DEF t, y
    <3> QED BY <3>2, <3>3, EchoOn
  <2>5. Rejoin(c, p) = Append(Append(c, Bridge), p) \/ Rejoin(c, p) = t
    BY <2>1, <2>2
  <2> HIDE DEF t, y
  <2>6. Echoes(y, Rejoin(c, p), m, n)
    BY <2>3, <2>4, <2>5
  <2> QED BY <2>6 DEF y
<1> QED BY <1>2, <1>3

\* so a repaired chain echoes.
LEMMA RepairEcho ==
    ASSUME NEW W, Words \subseteq W, NEW c \in Chains(W),
           NEW m, NEW n, "bridge" \notin m, "bridge" \notin n
    PROVE  Repair(c) \in Chains(W) /\ Echoes(c, Repair(c), m, n)
<1> DEFINE I == {i \in DOMAIN c : ~IsSuspend(c[i])}
           z == Only(c, I)
           h == Heal(z)
           N == Len(h)
<1>1. z = Those(c, LAMBDA p : ~IsSuspend(p)) /\ I \in SUBSET (1..Len(c))
      /\ \A i \in (1..Len(c)) \ I : c[i].role # "user"
  <2>1. DOMAIN c = 1..Len(c)
    BY ChainFacts
  <2> QED BY <2>1 DEF Those, IsSuspend
<1> HIDE DEF I
<1>2. z \in Chains(W) /\ Echoes(c, z, m, n)
  BY <1>1, EchoOnly, ChainFacts
<1>3. Repair(c) = Folded(Rejoin, <<>>, h)
  BY <1>1 DEF Repair
<1> HIDE DEF z
<1>4. h \in Chains(W) /\ Echoes(z, h, m, n)
  BY <1>2, HealEcho
<1> HIDE DEF h
<1>5. N \in Nat /\ <<>> \in Chains(W) /\ \A k \in 1..N : h[k] \in Lines(W)
  BY <1>4, ChainFacts
<1>6. PICK f \in [0..N -> Chains(W)] : Rejoining(f, <<>>, h) /\ Folded(Rejoin, <<>>, h) = f[N]
  BY <1>4, <1>5, RejoinRuns
<1> DEFINE T == {k \in 0..N : Echoes(SubSeq(h, 1, k), f[k], m, n)}
<1>7. 0 \in T
  <2>1. f[0] = <<>> /\ 0 \in 0..N
    BY <1>5, <1>6 DEF Rejoining
  <2>2. SubSeq(h, 1, 0) = <<>>
    BY SubSeqEmpty
  <2> QED BY <2>1, <2>2, EchoSelf
<1>8. ASSUME NEW k \in 0..(N - 1), k \in T PROVE k + 1 \in T
  <2> DEFINE p == h[k + 1]
             a == f[k]
             x == SubSeq(h, 1, k)
  <2>1. k + 1 \in 0..N /\ k + 1 # 0 /\ (k + 1) - 1 = k /\ k + 1 \in 1..N /\ k \in 0..N
    BY <1>5
  <2>2. f[k + 1] = Rejoin(a, p)
    BY <1>6, <2>1 DEF Rejoining
  <2>3. a \in Chains(W) /\ p \in Lines(W) /\ Echoes(x, a, m, n)
    BY <1>5, <1>6, <1>8, <2>1
  <2>4. x \in Chains(W) /\ SubSeq(h, 1, k + 1) = Append(x, p)
    BY <1>4, PrefixStep
  <2> HIDE DEF a, p, x
  <2>5. Echoes(Append(x, p), f[k + 1], m, n)
    BY <2>2, <2>3, <2>4, RejoinEcho
  <2> QED BY <2>1, <2>4, <2>5
<1>9. 0..N \subseteq T
  <2> HIDE DEF T, N
  <2> QED BY <1>5, <1>7, <1>8, SetInduction
<1>10. Echoes(h, f[N], m, n)
  <2>1. N \in 0..N
    BY <1>5
  <2>2. N \in T
    BY <1>9, <2>1
  <2>3. SubSeq(h, 1, N) = h
    BY <1>4, ChainFacts, SubSeqFull
  <2> QED BY <2>2, <2>3
<1>11. Echoes(c, h, m, n)
  BY <1>2, <1>4, EchoOn
<1> QED BY <1>3, <1>6, <1>10, <1>11, EchoOn, RepairFacts

\* The note is taken out, and the text before it is the last again.
LEMMA StripEcho ==
    ASSUME NEW W, Words \subseteq W, NEW c \in Chains(W), NEW w, NEW m, "bridge" \notin m
    PROVE  /\ Strip(c, w) \in Chains(W) /\ Recalls(c, Strip(c, w), m)
           /\ LastText(Strip(c, w), {}) \in {LastText(c, w), {"bridge"}}
<1> DEFINE I == {i \in DOMAIN c : c[i].text \cap w = {}}
           z == Only(c, I)
<1>1. DOMAIN c = 1..Len(c)
  BY ChainFacts
<1>2. Strip(c, w) = Repair(z)
  BY DEF Strip, Those
<1>3. I \in SUBSET (1..Len(c)) /\ \A i \in 1..Len(c) : i \in I <=> c[i].text \cap w = {}
  BY <1>1
<1> HIDE DEF I
<1>4. z \in Chains(W)
  BY <1>3, ChainFacts
<1>5. PICK at : /\ Picks(z, c, at) /\ \A k \in 1..Len(z) : at[k] \in I
                /\ \A i \in I : \E k \in 1..Len(z) : at[k] = i
  BY <1>3, PickedPicks
<1> HIDE DEF z
<1>6. Recalls(c, z, m)
  BY <1>5, RecallsPicks
<1>7. LastText(z, {}) = LastText(c, w)
  <2>1. ASSUME NEW k \in 1..Len(z) PROVE Asker(z[k], {}) <=> Asker(z[k], w)
    <3>1. z[k] = c[at[k]] /\ at[k] \in I /\ at[k] \in 1..Len(c)
      BY <1>3, <1>5 DEF Picks
    <3>2. z[k].text \cap w = {}
      BY <1>3, <3>1
    <3> QED BY <3>2 DEF Asker
  <2>2. \A i \in 1..Len(c) : Asker(c[i], w) => \E k \in 1..Len(z) : at[k] = i
    BY <1>3, <1>5 DEF Asker
  <2> QED BY <1>4, <1>5, <2>1, <2>2, LastTextPicks
<1>8. Repair(z) \in Chains(W) /\ Echoes(z, Repair(z), m, {})
  BY <1>4, RepairEcho
<1>9. Recalls(c, Repair(z), m)
  BY <1>6, <1>8, RecallsOn DEF Echoes
<1> QED BY <1>2, <1>7, <1>8, <1>9 DEF Echoes

\* Calls that go,
LEMMA RemoveCallsEcho ==
    ASSUME NEW W, NEW c \in Chains(W), NEW ids, NEW m, NEW n
    PROVE  Echoes(c, RemoveCalls(c, ids), m, n)
<1> DEFINE makers == {i \in DOMAIN c : c[i].role = "assistant" /\ c[i].calls \cap ids # {}}
           i      == CHOOSE i \in makers : \A j \in makers : j <= i
           left   == [c[i] EXCEPT !.calls = @ \ ids]
<1>1. Len(c) \in Nat /\ makers \in SUBSET (1..Len(c))
      /\ \A j \in makers : c[j].role = "assistant"
  BY ChainFacts
<1>2. makers # {} => i \in 1..Len(c) /\ c[i].role = "assistant"
  <2> HIDE DEF makers
  <2>1. makers # {} => i \in makers
    BY <1>1, EndFacts
  <2> HIDE DEF i
  <2> QED BY <1>1, <2>1
<1>3. RemoveCalls(c, ids) = IF makers = {} THEN c
                            ELSE IF left.text = {} /\ left.calls = {} THEN RemoveAt(c, i)
                            ELSE ReplaceAt(c, i, left)
  BY DEF RemoveCalls
<1> HIDE DEF makers, i
<1>4. CASE makers = {}
  BY <1>3, <1>4, EchoSelf
<1>5. CASE makers # {}
  <2>1. c[i] \in Lines(W) /\ i \in 1..Len(c) /\ c[i].role = "assistant"
    BY <1>2, <1>5, ChainFacts
  <2>2. left \in Lines(W) /\ left.role = c[i].role
    <3>1. left \in Lines(W)
      BY <2>1, ChangedFacts
    <3> QED BY <2>1, <3>1 DEF Lines
  <2> HIDE DEF left
  <2>3. Echoes(c, RemoveAt(c, i), m, n)
    BY <2>1, EchoRemove
  <2>4. Echoes(c, ReplaceAt(c, i, left), m, n)
    BY <2>1, <2>2, EchoReplace
  <2> QED BY <1>3, <1>5, <2>3, <2>4
<1> QED BY <1>4, <1>5

\* an empty reply,
LEMMA PurgeEcho ==
    ASSUME NEW W, NEW c \in Chains(W), NEW ids, NEW m, NEW n
    PROVE  Echoes(c, PurgeReply(c, ids), m, n)
<1> DEFINE makers == {i \in DOMAIN c : c[i].role = "assistant" /\ c[i].calls \cap ids # {}}
           i      == CHOOSE i \in makers : \A j \in makers : j <= i
           purged == [j \in DOMAIN c |-> IF j \in GroupOf(c, i)
                                         THEN [c[j] EXCEPT !.results = @ \ ids] ELSE c[j]]
           e      == RemoveCalls(purged, ids)
           I      == {k \in DOMAIN e : e[k].role = "result" => e[k].results # {}}
<1>1. Len(c) \in Nat /\ DOMAIN c = 1..Len(c) /\ \A j \in 1..Len(c) : c[j] \in Lines(W)
  BY ChainFacts
<1>2. PurgeReply(c, ids) = IF makers = {} THEN c ELSE Only(e, I)
  BY DEF PurgeReply, Those
<1> HIDE DEF makers, i
<1>3. /\ purged \in Chains(W) /\ Len(purged) = Len(c)
      /\ \A k \in 1..Len(c) : purged[k] = c[k] \/ (purged[k].role # "user" /\ c[k].role # "user")
  <2>1. ASSUME NEW j \in 1..Len(c)
        PROVE  LET p == [c[j] EXCEPT !.results = @ \ ids]
               IN  p \in Lines(W) /\ (p = c[j] \/ (p.role # "user" /\ c[j].role # "user"))
    <3> DEFINE p == [c[j] EXCEPT !.results = @ \ ids]
    <3>1. c[j] \in Lines(W)
      BY <1>1
    <3>2. p \in Lines(W)
      BY <3>1, ChangedFacts
    <3>3. p.role = c[j].role
      BY <3>1 DEF Lines
    <3>4. c[j].role = "user" => p = c[j]
      <4> SUFFICES ASSUME c[j].role = "user" PROVE p = c[j]
        OBVIOUS
      <4>1. c[j].results = {} /\ c[j] = [c[j] EXCEPT !.results = c[j].results]
        BY <3>1 DEF Lines
      <4>2. c[j].results \ ids = c[j].results
        BY <4>1
      <4> QED BY <4>1, <4>2
    <3> QED BY <3>2, <3>3, <3>4
  <2>2. \A j \in 1..Len(c) : /\ purged[j] \in Lines(W)
                             /\ purged[j] = c[j] \/ (purged[j].role # "user" /\ c[j].role # "user")
    BY <1>1, <2>1
  <2>3. purged = [j \in 1..Len(c) |-> purged[j]]
    BY <1>1
  <2> HIDE DEF purged
  <2>4. purged \in Seq(Lines(W)) /\ Len(purged) = Len(c)
    BY <1>1, <2>2, <2>3
  <2> QED BY <2>2, <2>4 DEF Chains
<1> HIDE DEF purged
<1>4. e \in Chains(W) /\ Echoes(purged, e, m, n)
  BY <1>3, RemoveFacts, RemoveCallsEcho
<1>5. Echoes(c, purged, m, n)
  BY <1>3, EchoSame
<1> HIDE DEF e
<1>6. I \in SUBSET (1..Len(e)) /\ \A k \in (1..Len(e)) \ I : e[k].role # "user"
  <2>1. DOMAIN e = 1..Len(e)
    BY <1>4, ChainFacts
  <2> QED BY <2>1
<1> HIDE DEF I
<1>7. Echoes(e, Only(e, I), m, n)
  BY <1>4, <1>6, EchoOnly
<1>8. Echoes(c, Only(e, I), m, n)
  BY <1>4, <1>5, <1>7, EchoOn
<1> QED BY <1>2, <1>8, EchoSelf

\* and the marker of a wait are not heard.
LEMMA SuspendEcho ==
    ASSUME NEW W, Words \subseteq W, NEW c \in Chains(W), NEW m, NEW n
    PROVE  Echoes(c, WithSuspend(c), m, n)
<1>1. Suspend \in Lines(W) /\ Suspend.role # "user"
  BY MadeFacts DEF Suspend, Assistant, Payload
<1>2. Echoes(c, Append(c, Suspend), m, n)
  BY <1>1, EchoMore, EchoSelf
<1> QED BY <1>2, EchoSelf DEF WithSuspend

\* A user's payload is the last word,
LEMMA UserLast ==
    ASSUME NEW W, NEW c \in Chains(W), NEW text \in (SUBSET W) \ {{}}, NEW n, text \cap n = {}
    PROVE  Append(c, User(text)) \in Chains(W) /\ LastText(Append(c, User(text)), n) = text
<1>1. User(text) \in Lines(W)
  BY MadeFacts
<1>2. Asker(User(text), n) /\ User(text).text = text
  BY DEF Asker, User, Payload
<1> HIDE DEF User
<1> QED BY <1>1, <1>2, LastTextAppend, ChainFacts

\* and a user who says nothing of m tells nothing of it.
LEMMA UserRecalls ==
    ASSUME NEW W, NEW c \in Chains(W), NEW d \in Chains(W), NEW m, Recalls(c, d, m),
           NEW text \in (SUBSET W) \ {{}}, text \cap m = {}
    PROVE  Recalls(c, Append(d, User(text)), m)
<1>1. User(text) \in Lines(W)
  BY MadeFacts
<1>2. Voice(User(text), m) = {}
  BY DEF Voice, User, Payload
<1> HIDE DEF User
<1> QED BY <1>1, <1>2, RecallsMore

\* A text that is sent back ends with its prompt.
LEMMA DraftEcho ==
    ASSUME NEW W, Words \subseteq W, NEW c \in Chains(W), NEW m, NEW n,
           "followup" \notin m, "followup" \notin n
    PROVE  LET d == WithDraft(Append(c, Assistant({"said"}, {})))
           IN  d \in Chains(W) /\ Recalls(c, d, m) /\ LastText(d, n) = {"followup"}
<1> DEFINE q == Assistant({"draft"}, {})
           b == Append(c, q)
           d == WithDraft(Append(c, Assistant({"said"}, {})))
<1>1. d = Append(b, User({"followup"})) /\ q \in Lines(W)
  BY DraftAppended
<1>2. q.role # "user"
  BY DEF Assistant, Payload
<1> HIDE DEF q
<1>3. b \in Chains(W) /\ Recalls(c, b, m)
  <2>1. Echoes(c, b, m, n)
    BY <1>1, <1>2, EchoMore, EchoSelf
  <2> QED BY <1>1, <2>1, ChainFacts DEF Echoes
<1> HIDE DEF b
<1>4. /\ {"followup"} \in (SUBSET W) \ {{}}
      /\ {"followup"} \cap m = {} /\ {"followup"} \cap n = {}
  BY DEF Words
<1>5. Append(b, User({"followup"})) \in Chains(W)
      /\ LastText(Append(b, User({"followup"})), n) = {"followup"}
  BY <1>3, <1>4, UserLast
<1>6. Recalls(c, Append(b, User({"followup"})), m)
  BY <1>3, <1>4, UserRecalls
<1> HIDE DEF d
<1> QED BY <1>1, <1>5, <1>6 DEF d

\* So a restored request tells what was told in it.
LEMMA RestoredRecalls ==
    ASSUME NEW W, Words \subseteq W, NEW c \in Chains(W), Settled(c), NEW m
    PROVE  Recalls(c, Restore(Capture(c)), m)
<1> DEFINE I == {i \in DOMAIN c : /\ c[i].role # "tool" /\ ~IsSuspend(c[i])
                                  /\ c[i].role \in {"user", "assistant"}
                                        => c[i].text # {} \/ HasCalls(c[i])}
           d == Capture(c)
           J == {i \in DOMAIN d : ~IsPinned(d[i])}
<1>1. DOMAIN c = 1..Len(c)
  BY ChainFacts
<1>2. d = Only(c, I)
  BY DEF Capture, Those
<1>3. d \in Chains(W) /\ Settled(d)
  BY CaptureSettled
<1> HIDE DEF d
<1>4. Restore(d) = Only(d, J)
  <2>1. Conversation(d) = Only(d, J)
    BY DEF Conversation, Those
  <2> QED BY <1>3, <2>1, RestoredWhole
<1>5. Recalls(c, d, m)
  <2>1. I \in SUBSET (1..Len(c))
    BY <1>1
  <2> HIDE DEF I
  <2>2. \E at : Picks(Only(c, I), c, at)
    BY <2>1, PickedPicks
  <2> QED BY <1>2, <2>2, RecallsPicks
<1>6. Recalls(d, Only(d, J), m)
  <2>1. J \in SUBSET (1..Len(d))
    <3>1. DOMAIN d = 1..Len(d)
      BY <1>3, ChainFacts
    <3> QED BY <3>1
  <2> HIDE DEF J
  <2>2. \E at : Picks(Only(d, J), d, at)
    BY <1>3, <2>1, PickedPicks
  <2> QED BY <2>2, RecallsPicks
<1>7. Recalls(c, Restore(d), m)
  BY <1>4, <1>5, <1>6, RecallsOn
<1> QED BY <1>7 DEF d

-----------------------------------------------------------------------------
(* What is told once                                                       *)

\* Of what is told of m, what is told again comes with more.
Once(c, m) ==
    \A i, j \in 1..Len(c) : i < j /\ Voice(c[i], m) \cap Voice(c[j], m) # {} =>
        Voice(c[i], m) \subseteq Voice(c[j], m) /\ Voice(c[i], m) # Voice(c[j], m)

\* c tells a part of a, and that once.
Tells(c, m, a) == Once(c, m) /\ \A i \in 1..Len(c) : Voice(c[i], m) \subseteq a

\* c and d tell nothing in common.
Apart(c, d, m) ==
    \A i \in 1..Len(c), j \in 1..Len(d) : Voice(c[i], m) \cap Voice(d[j], m) = {}

\* What recalls a chain tells as little,
LEMMA TellsRecalls ==
    ASSUME NEW c, NEW d, NEW m, NEW a, Recalls(c, d, m), Tells(c, m, a)
    PROVE  Tells(d, m, a)
<1>1. ASSUME NEW j \in 1..Len(d), NEW k \in 1..Len(d), j < k,
             Voice(d[j], m) \cap Voice(d[k], m) # {}
      PROVE  Voice(d[j], m) \subseteq Voice(d[k], m) /\ Voice(d[j], m) # Voice(d[k], m)
  <2>1. Voice(d[j], m) # {} /\ Voice(d[k], m) # {}
    BY <1>1
  <2>2. PICK g \in 1..Len(c), i \in 1..Len(c) :
            g < i /\ Voice(c[g], m) = Voice(d[j], m) /\ Voice(c[i], m) = Voice(d[k], m)
    BY <1>1, <2>1 DEF Recalls
  <2>3. Voice(c[g], m) \cap Voice(c[i], m) # {}
    BY <1>1, <2>2
  <2>4. Voice(c[g], m) \subseteq Voice(c[i], m) /\ Voice(c[g], m) # Voice(c[i], m)
    BY <2>2, <2>3 DEF Tells, Once
  <2> QED BY <2>2, <2>4
<1>2. ASSUME NEW k \in 1..Len(d) PROVE Voice(d[k], m) \subseteq a
  <2>1. CASE Voice(d[k], m) = {}
    BY <2>1
  <2>2. CASE Voice(d[k], m) # {}
    <3>1. PICK i \in 1..Len(c) : Voice(c[i], m) = Voice(d[k], m)
      BY <2>2 DEF Recalls
    <3> QED BY <3>1 DEF Tells
  <2> QED BY <2>1, <2>2
<1> QED BY <1>1, <1>2 DEF Tells, Once

\* and has as little in common with another;
LEMMA ApartRecalls ==
    ASSUME NEW c, NEW d, NEW e, NEW m, Recalls(c, d, m), Apart(e, c, m)
    PROVE  Apart(e, d, m)
<1>1. ASSUME NEW i \in 1..Len(e), NEW k \in 1..Len(d)
      PROVE  Voice(e[i], m) \cap Voice(d[k], m) = {}
  <2>1. CASE Voice(d[k], m) = {}
    BY <2>1
  <2>2. CASE Voice(d[k], m) # {}
    <3>1. PICK j \in 1..Len(c) : Voice(c[j], m) = Voice(d[k], m)
      BY <2>2 DEF Recalls
    <3>2. Voice(e[i], m) \cap Voice(c[j], m) = {}
      BY DEF Apart
    <3> QED BY <3>1, <3>2
  <2> QED BY <2>1, <2>2
<1> QED BY <1>1 DEF Apart

\* one who tells nothing as well,
LEMMA TellsNothing ==
    ASSUME NEW m, NEW a, NEW c
    PROVE  /\ Tells(<<>>, m, a) /\ Apart(<<>>, c, m) /\ Apart(c, <<>>, m)
           /\ \A b : Tells(c, m, a) /\ a \subseteq b => Tells(c, m, b)
<1>1. \A i \in 1..Len(<<>>) : FALSE
  OBVIOUS
<1> QED BY <1>1 DEF Tells, Once, Apart

\* and one with one more, whatever was told of which is in it, with more.
LEMMA TellsMore ==
    ASSUME NEW S, NEW c \in Seq(S), NEW p \in S, NEW m, NEW a, Tells(c, m, a), Voice(p, m) \subseteq a,
           \A i \in 1..Len(c) : Voice(c[i], m) \cap Voice(p, m) # {} =>
              Voice(c[i], m) \subseteq Voice(p, m) /\ Voice(c[i], m) # Voice(p, m)
    PROVE  Tells(Append(c, p), m, a)
<1> DEFINE d == Append(c, p)
           N == Len(c)
<1>1. N \in Nat /\ Len(d) = N + 1 /\ d[N + 1] = p /\ \A k \in 1..N : d[k] = c[k]
  BY AppendProperties, LenProperties
<1> HIDE DEF d
<1>2. \A k \in 1..Len(d) : k \in 1..N \/ k = N + 1
  BY <1>1
<1>3. ASSUME NEW j \in 1..Len(d), NEW k \in 1..Len(d), j < k,
             Voice(d[j], m) \cap Voice(d[k], m) # {}
      PROVE  Voice(d[j], m) \subseteq Voice(d[k], m) /\ Voice(d[j], m) # Voice(d[k], m)
  <2>1. j \in 1..N /\ d[j] = c[j]
    <3>1. j \in 1..N
      BY <1>1, <1>3
    <3> QED BY <1>1, <3>1
  <2>2. CASE k \in 1..N
    <3>1. d[k] = c[k]
      BY <1>1, <2>2
    <3> QED BY <1>3, <2>1, <2>2, <3>1 DEF Tells, Once
  <2>3. CASE k = N + 1
    BY <1>1, <1>3, <2>1, <2>3
  <2> QED BY <1>2, <2>2, <2>3
<1>4. ASSUME NEW k \in 1..Len(d) PROVE Voice(d[k], m) \subseteq a
  BY <1>1, <1>2 DEF Tells
<1> QED BY <1>3, <1>4 DEF Tells, Once, d

\* A slice of what was told.
LEMMA RecallsSlice ==
    ASSUME NEW S, NEW c \in Seq(S), NEW q \in Nat \ {0}, q <= Len(c), NEW m
    PROVE  /\ Recalls(c, SubSeq(c, q, Len(c)), m)
           /\ Len(SubSeq(c, q, Len(c))) = Len(c) - q + 1
           /\ \A k \in 1..(Len(c) - q + 1) : SubSeq(c, q, Len(c))[k] = c[q + k - 1]
<1> DEFINE d == SubSeq(c, q, Len(c))
           N == Len(c)
           M == N - q + 1
           at == [k \in 1..M |-> q + k - 1]
<1>1. N \in Nat /\ M \in Nat
  BY LenProperties
<1>2. \A i \in q..N : c[i] \in S
  <2>1. \A i \in q..N : i \in 1..N
    BY <1>1
  <2> QED BY <2>1, ElementOfSeq
<1>3. Len(d) = M /\ \A k \in 1..M : d[k] = c[q + k - 1]
  <2>1. /\ Len(d) = IF q <= N THEN N - q + 1 ELSE 0
        /\ \A k \in 1..(N - q + 1) : d[k] = c[q + k - 1]
    BY <1>1, <1>2, SubSeqProperties
  <2> QED BY <2>1
<1> HIDE DEF d
<1>4. Picks(d, c, at)
  <2>1. \A k \in 1..M : q + k - 1 \in 1..N
    BY <1>1
  <2>2. \A j, k \in 1..M : j < k => q + j - 1 < q + k - 1
    BY <1>1
  <2> HIDE DEF M
  <2> QED BY <1>3, <2>1, <2>2 DEF Picks
<1>5. Recalls(c, d, m)
  BY <1>4, RecallsPicks
<1> QED BY <1>3, <1>5 DEF d

\* History that tells nothing in common with a chain, put into it.
LEMMA InjectTells ==
    ASSUME NEW W, NEW c \in Chains(W), NEW d \in Chains(W), NEW m, NEW a,
           Tells(c, m, a), Tells(d, m, a), Apart(d, c, m)
    PROVE  Tells(Inject(c, d), m, a)
<1> DEFINE r == Inject(c, d)
           M == Len(d)
           N == Len(c)
<1>0. r \in Chains(W) /\ \E n \in 0..Len(c) : PutIn(r, c, d, n)
  BY InjectAt
<1>1. N \in Nat /\ M \in Nat
  BY ChainFacts
<1> HIDE DEF r
<1>2. PICK n \in 0..N : /\ \A k \in 1..n : IsPinned(c[k])
                        /\ Len(r) = N + M
                        /\ \A k \in 1..n : r[k] = c[k]
                        /\ \A k \in 1..M : r[n + k] = d[k]
                        /\ \A k \in (n + 1)..N : r[M + k] = c[k]
  BY <1>0 DEF PutIn
<1> DEFINE A == {i \in 1..(N + M) : i > n /\ i <= n + M}
           B == {i \in 1..(N + M) : i > n + M}
<1>3. \A i \in 1..Len(r) : Voice(r[i], m) # {} => i \in A \/ i \in B
  <2> SUFFICES ASSUME NEW i \in 1..Len(r), ~(i > n) PROVE Voice(r[i], m) = {}
    BY <1>1, <1>2
  <2>1. i \in 1..n
    BY <1>1
  <2>2. IsPinned(r[i])
    BY <1>2, <2>1
  <2> QED BY <2>2 DEF IsPinned, Voice
<1>4. \A i \in A : i - n \in 1..M /\ r[i] = d[i - n]
  <2> SUFFICES ASSUME NEW i \in A PROVE i - n \in 1..M /\ r[i] = d[i - n]
    OBVIOUS
  <2>1. i - n \in 1..M /\ n + (i - n) = i
    BY <1>1
  <2> QED BY <1>2, <2>1
<1>5. \A i \in B : i - M \in 1..N /\ r[i] = c[i - M]
  <2> SUFFICES ASSUME NEW i \in B PROVE i - M \in 1..N /\ r[i] = c[i - M]
    OBVIOUS
  <2>1. i - M \in (n + 1)..N /\ M + (i - M) = i /\ i - M \in 1..N
    BY <1>1
  <2> QED BY <1>2, <2>1
<1>6. \A i, j \in A : i < j => i - n < j - n
  BY <1>1
<1>7. \A i, j \in B : i < j => i - M < j - M
  BY <1>1
<1>8. \A i \in B, j \in A : ~(i < j)
  BY <1>1
<1> HIDE DEF A, B
<1>9. ASSUME NEW i \in 1..Len(r), NEW j \in 1..Len(r), i < j,
             Voice(r[i], m) \cap Voice(r[j], m) # {}
      PROVE  Voice(r[i], m) \subseteq Voice(r[j], m) /\ Voice(r[i], m) # Voice(r[j], m)
  <2>1. (i \in A \/ i \in B) /\ (j \in A \/ j \in B)
    BY <1>3, <1>9
  <2>2. CASE i \in A /\ j \in A
    <3>1. i - n \in 1..M /\ j - n \in 1..M /\ i - n < j - n /\ r[i] = d[i - n] /\ r[j] = d[j - n]
      BY <1>4, <1>6, <1>9, <2>2
    <3> QED BY <1>9, <3>1 DEF Tells, Once
  <2>3. CASE i \in B /\ j \in B
    <3>1. i - M \in 1..N /\ j - M \in 1..N /\ i - M < j - M /\ r[i] = c[i - M] /\ r[j] = c[j - M]
      BY <1>5, <1>7, <1>9, <2>3
    <3> QED BY <1>9, <3>1 DEF Tells, Once
  <2>4. CASE i \in A /\ j \in B
    <3>1. i - n \in 1..M /\ r[i] = d[i - n] /\ j - M \in 1..N /\ r[j] = c[j - M]
      BY <1>4, <1>5, <2>4
    <3>2. Voice(r[i], m) \cap Voice(r[j], m) = {}
      BY <3>1 DEF Apart
    <3> QED BY <1>9, <3>2
  <2> QED BY <1>8, <1>9, <2>1, <2>2, <2>3, <2>4
<1>10. ASSUME NEW i \in 1..Len(r) PROVE Voice(r[i], m) \subseteq a
  <2>1. CASE Voice(r[i], m) = {}
    BY <2>1
  <2>2. CASE i \in A
    BY <1>4, <2>2 DEF Tells
  <2>3. CASE i \in B
    BY <1>5, <2>3 DEF Tells
  <2> QED BY <1>3, <2>1, <2>2, <2>3
<1> QED BY <1>9, <1>10 DEF Tells, Once, r

\* The last word is the chain's, when a user in it says nothing of n.
LEMMA InjectLast ==
    ASSUME NEW W, NEW c \in Chains(W), NEW d \in Chains(W), NEW n,
           \E i \in 1..Len(c) : Asker(c[i], n)
    PROVE  LastText(Inject(c, d), n) = LastText(c, n)
<1> DEFINE r == Inject(c, d)
           M == Len(d)
           N == Len(c)
           t == LastText(c, n)
<1>0. r \in Chains(W) /\ \E x \in 0..Len(c) : PutIn(r, c, d, x)
  BY InjectAt
<1>1. N \in Nat /\ M \in Nat
  BY ChainFacts
<1>2. Ends(c, n, t)
  BY EndsOnce
<1> HIDE DEF r, t
<1>3. PICK x \in 0..N : /\ \A k \in 1..x : IsPinned(c[k])
                        /\ Len(r) = N + M
                        /\ \A k \in (x + 1)..N : r[M + k] = c[k]
  BY <1>0 DEF PutIn
<1>4. PICK i \in 1..N : /\ Asker(c[i], n) /\ c[i].text = t
                        /\ \A j \in (i + 1)..N : ~Asker(c[j], n)
  BY <1>2 DEF Ends
<1>5. i \in (x + 1)..N
  <2>1. i \notin 1..x
    BY <1>3, <1>4 DEF IsPinned, Asker
  <2> QED BY <1>1, <2>1
<1>6. M + i \in 1..Len(r) /\ Asker(r[M + i], n) /\ r[M + i].text = t
  <2>1. M + i \in 1..Len(r)
    BY <1>1, <1>3
  <2> QED BY <1>3, <1>4, <1>5, <2>1
<1>7. ASSUME NEW j \in ((M + i) + 1)..Len(r) PROVE ~Asker(r[j], n)
  <2>1. j - M \in (i + 1)..N /\ j - M \in (x + 1)..N /\ M + (j - M) = j
    BY <1>1, <1>3, <1>5
  <2>2. r[j] = c[j - M]
    BY <1>3, <2>1
  <2> QED BY <1>4, <2>1, <2>2
<1>8. Ends(r, n, t)
  BY <1>6, <1>7 DEF Ends
<1> QED BY <1>0, <1>8, EndsOnce DEF r, t

\* What is told at other indices, in the same order.
LEMMA RecallsAt ==
    ASSUME NEW c, NEW d, NEW at, NEW m,
           \A k \in 1..Len(d) : Voice(d[k], m) # {} =>
              at[k] \in 1..Len(c) /\ Voice(c[at[k]], m) = Voice(d[k], m),
           \A j, k \in 1..Len(d) : j < k => at[j] < at[k]
    PROVE  Recalls(c, d, m)
<1>1. ASSUME NEW k \in 1..Len(d), Voice(d[k], m) # {}
      PROVE  \E i \in 1..Len(c) : Voice(c[i], m) = Voice(d[k], m)
  BY <1>1
<1>2. ASSUME NEW j \in 1..Len(d), NEW k \in 1..Len(d), j < k,
             Voice(d[j], m) # {}, Voice(d[k], m) # {}
      PROVE  \E g, i \in 1..Len(c) : /\ g < i /\ Voice(c[g], m) = Voice(d[j], m)
                                     /\ Voice(c[i], m) = Voice(d[k], m)
  BY <1>2
<1> QED BY <1>1, <1>2 DEF Recalls

\* The text a turn answers is the last.
LEMMA LastUserIs ==
    ASSUME NEW W, NEW c \in Chains(W)
    PROVE  LastUserText(c) = LastText(c, {})
<1> DEFINE users == {i \in DOMAIN c : c[i].role = "user"}
           i == CHOOSE i \in users : \A j \in users : j <= i
<1>1. Len(c) \in Nat /\ users \in SUBSET (1..Len(c)) /\ DOMAIN c = 1..Len(c)
      /\ \A k \in 1..Len(c) : k \in users <=> Asker(c[k], {})
  BY ChainFacts DEF Asker
<1>2. LastUserText(c) = IF users = {} THEN {} ELSE c[i].text
  BY DEF LastUserText
<1> HIDE DEF users
<1>3. CASE users = {}
  BY <1>1, <1>2, <1>3, EndsOnce DEF Ends
<1>4. CASE users # {}
  <2>1. i \in users /\ \A j \in users : j <= i
    BY <1>1, <1>4, EndFacts
  <2> HIDE DEF i
  <2>2. i \in 1..Len(c) /\ Asker(c[i], {})
    BY <1>1, <2>1
  <2>3. \A j \in (i + 1)..Len(c) : j \in 1..Len(c) /\ ~(j <= i)
    BY <1>1, <2>2
  <2>4. \A j \in (i + 1)..Len(c) : ~Asker(c[j], {})
    BY <1>1, <2>1, <2>3
  <2>5. Ends(c, {}, c[i].text)
    BY <2>2, <2>4 DEF Ends
  <2> QED BY <1>2, <1>4, <2>5, EndsOnce
<1> QED BY <1>3, <1>4

\* A chain that says nothing of n.
LEMMA LastTextClear ==
    ASSUME NEW W, NEW c \in Chains(W), NEW n, W \cap n = {}
    PROVE  LastText(c, n) = LastText(c, {})
<1> DEFINE at == [k \in 1..Len(c) |-> k]
<1>1. Picks(c, c, at)
  BY ChainFacts DEF Picks
<1>2. \A k \in 1..Len(c) : c[k].text \in SUBSET W
  BY ChainFacts, ChangedFacts
<1>3. \A k \in 1..Len(c) : Asker(c[k], {}) <=> Asker(c[k], n)
  BY <1>2 DEF Asker
<1>4. \A i \in 1..Len(c) : \E k \in 1..Len(c) : at[k] = i
  OBVIOUS
<1> HIDE DEF at
<1> QED BY <1>1, <1>3, <1>4, LastTextPicks

\* A message told for the first time: where it comes in, and what is last then.
LEMMA InputTells ==
    ASSUME NEW W, NEW c \in Chains(W), NEW text \in (SUBSET W) \ {{}}, NEW m, NEW a, NEW b,
           Tells(c, m, a), a \subseteq b, text \subseteq b, text \cap a = {}, text \subseteq m
    PROVE  /\ AddInput(c, text) \in Chains(W) /\ Tells(AddInput(c, text), m, b)
           /\ LastText(AddInput(c, text), {}) \in {text, LastText(c, {}) \cup text}
           /\ \A d : Tells(d, m, a) /\ Apart(d, c, m) => Apart(d, AddInput(c, text), m)
<1> DEFINE N == Len(c)
           line == [c[N] EXCEPT !.text = @ \cup text]
           r == AddInput(c, text)
           u == User(text)
<1>1. N \in Nat /\ DOMAIN c = 1..N /\ c \in Seq(Lines(W)) /\ r \in Chains(W) /\ u \in Lines(W)
  BY ChainFacts, InputFacts, MadeFacts
<1>2. Tells(c, m, b)
  BY TellsNothing
<1>3. \A i \in 1..N : Voice(c[i], m) \subseteq a
  BY DEF Tells
<1>4. CASE ~(c # <<>> /\ c[N].role = "user")
  <2>1. r = Append(c, u)
    <3>1. c # <<>> => Last(c) = c[N]
      BY DEF Last
    <3> QED BY <1>4, <3>1 DEF AddInput
  <2>2. Voice(u, m) = text
    BY DEF Voice, User, Payload
  <2> HIDE DEF u, r
  <2>3. Tells(r, m, b)
    <3>1. \A i \in 1..N : Voice(c[i], m) \cap Voice(u, m) = {}
      BY <1>3, <2>2
    <3> QED BY <1>1, <1>2, <2>1, <2>2, <3>1, TellsMore
  <2>4. LastText(r, {}) = text
    BY <2>1, UserLast DEF u
  <2>5. ASSUME NEW d, Tells(d, m, a), Apart(d, c, m) PROVE Apart(d, r, m)
    <3>1. Len(r) = N + 1 /\ r[N + 1] = u /\ \A k \in 1..N : r[k] = c[k]
      BY <1>1, <2>1, OneMore
    <3>2. \A k \in 1..Len(r) : k \in 1..N \/ k = N + 1
      BY <1>1, <3>1
    <3>3. ASSUME NEW i \in 1..Len(d), NEW k \in 1..Len(r)
          PROVE  Voice(d[i], m) \cap Voice(r[k], m) = {}
      <4>1. CASE k \in 1..N
        BY <2>5, <3>1, <4>1 DEF Apart
      <4>2. CASE k = N + 1
        <5>1. Voice(d[i], m) \subseteq a
          BY <2>5 DEF Tells
        <5> QED BY <2>2, <3>1, <4>2, <5>1
      <4> QED BY <3>2, <4>1, <4>2
    <3> QED BY <3>3 DEF Apart
  <2> QED BY <1>1, <2>3, <2>4, <2>5 DEF r
<1>5. CASE c # <<>> /\ c[N].role = "user"
  <2>1. N \in 1..N
    <3>1. N # 0
      BY <1>1, <1>5, EmptySeq
    <3> QED BY <1>1, <3>1
  <2>2. r = [c EXCEPT ![N] = line]
    <3>1. Last(c) = c[N]
      BY DEF Last
    <3> QED BY <1>1, <1>5, <2>1, <3>1 DEF AddInput
  <2>3. Len(r) = N /\ r[N] = line /\ \A k \in 1..N : k # N => r[k] = c[k]
    BY <1>1, <2>1, <2>2
  <2>4. line.role = "user" /\ line.text = c[N].text \cup text
    <3>1. c[N] \in Lines(W)
      BY <2>1, ChainFacts
    <3> QED BY <1>5, <3>1 DEF Lines
  <2>5. Voice(r[N], m) = Voice(c[N], m) \cup text
    BY <1>5, <2>3, <2>4 DEF Voice
  <2> HIDE DEF r, line
  <2>6. Tells(r, m, b)
    <3>1. ASSUME NEW i \in 1..Len(r), NEW j \in 1..Len(r), i < j,
                 Voice(r[i], m) \cap Voice(r[j], m) # {}
          PROVE  Voice(r[i], m) \subseteq Voice(r[j], m) /\ Voice(r[i], m) # Voice(r[j], m)
      <4>0. i # N /\ i \in 1..N /\ j \in 1..N
        <5>1. i \in 1..N /\ j \in 1..N
          BY <2>3
        <5> HIDE DEF N
        <5> QED BY <1>1, <3>1, <5>1
      <4>1. i # N /\ i \in 1..N /\ j \in 1..N /\ r[i] = c[i]
        BY <2>3, <4>0
      <4>2. CASE j # N
        <5>1. r[j] = c[j]
          BY <2>3, <4>1, <4>2
        <5> QED BY <3>1, <4>1, <5>1 DEF Tells, Once
      <4>3. CASE j = N
        <5>1. Voice(c[i], m) \subseteq a
          BY <1>3, <4>1
        <5>2. Voice(c[i], m) \cap Voice(c[N], m) # {}
          BY <2>5, <3>1, <4>1, <4>3, <5>1
        <5>3. Voice(c[i], m) \subseteq Voice(c[N], m)
          BY <3>1, <4>1, <4>3, <5>2 DEF Tells, Once
        <5> QED BY <2>5, <4>1, <4>3, <5>1, <5>3
      <4> QED BY <4>2, <4>3
    <3>2. ASSUME NEW i \in 1..Len(r) PROVE Voice(r[i], m) \subseteq b
      <4>1. CASE i = N
        BY <1>3, <2>1, <2>5, <4>1
      <4>2. CASE i # N
        BY <1>3, <2>3, <4>2
      <4> QED BY <4>1, <4>2
    <3> QED BY <3>1, <3>2 DEF Tells, Once
  <2>7. LastText(r, {}) = LastText(c, {}) \cup text
    <3>1. \A j \in (N + 1)..N : FALSE
      BY <1>1
    <3>2. Ends(c, {}, c[N].text)
      BY <1>5, <2>1, <3>1 DEF Ends, Asker
    <3>3. Ends(r, {}, line.text)
      BY <2>1, <2>3, <2>4, <3>1 DEF Ends, Asker
    <3>4. LastText(c, {}) = c[N].text
      BY <3>2, EndsOnce
    <3>5. LastText(r, {}) = line.text
      BY <1>1, <3>3, EndsOnce DEF r
    <3> QED BY <2>4, <3>4, <3>5
  <2>8. ASSUME NEW d, Tells(d, m, a), Apart(d, c, m) PROVE Apart(d, r, m)
    <3>1. ASSUME NEW i \in 1..Len(d), NEW k \in 1..Len(r)
          PROVE  Voice(d[i], m) \cap Voice(r[k], m) = {}
      <4>1. Voice(d[i], m) \subseteq a /\ Voice(d[i], m) \cap Voice(c[k], m) = {}
        BY <2>3, <2>8 DEF Tells, Apart
      <4>2. Voice(r[k], m) \subseteq Voice(c[k], m) \cup text
        BY <2>3, <2>5
      <4> QED BY <4>1, <4>2
    <3> QED BY <3>1 DEF Apart
  <2> QED BY <1>1, <2>6, <2>7, <2>8 DEF r
<1> QED BY <1>4, <1>5

\* What e tells together with t is all in t.
Covers(e, t, m) ==
    \A i \in 1..Len(e) : Voice(e[i], m) \cap t # {} => Voice(e[i], m) \subseteq t

\* Where the persisted chain starts with a user.
LEMMA FirstUserAt ==
    ASSUME NEW W, NEW e \in Entries(W)
    PROVE  \E q \in 1..(Len(e) + 1) :
              /\ Len(FromFirstUser(e)) = Len(e) - q + 1
              /\ \A k \in 1..(Len(e) - q + 1) : FromFirstUser(e)[k] = e[q + k - 1]
              /\ \A i \in 1..(q - 1) : e[i].role # "user"
<1> DEFINE S == Heard(W)
           users == {i \in DOMAIN e : e[i].role = "user"}
           from  == CHOOSE i \in users : \A j \in users : i <= j
           N == Len(e)
<1>1. e \in Seq(S) /\ N \in Nat /\ DOMAIN e = 1..N
  BY EntryFacts DEF Entries
<1>2. FromFirstUser(e) = IF users = {} THEN <<>> ELSE SubSeq(e, from, N)
  BY DEF FromFirstUser
<1>3. users \in SUBSET (1..N) /\ \A i \in 1..N : i \in users <=> e[i].role = "user"
  BY <1>1
<1> HIDE DEF users, S
<1>4. CASE users = {}
  <2>1. FromFirstUser(e) = <<>> /\ Len(<<>>) = 0
    BY <1>2, <1>4
  <2>2. N + 1 \in 1..(N + 1) /\ N - (N + 1) + 1 = 0 /\ \A i \in 1..((N + 1) - 1) : i \in 1..N
    BY <1>1
  <2>3. \A i \in 1..((N + 1) - 1) : e[i].role # "user"
    BY <1>3, <1>4, <2>2
  <2>4. \A k \in 1..(N - (N + 1) + 1) : FALSE
    BY <2>2
  <2> QED BY <2>1, <2>2, <2>3, <2>4
<1>5. CASE users # {}
  <2>1. from \in users /\ \A j \in users : from <= j
    BY <1>1, <1>3, <1>5, EndFacts
  <2> HIDE DEF from
  <2>2. from \in 1..N
    BY <1>3, <2>1
  <2>3. from \in Nat \ {0} /\ from <= N /\ from \in 1..(N + 1)
    BY <1>1, <2>2
  <2>4. /\ Len(SubSeq(e, from, N)) = N - from + 1
        /\ \A k \in 1..(N - from + 1) : SubSeq(e, from, N)[k] = e[from + k - 1]
    BY <1>1, <2>3, RecallsSlice
  <2>5. \A i \in 1..(from - 1) : i \in 1..N /\ ~(from <= i)
    BY <1>1, <2>2
  <2>6. \A i \in 1..(from - 1) : e[i].role # "user"
    BY <1>3, <2>1, <2>5
  <2> QED BY <1>2, <1>5, <2>3, <2>4, <2>6
<1> QED BY <1>4, <1>5

\* What is left of the persisted chain and one new entry tells no more.
LEMMA UpdateRecalls ==
    ASSUME NEW W, NEW e \in Entries(W), NEW x \in Spoken(W), NEW m
    PROVE  Recalls(IF x.text = {} THEN e ELSE Append(e, x), UpdateChain(e, <<x>>), m)
<1> DEFINE S == Heard(W)
           new == <<x>>
           I == {i \in DOMAIN new : new[i].text # {}}
           all == e \o Only(new, I)
           q == Len(all) - MaxSaved + 1
           last == SubSeq(all, q, Len(all))
<1>1. MaxSaved \in Nat \ {0}
  BY RequestsAssumption
<1>2. UpdateChain(e, new) = IF Len(all) <= MaxSaved THEN all ELSE FromFirstUser(last)
  BY DEF UpdateChain, Those
<1>3. Only(new, I) = IF x.text = {} THEN <<>> ELSE new
  <2>1. 1 \in I <=> x.text # {}
    OBVIOUS
  <2>2. new = Append(<<>>, x) /\ <<>> \in Seq(Spoken(W)) /\ Len(<<>>) = 0
    BY EmptySeq
  <2> HIDE DEF new, I
  <2>3. Only(Append(<<>>, x), I) = IF Len(<<>>) + 1 \in I THEN Append(Only(<<>>, I), x) ELSE Only(<<>>, I)
    <3> DEFINE nil == <<>>
    <3>1. nil \in Seq(Spoken(W)) /\ x \in Spoken(W)
      BY <2>2
    <3> HIDE DEF nil
    <3>2. Only(Append(nil, x), I) = IF Len(nil) + 1 \in I THEN Append(Only(nil, I), x) ELSE Only(nil, I)
      BY <3>1, OnlyAppend
    <3> QED BY <3>2 DEF nil
  <2>4. Only(<<>>, I) = <<>>
    <3>1. Len(Only(<<>>, {})) <= 0 /\ Only(<<>>, {}) \in Seq(Spoken(W))
      <4>1. {} \in SUBSET (1..Len(<<>>))
        OBVIOUS
      <4> QED BY <2>2, <4>1, OnlyShorter, OnlyFacts
    <3>2. Only(<<>>, {}) = <<>>
      <4>1. Len(Only(<<>>, {})) \in Nat
        BY <3>1, LenProperties
      <4>2. Len(Only(<<>>, {})) = 0
        BY <3>1, <4>1
      <4> QED BY <3>1, <4>2, EmptySeq
    <3>3. Only(<<>>, I) = Only(<<>>, {})
      BY <2>2 DEF Only
    <3> QED BY <3>2, <3>3
  <2>5. Append(<<>>, x) = new
    BY <2>2
  <2> QED BY <2>1, <2>2, <2>3, <2>4, <2>5
<1>4. e \in Seq(S)
  BY DEF Entries
<1>5. all = IF x.text = {} THEN e ELSE Append(e, x)
  <2>1. e \o <<>> = e /\ e \o new = Append(e, x)
    <3>1. x \in Spoken(W) /\ S \subseteq Spoken(W)
      BY DEF Heard
    <3> HIDE DEF S
    <3>2. e \in Seq(Spoken(W))
      BY <1>4, <3>1, SeqMonotonic
    <3>3. e \o <<>> = e
      BY <3>2, ConcatEmptySeq
    <3> QED BY <3>2, <3>3
  <2> HIDE DEF new
  <2> QED BY <1>3, <2>1
<1>6. all \in Seq(S)
  <2>1. x.text # {} => x \in S
    BY DEF Heard
  <2> HIDE DEF S, all
  <2> QED BY <1>4, <1>5, <2>1, AppendProperties
<1> HIDE DEF all
<1>7. Recalls(all, UpdateChain(e, new), m)
  <2>1. CASE Len(all) <= MaxSaved
    BY <1>2, <2>1, RecallsSelf
  <2>2. CASE ~(Len(all) <= MaxSaved)
    <3>1. Len(all) \in Nat
      BY <1>6, LenProperties
    <3>2. q \in Nat \ {0} /\ q <= Len(all)
      BY <1>1, <2>2, <3>1
    <3> HIDE DEF q
    <3>3. Recalls(all, last, m)
      <4> HIDE DEF S
      <4> QED BY <1>6, <3>2, RecallsSlice
    <3>4. last \in Entries(W)
      <4>1. Len(all) \in 0..Len(all)
        BY <3>1
      <4> HIDE DEF S
      <4>2. last \in Seq(S)
        BY <1>6, <3>2, <4>1, SliceFacts
      <4> QED BY <4>2 DEF Entries, S
    <3> HIDE DEF last
    <3>5. Recalls(last, FromFirstUser(last), m)
      <4> DEFINE f == FromFirstUser(last)
      <4>1. PICK p \in 1..(Len(last) + 1) :
              /\ Len(f) = Len(last) - p + 1
              /\ \A k \in 1..(Len(last) - p + 1) : f[k] = last[p + k - 1]
        BY <3>4, FirstUserAt
      <4> DEFINE at == [k \in 1..Len(f) |-> p + k - 1]
      <4>2. Len(last) \in Nat
        BY <3>4, EntryFacts
      <4> HIDE DEF f
      <4>3. \A k \in 1..Len(f) : p + k - 1 \in 1..Len(last)
        BY <4>1, <4>2
      <4>4. \A j, k \in 1..Len(f) : j < k => p + j - 1 < p + k - 1
        BY <4>1, <4>2
      <4>5. Picks(f, last, at)
        BY <4>1, <4>3, <4>4 DEF Picks
      <4> QED BY <4>5, RecallsPicks DEF f
    <3> QED BY <1>2, <2>2, <3>3, <3>5, RecallsOn
  <2> QED BY <2>1, <2>2
<1> QED BY <1>5, <1>7

\* A text that nothing is told in,
LEMMA CoversNothing ==
    ASSUME NEW e, NEW t, NEW m, t \cap m = {}
    PROVE  Covers(e, t, m)
<1>1. \A i \in 1..Len(e) : Voice(e[i], m) \cap t = {}
  BY DEF Voice
<1> QED BY <1>1 DEF Covers

\* The chain execute() starts with, payload by payload.
LEMMA SavedAt ==
    ASSUME NEW W, Words \subseteq W, NEW e \in Entries(W)
    PROVE  LET d == <<System, Tools>> \o (<<User({"now"})>> \o SavedPayloads(e))
               f == FromFirstUser(e)
           IN  /\ d \in Chains(W) /\ Len(d) = 3 + Len(f) /\ Len(f) \in Nat
               /\ d[1].role # "user" /\ d[2].role # "user"
               /\ d[3].role = "user" /\ d[3].text = {"now"}
               /\ \A k \in 1..Len(f) : /\ d[3 + k].role = "user" <=> f[k].role = "user"
                                       /\ d[3 + k].text = f[k].text
<1> DEFINE s == SavedPayloads(e)
           f == FromFirstUser(e)
           now == <<User({"now"})>>
           a == <<System, Tools>>
<1>1. Len(f) \in Nat /\ DOMAIN f = 1..Len(f)
  <2>1. f \in Entries(W)
    BY EntryFacts
  <2> HIDE DEF f
  <2> QED BY <2>1, EntryFacts
<1> HIDE DEF f
<1>2. s = [i \in 1..Len(f) |-> IF f[i].role = "user" THEN User(f[i].text)
                               ELSE Assistant(f[i].text, {})]
  BY <1>1 DEF SavedPayloads, f
<1>3. s \in Chains(W)
  BY SavedFacts
<1>4. Len(s) = Len(f)
  <2>1. DOMAIN s = 1..Len(s) /\ Len(s) \in Nat
    BY <1>3, ChainFacts
  <2>2. DOMAIN s = 1..Len(f)
    BY <1>2
  <2> HIDE DEF s
  <2> DEFINE x == Len(s)
             y == Len(f)
  <2>3. 1..x = 1..y /\ x \in Nat /\ y \in Nat
    BY <1>1, <2>1, <2>2
  <2> HIDE DEF x, y
  <2>4. \A i \in Int : (1 <= i /\ i <= x) <=> (1 <= i /\ i <= y)
    BY <2>3
  <2>5. x = y
    BY <2>3, <2>4
  <2> QED BY <2>5 DEF x, y
<1>5. \A k \in 1..Len(f) : /\ s[k].role = "user" <=> f[k].role = "user"
                           /\ s[k].text = f[k].text
  BY <1>2 DEF User, Assistant, Payload
<1> HIDE DEF s
<1>6. /\ now \in Chains(W) /\ Len(now) = 1 /\ now[1].role = "user" /\ now[1].text = {"now"}
      /\ a \in Chains(W) /\ Len(a) = 2 /\ a[1].role # "user" /\ a[2].role # "user"
  <2>1. {"now"} \in (SUBSET W) \ {{}}
    BY DEF Words
  <2>2. User({"now"}) \in Lines(W) /\ System \in Lines(W) /\ Tools \in Lines(W)
    BY <2>1, MadeFacts
  <2>3. /\ User({"now"}).role = "user" /\ User({"now"}).text = {"now"}
        /\ System.role # "user" /\ Tools.role # "user"
    BY DEF User, System, Tools, Payload
  <2> HIDE DEF User, System, Tools
  <2> QED BY <2>2, <2>3 DEF Chains
<1> HIDE DEF now, a
<1> DEFINE h == now \o s
           d == a \o h
<1>7. h \in Chains(W) /\ Len(h) = 1 + Len(f)
      /\ \A i \in 1..(1 + Len(f)) : h[i] = IF i <= 1 THEN now[i] ELSE s[i - 1]
  <2>1. h \in Chains(W)
    BY <1>3, <1>6, PartFacts
  <2>2. /\ Len(h) = Len(now) + Len(s)
        /\ \A i \in 1..(Len(now) + Len(s)) : h[i] = IF i <= Len(now) THEN now[i] ELSE s[i - Len(now)]
    <3>1. now \in Chains(W) /\ s \in Chains(W)
      BY <1>3, <1>6
    <3> QED BY <3>1, JoinFacts
  <2> HIDE DEF h
  <2> QED BY <1>4, <1>6, <2>1, <2>2
<1> HIDE DEF h
<1>8. d \in Chains(W) /\ Len(d) = 2 + Len(h)
      /\ \A i \in 1..(2 + Len(h)) : d[i] = IF i <= 2 THEN a[i] ELSE h[i - 2]
  <2>1. d \in Chains(W)
    BY <1>6, <1>7, PartFacts
  <2>2. /\ Len(d) = Len(a) + Len(h)
        /\ \A i \in 1..(Len(a) + Len(h)) : d[i] = IF i <= Len(a) THEN a[i] ELSE h[i - Len(a)]
    <3>1. a \in Chains(W) /\ h \in Chains(W)
      BY <1>6, <1>7
    <3> QED BY <3>1, JoinFacts
  <2> HIDE DEF d
  <2> QED BY <1>6, <2>1, <2>2
<1> HIDE DEF d
<1>9. d \in Chains(W) /\ Len(d) = 3 + Len(f)
  BY <1>1, <1>7, <1>8
<1>10. d[1] = a[1] /\ d[2] = a[2] /\ d[3] = now[1]
  <2>1. 1 \in 1..(2 + Len(h)) /\ 2 \in 1..(2 + Len(h)) /\ 3 \in 1..(2 + Len(h)) /\ 1 \in 1..(1 + Len(f))
    BY <1>1, <1>7
  <2>2. d[3] = h[1]
    BY <1>8, <2>1
  <2> QED BY <1>7, <1>8, <2>1, <2>2
<1>11. \A k \in 1..Len(f) : d[3 + k] = s[k]
  <2> SUFFICES ASSUME NEW k \in 1..Len(f) PROVE d[3 + k] = s[k]
    OBVIOUS
  <2>1. 3 + k \in 1..(2 + Len(h)) /\ (3 + k) - 2 = 1 + k /\ 1 + k \in 1..(1 + Len(f)) /\ (1 + k) - 1 = k
        /\ ~(3 + k <= 2) /\ ~(1 + k <= 1)
    BY <1>1, <1>7
  <2> QED BY <1>7, <1>8, <2>1
<1>12. /\ d[1].role # "user" /\ d[2].role # "user"
       /\ d[3].role = "user" /\ d[3].text = {"now"}
  BY <1>6, <1>10
<1>13. \A k \in 1..Len(f) : /\ d[3 + k].role = "user" <=> f[k].role = "user"
                            /\ d[3 + k].text = f[k].text
  BY <1>5, <1>11
<1> QED BY <1>1, <1>9, <1>12, <1>13 DEF d, h, a, now, s, f

\* It tells what the persisted chain tells, and what is last in it is there.
LEMMA SavedTells ==
    ASSUME NEW W, Words \subseteq W, NEW e \in Entries(W), NEW m, NEW a, Tells(e, m, a),
           "now" \notin m
    PROVE  LET d == <<System, Tools>> \o (<<User({"now"})>> \o SavedPayloads(e))
           IN  d \in Chains(W) /\ Tells(d, m, a) /\ Covers(e, LastText(d, {}), m)
<1> DEFINE d == <<System, Tools>> \o (<<User({"now"})>> \o SavedPayloads(e))
           f == FromFirstUser(e)
           N == Len(e)
           L == LastText(d, {})
<1>1. /\ d \in Chains(W) /\ Len(d) = 3 + Len(f) /\ Len(f) \in Nat
      /\ d[1].role # "user" /\ d[2].role # "user"
      /\ d[3].role = "user" /\ d[3].text = {"now"}
      /\ \A k \in 1..Len(f) : /\ d[3 + k].role = "user" <=> f[k].role = "user"
                              /\ d[3 + k].text = f[k].text
  BY SavedAt
<1> HIDE DEF d
<1>2. PICK q \in 1..(N + 1) :
         /\ Len(f) = N - q + 1
         /\ \A k \in 1..(N - q + 1) : f[k] = e[q + k - 1]
         /\ \A i \in 1..(q - 1) : e[i].role # "user"
  BY FirstUserAt
<1>3. N \in Nat
  BY EntryFacts
<1> HIDE DEF f
<1>4. \A i \in 1..Len(d) : i \in {1, 2, 3} \/ (i - 3 \in 1..Len(f) /\ 3 + (i - 3) = i)
  BY <1>1
<1>5. ASSUME NEW k \in 1..Len(f)
      PROVE  /\ q + k - 1 \in 1..N
             /\ d[3 + k].role = "user" <=> e[q + k - 1].role = "user"
             /\ d[3 + k].text = e[q + k - 1].text
  <2>1. q + k - 1 \in 1..N /\ k \in 1..(N - q + 1)
    BY <1>2, <1>3
  <2>2. f[k] = e[q + k - 1]
    BY <1>2, <2>1
  <2> QED BY <1>1, <2>1, <2>2
<1>6. Tells(d, m, a)
  <2> DEFINE at == [i \in 1..Len(d) |-> i + q - 4]
  <2>1. ASSUME NEW i \in 1..Len(d), Voice(d[i], m) # {}
        PROVE  at[i] \in 1..N /\ Voice(e[at[i]], m) = Voice(d[i], m)
    <3>1. i \notin {1, 2, 3}
      BY <1>1, <2>1 DEF Voice
    <3>4. i - 3 \in 1..Len(f) /\ 3 + (i - 3) = i
      BY <1>4, <3>1
    <3>5. q + (i - 3) - 1 = i + q - 4
      BY <1>1, <1>3
    <3>2. i - 3 \in 1..Len(f) /\ 3 + (i - 3) = i /\ q + (i - 3) - 1 = i + q - 4
      BY <3>4, <3>5
    <3>3. /\ i + q - 4 \in 1..N
          /\ d[i].role = "user" <=> e[i + q - 4].role = "user"
          /\ d[i].text = e[i + q - 4].text
      BY <1>5, <3>2
    <3> QED BY <3>3 DEF Voice
  <2>2. \A j, k \in 1..Len(d) : j < k => at[j] < at[k]
    BY <1>1, <1>2, <1>3
  <2> HIDE DEF at
  <2>3. Recalls(e, d, m)
    BY <2>1, <2>2, RecallsAt
  <2> QED BY <2>3, TellsRecalls
<1>7. Covers(e, L, m)
  <2>1. Ends(d, {}, L)
    BY <1>1, EndsOnce
  <2> HIDE DEF L
  <2>2. 3 \in 1..Len(d) /\ Asker(d[3], {})
    BY <1>1 DEF Asker
  <2>3. PICK i \in 1..Len(d) : /\ Asker(d[i], {}) /\ d[i].text = L
                               /\ \A j \in (i + 1)..Len(d) : ~Asker(d[j], {})
    BY <2>1, <2>2 DEF Ends
  <2>4. d[i].role = "user" /\ \A j \in (i + 1)..Len(d) : d[j].role # "user"
    BY <2>3 DEF Asker
  <2>5. CASE i = 3
    <3>1. L \cap m = {}
      BY <1>1, <2>3, <2>5
    <3> QED BY <3>1, CoversNothing
  <2>6. CASE i # 3
    <3>1. i - 3 \in 1..Len(f) /\ 3 + (i - 3) = i
      BY <1>1, <1>4, <2>4, <2>6
    <3> DEFINE p == q + (i - 3) - 1
    <3>2. p \in 1..N /\ e[p].role = "user" /\ e[p].text = L
      BY <1>5, <2>3, <2>4, <3>1
    <3>3. \A j \in 1..N : j > p => e[j].role # "user"
      <4> SUFFICES ASSUME NEW j \in 1..N, j > p PROVE e[j].role # "user"
        OBVIOUS
      <4> DEFINE k == j - q + 1
      <4>1. k \in 1..Len(f) /\ q + k - 1 = j /\ 3 + k \in (i + 1)..Len(d)
        BY <1>1, <1>2, <1>3, <3>1
      <4> HIDE DEF k, p
      <4>2. d[3 + k].role # "user"
        BY <2>4, <4>1
      <4> QED BY <1>5, <4>1, <4>2
    <3> HIDE DEF p
    <3>4. Voice(e[p], m) = L \cap m
      BY <3>2 DEF Voice
    <3>5. ASSUME NEW j \in 1..N, Voice(e[j], m) \cap L # {} PROVE Voice(e[j], m) \subseteq L
      <4>1. Voice(e[j], m) \subseteq m
        BY DEF Voice
      <4>2. Voice(e[j], m) \cap Voice(e[p], m) # {}
        BY <3>4, <3>5, <4>1
      <4>3. ~(j > p)
        BY <3>3, <3>5 DEF Voice
      <4>4. j < p \/ j = p
        BY <1>3, <3>2, <4>3
      <4>5. Voice(e[j], m) \subseteq Voice(e[p], m)
        BY <3>2, <4>2, <4>4 DEF Tells, Once
      <4> QED BY <3>4, <4>5
    <3> QED BY <3>5 DEF Covers
  <2> QED BY <2>5, <2>6
<1> QED BY <1>1, <1>6, <1>7 DEF d, L

-----------------------------------------------------------------------------
(* No request tells a message twice                                        *)

\* The messages, and those that arrived.
Mail  == ToSet(Messages)
Known == Arrived(used.messages)

\* What is kept of a chain tells each message once; history that is still to be
\* put in tells nothing that the chain does.
ChainTells ==
    /\ Tells(chain, Mail, Known)
    /\ Tells(session.saved, Mail, Known)
    /\ Tells(Restore(session.snap), Mail, Known)
    /\ pc # "idle" /\ ~restored => Apart(Restore(session.snap), chain, Mail)
    /\ session.flag \/ loop.tries > 0 => restored

\* What is persisted of the turn under way is a part of what it answers.
TurnSaved ==
    /\ pc # "idle" =>
         /\ Covers(session.saved, LastText(chain, {}), Mail)
         /\ pre.saved => LastText(chain, {}) = pre.text \/ LastText(chain, {}) \cap Mail = {}
    /\ pc \notin {"idle", "ready"} \/ loop.tools \/ loop.waiting => pre.saved

\* The last word of a request, but for its note, is the chain's.
Near(c) == LastText(c, note) \in {LastText(chain, {}), {"bridge"}, {"followup"}}

\* The request in flight, and what is to be sent again of it, tell each message once.
RequestTells ==
    /\ pc = "flight" => Tells(request, Mail, Known) /\ Near(request)
    /\ pc = "sending" /\ loop.tries > 0 => Tells(local, Mail, Known) /\ Near(local)

\* The inductive invariant of NoMessageTwice.
TellInv == ChainTells /\ TurnSaved /\ RequestTells

\* No message is one of the words or of the notes.
LEMMA MailFacts ==
    ASSUME PartsOK
    PROVE  /\ \A w \in Words : w \notin Mail /\ w \notin note
           /\ \A w \in Words : {w} \cap Mail = {} /\ {w} \in (SUBSET Words) \ {{}}
           /\ note \cap Mail = {} /\ Known \subseteq Mail
<1>1. note \in SUBSET ToSet(Notes) /\ used.messages \in 0..Len(Messages)
  BY CountFacts
<1>2. Known \subseteq Mail
  BY <1>1, ArrivedFacts DEF Known, Mail
<1> QED BY <1>1, <1>2, RequestsAssumption DEF Mail

\* Nothing comes back of nothing.
LEMMA RestoreNothing == Restore(<<>>) = <<>>
<1> DEFINE c == <<>>
           J == {i \in DOMAIN c : ~IsPinned(c[i])}
           d == Only(c, J)
<1>1. c \in Chains(Words) /\ Settled(c) /\ Len(c) = 0 /\ DOMAIN c = {}
  BY EmptySettled DEF Chains
<1>2. Conversation(c) = d
  BY DEF Conversation, Those
<1>3. J = {}
  BY <1>1
<1> HIDE DEF c, J
<1>4. J \in SUBSET (1..Len(c))
  BY <1>3
<1>5. d \in Seq({}) /\ Len(d) \in Nat
  <2>1. c \in Seq({})
    BY DEF c
  <2> HIDE DEF d
  <2>2. Only(c, J) \in Seq({})
    BY <1>4, <2>1, OnlyFacts
  <2> QED BY <2>2, LenProperties DEF d
<1>6. \A k \in 1..Len(d) : FALSE
  <2>1. \A k \in 1..Len(d) : d[k] \in {}
    <3> HIDE DEF d
    <3> QED BY <1>5, ElementOfSeq
  <2> QED BY <2>1
<1>7. Restore(c) = d
  BY <1>1, <1>2, RestoredWhole
<1> HIDE DEF d
<1>8. Len(d) = 0
  BY <1>5, <1>6
<1>9. d = <<>>
  BY <1>5, <1>8, EmptySeq
<1> QED BY <1>7, <1>9 DEF c

\* What covers, covers what recalls it.
LEMMA CoversRecalls ==
    ASSUME NEW c, NEW d, NEW t, NEW m, Recalls(c, d, m), Covers(c, t, m)
    PROVE  Covers(d, t, m)
<1> SUFFICES ASSUME NEW k \in 1..Len(d), Voice(d[k], m) \cap t # {} PROVE Voice(d[k], m) \subseteq t
  BY DEF Covers
<1>1. Voice(d[k], m) # {}
  OBVIOUS
<1>2. PICK i \in 1..Len(c) : Voice(c[i], m) = Voice(d[k], m)
  BY <1>1 DEF Recalls
<1> QED BY <1>2 DEF Covers

\* Nothing is to be sent.
LEMMA NoRequestTells ==
    ASSUME pc' # "flight", pc' # "sending" \/ ~(loop'.tries > 0)
    PROVE  RequestTells'
<1> QED BY DEF RequestTells

\* A step after which the chain says no more of the messages, and after which the
\* turn is the same or its last word is no message.
LEMMA ChainGoesOn ==
    ASSUME ChainTells, TurnSaved, pc # "idle", Recalls(chain, chain', Mail),
           LastText(chain', {}) = LastText(chain, {}) \/ LastText(chain', {}) \cap Mail = {},
           Tells(session'.saved, Mail, Known), Covers(session'.saved, LastText(chain, {}), Mail),
           session'.snap = session.snap, session'.flag = session.flag,
           pre' = pre, restored' = restored, used'.messages = used.messages,
           loop'.tries > 0 => restored,
           pre.saved \/ (pc' = "ready" /\ ~loop'.tools /\ ~loop'.waiting)
    PROVE  ChainTells' /\ TurnSaved'
<1>1. Tells(chain', Mail, Known)
  BY TellsRecalls DEF ChainTells
<1>2. ~restored => Apart(Restore(session.snap), chain', Mail)
  <2> SUFFICES ASSUME ~restored PROVE Apart(Restore(session.snap), chain', Mail)
    OBVIOUS
  <2>1. Apart(Restore(session.snap), chain, Mail)
    BY DEF ChainTells
  <2> QED BY <2>1, ApartRecalls
<1>3. Covers(session'.saved, LastText(chain', {}), Mail)
  BY CoversNothing
<1>4. pre.saved => LastText(chain', {}) = pre.text \/ LastText(chain', {}) \cap Mail = {}
  BY DEF TurnSaved
<1>5. Known' = Known
  BY DEF Known
<1>6. ChainTells'
  BY <1>1, <1>2, <1>5 DEF ChainTells
<1>7. TurnSaved'
  BY <1>3, <1>4 DEF TurnSaved
<1> QED BY <1>6, <1>7

\* The end of execute(): what it leaves tells each message once.
LEMMA EndTells ==
    ASSUME End, Tells(session'.saved, Mail, Known'),
           Tells(Restore(session'.snap), Mail, Known'), session'.flag => restored'
    PROVE  TellInv'
<1>1. pc' = "idle" /\ chain' = <<>> /\ loop' = NewLoop
  BY DEF End
<1>2. Tells(<<>>, Mail, Known')
  BY TellsNothing
<1>3. ~(loop'.tries > 0) /\ ~loop'.tools /\ ~loop'.waiting
  BY <1>1 DEF NewLoop
<1>4. ChainTells'
  BY <1>1, <1>2, <1>3 DEF ChainTells
<1>5. TurnSaved'
  BY <1>1, <1>3 DEF TurnSaved
<1>6. RequestTells'
  BY <1>1, NoRequestTells
<1> QED BY <1>4, <1>5, <1>6 DEF TellInv

\* What is persisted of a turn before its request: a text that has something new, or
\* nothing of a message.
LEMMA PreSaveTells ==
    ASSUME NEW W, NEW S, session \in [saved : Entries(W), snap : S, flag : BOOLEAN],
           NEW c \in Chains(W), PreSave(c), NEW a, NEW b, a \subseteq b, "followup" \notin Mail,
           Tells(session.saved, Mail, a), Covers(session.saved, LastText(c, {}), Mail),
           LastText(c, {}) \cap Mail \subseteq b,
           \/ LastText(c, {}) \cap Mail = {}
           \/ LastText(c, {}) = pre.text /\ pre.saved
           \/ ~(LastText(c, {}) \cap Mail \subseteq a)
    PROVE  /\ session'.snap = session.snap /\ session'.flag = session.flag
           /\ Tells(session'.saved, Mail, b) /\ Covers(session'.saved, LastText(c, {}), Mail)
           /\ pre'.saved => LastText(c, {}) = pre'.text \/ LastText(c, {}) \cap Mail = {}
           /\ LastText(c, {}) # {} \/ pre.saved => pre'.saved
<1> DEFINE t == LastText(c, {})
           e == session.saved
           x == Entry("user", t)
           y == IF x.text = {} THEN e ELSE Append(e, x)
<1>1. LastUserText(c) = t /\ t \in SUBSET W
  <2>1. LastUserText(c) = t
    BY LastUserIs
  <2> QED BY <2>1, TextFacts
<1>2. \/ (t = {} \/ (t = pre.text /\ pre.saved)) /\ UNCHANGED <<session, disk, pre>>
      \/ /\ ~(t = {} \/ (t = pre.text /\ pre.saved))
         /\ session' = [session EXCEPT !.saved = UpdateChain(@, <<x>>)]
         /\ pre' = [text |-> t, saved |-> TRUE]
  BY <1>1 DEF PreSave, Save
<1>3. x \in Spoken(W) /\ x.role = "user" /\ Voice(x, Mail) = t \cap Mail
  <2>1. x = [role |-> "user", text |-> t \ {"followup"}]
    BY DEF Entry
  <2> HIDE DEF t, x
  <2>2. x \in Spoken(W)
    BY <1>1, <2>1 DEF Spoken
  <2> QED BY <2>1, <2>2 DEF Voice
<1> HIDE DEF t, x
<1>4. e \in Entries(W)
  OBVIOUS
<1>5. Tells(e, Mail, b) /\ Covers(e, t, Mail) /\ t \cap Mail \subseteq b
  BY TellsNothing DEF t
<1>6. CASE (t = {} \/ (t = pre.text /\ pre.saved)) /\ UNCHANGED <<session, disk, pre>>
  <2>1. session' = session /\ pre' = pre
    BY <1>6
  <2>2. pre'.saved => t = pre'.text \/ t \cap Mail = {}
    BY <1>6, <2>1
  <2>3. t # {} \/ pre.saved => pre'.saved
    BY <1>6, <2>1
  <2> QED BY <1>5, <2>1, <2>2, <2>3 DEF t
<1>7. CASE /\ ~(t = {} \/ (t = pre.text /\ pre.saved))
           /\ session' = [session EXCEPT !.saved = UpdateChain(@, <<x>>)]
           /\ pre' = [text |-> t, saved |-> TRUE]
  <2>1. \A i \in 1..Len(e) : Voice(e[i], Mail) \cap Voice(x, Mail) # {} =>
           Voice(e[i], Mail) \subseteq Voice(x, Mail) /\ Voice(e[i], Mail) # Voice(x, Mail)
    <3> SUFFICES ASSUME NEW i \in 1..Len(e), Voice(e[i], Mail) \cap Voice(x, Mail) # {}
                 PROVE  /\ Voice(e[i], Mail) \subseteq Voice(x, Mail)
                        /\ Voice(e[i], Mail) # Voice(x, Mail)
      OBVIOUS
    <3>1. Voice(e[i], Mail) \subseteq Mail /\ Voice(e[i], Mail) \subseteq a
      BY DEF Voice, Tells
    <3>2. Voice(e[i], Mail) \cap t # {} /\ t \cap Mail # {}
      BY <1>3
    <3>3. Voice(e[i], Mail) \subseteq t
      BY <1>5, <3>2 DEF Covers
    <3>4. ~(t \cap Mail \subseteq a)
      BY <1>7, <3>2 DEF t
    <3> QED BY <1>3, <3>1, <3>3, <3>4
  <2>2. Heard(W) \subseteq Spoken(W) /\ e \in Seq(Spoken(W)) /\ e \in Seq(Heard(W))
    <3>1. Heard(W) \subseteq Spoken(W)
      BY DEF Heard
    <3>2. e \in Seq(Heard(W))
      BY <1>4 DEF Entries
    <3> DEFINE H == Heard(W)
               P == Spoken(W)
    <3>3. H \subseteq P /\ e \in Seq(H)
      BY <3>1, <3>2
    <3> HIDE DEF H, P, e
    <3>4. e \in Seq(P)
      BY <3>3, SeqMonotonic
    <3> QED BY <3>1, <3>2, <3>4 DEF P
  <2>3. Voice(x, Mail) \subseteq b
    BY <1>3, <1>5
  <2> HIDE DEF e
  <2>4. Tells(Append(e, x), Mail, b)
    BY <1>3, <1>5, <2>1, <2>2, <2>3, TellsMore
  <2>5. Covers(Append(e, x), t, Mail)
    <3>1. /\ Len(Append(e, x)) = Len(e) + 1 /\ Append(e, x)[Len(e) + 1] = x /\ Len(e) \in Nat
          /\ \A i \in 1..Len(e) : Append(e, x)[i] = e[i]
      <4> DEFINE P == Spoken(W)
      <4>1. e \in Seq(P) /\ x \in P
        BY <1>3, <2>2
      <4> HIDE DEF P
      <4> QED BY <4>1, AppendProperties, LenProperties
    <3> SUFFICES ASSUME NEW i \in 1..Len(Append(e, x)), Voice(Append(e, x)[i], Mail) \cap t # {}
                 PROVE  Voice(Append(e, x)[i], Mail) \subseteq t
      BY DEF Covers
    <3>2. CASE i = Len(e) + 1
      BY <1>3, <3>1, <3>2
    <3>3. CASE i # Len(e) + 1
      <4>1. i \in 1..Len(e)
        BY <3>1, <3>3
      <4> QED BY <1>5, <3>1, <4>1 DEF Covers
    <3> QED BY <3>2, <3>3
  <2>6. Tells(y, Mail, b) /\ Covers(y, t, Mail)
    BY <1>5, <2>4, <2>5
  <2>7. Recalls(y, UpdateChain(e, <<x>>), Mail)
    BY <1>3, <1>4, UpdateRecalls
  <2> HIDE DEF y
  <2>8. Tells(UpdateChain(e, <<x>>), Mail, b) /\ Covers(UpdateChain(e, <<x>>), t, Mail)
    BY <2>6, <2>7, TellsRecalls, CoversRecalls
  <2> DEFINE z == UpdateChain(e, <<x>>)
  <2>9. session' = [session EXCEPT !.saved = z]
    BY <1>7 DEF e
  <2> HIDE DEF z
  <2>10. session'.saved = z /\ session'.snap = session.snap /\ session'.flag = session.flag
    BY <2>9
  <2>11. Tells(z, Mail, b) /\ Covers(z, t, Mail)
    BY <2>8 DEF z
  <2>12. pre'.saved /\ pre'.text = t
    BY <1>7
  <2> QED BY <2>10, <2>11, <2>12 DEF t
<1> QED BY <1>2, <1>6, <1>7

\* What is persisted of a reply tells nothing.
LEMMA ReplyTells ==
    ASSUME NEW W, NEW S, Words \subseteq W,
           session \in [saved : Entries(W), snap : S, flag : BOOLEAN],
           pre.saved, NEW visible, Reply(visible), NEW a, NEW t,
           Tells(session.saved, Mail, a), Covers(session.saved, t, Mail)
    PROVE  /\ session'.snap = session.snap /\ session'.flag = session.flag
           /\ Tells(session'.saved, Mail, a) /\ Covers(session'.saved, t, Mail)
<1> DEFINE e == session.saved
           x == Entry("assistant", {"said"})
           y == IF x.text = {} THEN e ELSE Append(e, x)
           z == UpdateChain(e, <<x>>)
<1>1. x \in Spoken(W) /\ Voice(x, Mail) = {} /\ x.text # {}
  BY DEF Entry, Spoken, Words, Voice
<1>2. session' = session \/ session' = [session EXCEPT !.saved = z]
  <2>1. <<>> \o <<x>> = <<x>>
    <3> HIDE DEF x
    <3> QED BY <1>1, ConcatEmptySeq
  <2>2. session' = session \/ session' = [session EXCEPT !.saved = UpdateChain(@, <<>> \o <<x>>)]
    BY DEF Reply, Save
  <2> QED BY <2>1, <2>2
<1> HIDE DEF x
<1>3. e \in Entries(W)
  OBVIOUS
<1>4. e \in Seq(Spoken(W)) /\ e \in Seq(Heard(W))
  <2>1. Heard(W) \subseteq Spoken(W)
    BY DEF Heard
  <2>2. e \in Seq(Heard(W))
    BY <1>3 DEF Entries
  <2> DEFINE H == Heard(W)
             P == Spoken(W)
  <2>3. H \subseteq P /\ e \in Seq(H)
    BY <2>1, <2>2
  <2> HIDE DEF H, P, e
  <2>4. e \in Seq(P)
    BY <2>3, SeqMonotonic
  <2> QED BY <2>2, <2>4 DEF P
<1>5. Tells(e, Mail, a) /\ Covers(e, t, Mail)
  OBVIOUS
<1> HIDE DEF e
<1>6. Tells(Append(e, x), Mail, a)
  BY <1>1, <1>4, <1>5, TellsMore
<1>7. Covers(Append(e, x), t, Mail)
  <2>1. /\ Len(Append(e, x)) = Len(e) + 1 /\ Append(e, x)[Len(e) + 1] = x /\ Len(e) \in Nat
        /\ \A i \in 1..Len(e) : Append(e, x)[i] = e[i]
    <3> DEFINE P == Spoken(W)
    <3>1. e \in Seq(P) /\ x \in P
      BY <1>1, <1>4
    <3> HIDE DEF P
    <3> QED BY <3>1, AppendProperties, LenProperties
  <2> SUFFICES ASSUME NEW i \in 1..Len(Append(e, x)), Voice(Append(e, x)[i], Mail) \cap t # {}
               PROVE  Voice(Append(e, x)[i], Mail) \subseteq t
    BY DEF Covers
  <2>2. i # Len(e) + 1
    BY <1>1, <2>1
  <2>3. i \in 1..Len(e)
    BY <2>1, <2>2
  <2> QED BY <1>5, <2>1, <2>3 DEF Covers
<1>8. Recalls(Append(e, x), z, Mail)
  <2>1. Recalls(y, z, Mail)
    BY <1>1, <1>3, UpdateRecalls
  <2> QED BY <1>1, <2>1
<1> HIDE DEF z
<1>9. Tells(z, Mail, a) /\ Covers(z, t, Mail)
  BY <1>6, <1>7, <1>8, TellsRecalls, CoversRecalls
<1> QED BY <1>2, <1>5, <1>9 DEF e

\* Nothing is told in a fresh process,
LEMMA InitTells == Init => TellInv
<1> SUFFICES ASSUME Init PROVE TellInv
  OBVIOUS
<1>1. /\ pc = "idle" /\ chain = <<>> /\ loop = NewLoop /\ pre = NewPre /\ session = NewSession
  BY DEF Init
<1>2. session.saved = <<>> /\ Restore(session.snap) = <<>> /\ session.flag = FALSE
  <2>1. session.snap = <<>>
    BY <1>1 DEF NewSession
  <2> QED BY <1>1, <2>1, RestoreNothing DEF NewSession
<1>3. Tells(<<>>, Mail, Known)
  BY TellsNothing
<1>4. ~(loop.tries > 0) /\ ~loop.tools /\ ~loop.waiting
  BY <1>1 DEF NewLoop
<1> QED BY <1>1, <1>2, <1>3, <1>4 DEF TellInv, ChainTells, TurnSaved, RequestTells

\* and execute() starts with what was persisted, or with what is to be restored.
LEMMA StartTells ==
    ASSUME IInv, TellInv, Start
    PROVE  TellInv'
<1>1. /\ pc' = "ready" /\ loop' = NewLoop /\ pre' = NewPre /\ session' = session
      /\ restored' = restored /\ used' = used
      /\ chain' = <<System, Tools>> \o InitialHistory
  BY DEF Start, Save
<1>2. Known' = Known
  BY <1>1 DEF Known
<1>3. Words \subseteq Talks /\ session.saved \in Entries(Talks) /\ PartsOK
  BY SpeechFacts DEF IInv, SessionOK
<1>4. "now" \notin Mail
  BY <1>3, MailFacts DEF Words
<1>5. /\ Tells(session.saved, Mail, Known) /\ Tells(Restore(session.snap), Mail, Known)
      /\ session.flag => restored
  BY DEF TellInv, ChainTells
<1>6. /\ Tells(chain', Mail, Known) /\ Covers(session.saved, LastText(chain', {}), Mail)
      /\ ~restored => Apart(Restore(session.snap), chain', Mail)
  <2>1. CASE ToRestore
    <3> DEFINE c == <<System, Tools>>
    <3>1. c \in Chains(Talks) /\ Len(c) = 2
          /\ \A i \in 1..Len(c) : c[i].role # "user"
      <4>1. System \in Lines(Talks) /\ Tools \in Lines(Talks)
        BY <1>3, MadeFacts
      <4>2. System.role # "user" /\ Tools.role # "user"
        BY DEF System, Tools, Payload
      <4> HIDE DEF System, Tools
      <4> QED BY <4>1, <4>2 DEF Chains
    <3>2. chain' = c
      <4>1. InitialHistory = <<>>
        BY <2>1 DEF InitialHistory
      <4> HIDE DEF c
      <4>2. c \o <<>> = c
        BY <3>1, ConcatEmptySeq DEF Chains
      <4> QED BY <1>1, <4>1, <4>2 DEF c
    <3> HIDE DEF c
    <3>3. Recalls(<<>>, c, Mail)
      BY <3>1 DEF Recalls, Voice
    <3>4. Tells(c, Mail, Known) /\ Apart(Restore(session.snap), c, Mail)
      BY <3>3, TellsNothing, TellsRecalls, ApartRecalls
    <3>5. LastText(c, {}) = {}
      <4>1. Ends(c, {}, {})
        BY <3>1 DEF Ends, Asker
      <4> QED BY <3>1, <4>1, EndsOnce
    <3>6. Covers(session.saved, {}, Mail)
      BY CoversNothing
    <3> QED BY <3>2, <3>4, <3>5, <3>6
  <2>2. CASE ~ToRestore
    <3>1. chain' = <<System, Tools>> \o (<<User({"now"})>> \o SavedPayloads(session.saved))
      BY <1>1, <2>2 DEF InitialHistory
    <3>2. Tells(chain', Mail, Known) /\ Covers(session.saved, LastText(chain', {}), Mail)
      BY <1>3, <1>4, <1>5, <3>1, SavedTells
    <3>3. ~restored => Restore(session.snap) = <<>>
      BY <1>5, <2>2, RestoreNothing DEF ToRestore
    <3> QED BY <3>2, <3>3, TellsNothing
  <2> QED BY <2>1, <2>2
<1>7. ~(loop'.tries > 0) /\ ~loop'.tools /\ ~loop'.waiting /\ ~pre'.saved
  BY <1>1 DEF NewLoop, NewPre
<1>8. ChainTells'
  BY <1>1, <1>2, <1>5, <1>6, <1>7 DEF ChainTells
<1>9. TurnSaved'
  BY <1>1, <1>6, <1>7 DEF TurnSaved
<1>10. RequestTells'
  BY <1>1, NoRequestTells
<1> QED BY <1>8, <1>9, <1>10 DEF TellInv

\* What a stop, a failure, a clear or a crash leaves is told once.
LEMMA EndsTell ==
    ASSUME IInv, TellInv, CommitStop \/ GiveUp \/ Clear \/ Crash
    PROVE  TellInv'
<1>1. used'.messages = used.messages
  <2>1. used \in Counts
    BY DEF IInv, PartsOK
  <2> QED BY <2>1 DEF CommitStop, GiveUp, Clear, Crash, Fault, Counts
<1>2. Known' = Known
  BY <1>1 DEF Known
<1>3. End
  BY DEF CommitStop, GiveUp, Clear, Crash
<1>4. /\ Tells(session.saved, Mail, Known) /\ Tells(Restore(session.snap), Mail, Known)
      /\ session.flag => restored
  BY DEF TellInv, ChainTells
<1>5. /\ session \in [saved : Entries(Talks), snap : Chains(Kept), flag : BOOLEAN]
      /\ disk = OnDisk(session) /\ Words \subseteq Talks
  BY SpeechFacts DEF IInv, SessionOK
<1>6. CASE CommitStop
  <2>1. pc = "commit" /\ restored' = restored
    BY <1>6 DEF CommitStop
  <2>2. PICK visible \in BOOLEAN : Reply(visible)
    BY <1>6 DEF CommitStop
  <2>3. pre.saved
    BY <2>1 DEF TellInv, TurnSaved
  <2>4. Covers(session.saved, {}, Mail)
    BY CoversNothing
  <2>5. /\ session'.snap = session.snap /\ session'.flag = session.flag
        /\ Tells(session'.saved, Mail, Known)
    BY <1>4, <1>5, <2>2, <2>3, <2>4, ReplyTells
  <2> QED BY <1>2, <1>3, <1>4, <2>1, <2>5, EndTells
<1>7. CASE GiveUp
  <2>1. session' = session /\ restored' = restored
    BY <1>7 DEF GiveUp
  <2> QED BY <1>2, <1>3, <1>4, <2>1, EndTells
<1>8. CASE Clear
  <2>1. session' = NewSession
    BY <1>8 DEF Clear, Cleared, Save
  <2>2. session'.saved = <<>> /\ session'.snap = <<>> /\ ~session'.flag
    BY <2>1 DEF NewSession
  <2>3. Tells(<<>>, Mail, Known)
    BY TellsNothing
  <2>4. Restore(session'.snap) = <<>>
    BY <2>2, RestoreNothing
  <2> QED BY <1>2, <1>3, <2>2, <2>3, <2>4, EndTells
<1>9. CASE Crash
  <2>1. session' = [saved |-> disk.saved, snap |-> disk.snap, flag |-> FALSE]
    BY <1>9 DEF Crash
  <2>2. disk.saved = session.saved /\ disk.snap = session.snap
    BY <1>5 DEF OnDisk
  <2>3. session'.saved = session.saved /\ session'.snap = session.snap /\ ~session'.flag
    BY <2>1, <2>2
  <2> QED BY <1>2, <1>3, <1>4, <2>3, EndTells
<1> QED BY <1>6, <1>7, <1>8, <1>9

\* An execute() that goes on with a chain that echoes the one before it.
LEMMA EchoGoesOn ==
    ASSUME IInv, SInv, TellInv, pc \notin {"idle", "sending", "flight"}, pre.saved,
           Recalls(chain, chain', Mail),
           LastText(chain', {}) = LastText(chain, {}) \/ LastText(chain', {}) \cap Mail = {},
           session' = session, pre' = pre, restored' = restored, used'.messages = used.messages,
           loop'.tries = loop.tries, pc' # "flight"
    PROVE  TellInv'
<1>1. ~(loop.tries > 0)
  BY DEF SInv, FlagsOK
<1>2. ~(loop'.tries > 0)
  BY <1>1
<1>3. Tells(session'.saved, Mail, Known) /\ Covers(session'.saved, LastText(chain, {}), Mail)
  BY DEF TellInv, ChainTells, TurnSaved
<1>4. ChainTells' /\ TurnSaved'
  BY <1>2, <1>3, ChainGoesOn DEF TellInv
<1>5. RequestTells'
  BY <1>2, NoRequestTells
<1> QED BY <1>4, <1>5 DEF TellInv

\* An echo whose last word is a word of the plugin's says no more of the messages.
LEMMA BridgeFacts ==
    ASSUME PartsOK
    PROVE  /\ "bridge" \notin Mail /\ "bridge" \notin {} /\ "bridge" \notin note
           /\ "followup" \notin Mail /\ "followup" \notin note
           /\ {"bridge"} \cap Mail = {} /\ {"followup"} \cap Mail = {}
           /\ {"retry"} \cap Mail = {}
<1>1. "bridge" \in Words /\ "followup" \in Words /\ "retry" \in Words
  BY DEF Words
<1> QED BY <1>1, MailFacts

\* The end of a wait,
LEMMA TimeoutTells ==
    ASSUME IInv, SInv, TellInv, Timeout
    PROVE  TellInv'
<1>1. PartsOK /\ Words \subseteq Talks /\ chain \in Chains(Talks)
  BY SpeechFacts DEF IInv, ChainOK
<1>2. /\ pc = "ready" /\ loop.waiting /\ pc' = "sending"
      /\ session' = session /\ pre' = pre /\ restored' = restored
      /\ chain' = Prepare(WithSuspend(Prepare(chain)))
  BY DEF Timeout
<1>3. used'.messages = used.messages /\ loop'.tries = loop.tries
  BY <1>1 DEF Timeout, PartsOK, Counts, Loops
<1>4. pre.saved
  BY <1>2 DEF TellInv, TurnSaved
<1>5. "bridge" \notin Mail /\ "bridge" \notin {} /\ {"bridge"} \cap Mail = {}
  BY <1>1, BridgeFacts
<1> DEFINE a == Prepare(chain)
           b == WithSuspend(a)
<1>6. a \in Chains(Talks) /\ Echoes(chain, a, Mail, {})
  BY <1>1, <1>5, PrepareEcho
<1> HIDE DEF a
<1>7. b \in Chains(Talks) /\ Echoes(a, b, Mail, {})
  BY <1>1, <1>6, SuspendFacts, SuspendEcho
<1> HIDE DEF b
<1>8. Echoes(b, Prepare(b), Mail, {})
  BY <1>1, <1>5, <1>7, PrepareEcho
<1>9. Echoes(chain, Prepare(b), Mail, {})
  BY <1>6, <1>7, <1>8, EchoOn
<1>10. Echoes(chain, chain', Mail, {})
  BY <1>2, <1>9 DEF a, b
<1> QED BY <1>2, <1>3, <1>4, <1>5, <1>10, EchoGoesOn DEF Echoes

\* a round of calls,
LEMMA ExecuteTells ==
    ASSUME IInv, SInv, TellInv, Execute
    PROVE  TellInv'
<1>1. PartsOK /\ Words \subseteq Talks /\ chain \in Chains(Talks)
  BY SpeechFacts DEF IInv, ChainOK
<1>2. /\ pc = "execute" /\ pc' = "commit"
      /\ session' = session /\ pre' = pre /\ restored' = restored /\ used' = used /\ loop' = loop
  BY DEF Execute
<1>3. pre.saved
  BY <1>2 DEF TellInv, TurnSaved
<1>4. OpenCalls \in SUBSET CallIds
  <2>1. CASE chain # <<>>
    <3>1. Len(chain) \in Nat \ {0}
      BY <1>1, <2>1, EmptySeq DEF Chains
    <3>2. Len(chain) \in 1..Len(chain)
      BY <3>1
    <3>3. Last(chain) \in Lines(Talks)
      BY <1>1, <3>2, ChainFacts DEF Last
    <3>4. Last(chain).calls \in SUBSET CallIds
      BY <3>3, ChangedFacts
    <3> QED BY <3>4 DEF OpenCalls
  <2>2. CASE chain = <<>>
    BY <2>2 DEF OpenCalls
  <2> QED BY <2>1, <2>2
<1>5. PICK failed \in SUBSET OpenCalls, off \in SUBSET OpenCalls :
         \E refused \in SUBSET off :
            chain' = Executed((OpenCalls \ (failed \cup off)) \cup refused, failed, off)
  BY DEF Execute
<1>6. PICK done \in SUBSET CallIds : chain' = Executed(done, failed, off)
  <2>1. PICK refused \in SUBSET off :
           chain' = Executed((OpenCalls \ (failed \cup off)) \cup refused, failed, off)
    BY <1>5
  <2>2. (OpenCalls \ (failed \cup off)) \cup refused \in SUBSET CallIds
    BY <1>4, <1>5
  <2> QED BY <2>1, <2>2
<1> DEFINE c == IF done = {} THEN chain ELSE Append(chain, Result(done))
           d == RemoveCalls(c, off)
<1>7. c \in Chains(Talks) /\ Echoes(chain, c, Mail, {})
  <2>1. Result(done) \in Lines(Talks) /\ Result(done).role # "user"
    <3>1. Result(done) \in Lines(Talks)
      BY <1>6, MadeFacts
    <3> QED BY <3>1 DEF Result, Payload
  <2>2. Echoes(chain, chain, Mail, {})
    BY EchoSelf
  <2> DEFINE r == Result(done)
  <2>3. r \in Lines(Talks) /\ r.role # "user"
    BY <2>1
  <2> HIDE DEF r
  <2>4. Append(chain, r) \in Chains(Talks) /\ Echoes(chain, Append(chain, r), Mail, {})
    BY <1>1, <2>2, <2>3, ChainFacts, EchoMore
  <2> QED BY <1>1, <2>2, <2>4 DEF r
<1>8. chain' = RemoveCalls(d, failed)
  BY <1>6 DEF Executed
<1> HIDE DEF c
<1>9. d \in Chains(Talks) /\ Echoes(c, d, Mail, {})
  BY <1>7, RemoveFacts, RemoveCallsEcho
<1> HIDE DEF d
<1>10. Echoes(d, RemoveCalls(d, failed), Mail, {})
  BY <1>9, RemoveCallsEcho
<1>11. Echoes(chain, chain', Mail, {})
  BY <1>7, <1>8, <1>9, <1>10, EchoOn
<1>12. {"bridge"} \cap Mail = {}
  BY <1>1, BridgeFacts
<1> QED BY <1>2, <1>3, <1>11, <1>12, EchoGoesOn DEF Echoes

\* an empty reply,
LEMMA EmptyTells ==
    ASSUME IInv, SInv, TellInv, EmptyReply
    PROVE  TellInv'
<1>1. PartsOK /\ Words \subseteq Talks /\ chain \in Chains(Talks)
  BY SpeechFacts DEF IInv, ChainOK
<1>2. /\ pc = "commit" /\ pc' = "sending"
      /\ session' = session /\ pre' = pre /\ restored' = restored /\ used' = used
  BY DEF EmptyReply
<1>3. loop'.tries = loop.tries
  BY <1>1 DEF EmptyReply, PartsOK, Loops
<1>4. pre.saved
  BY <1>2 DEF TellInv, TurnSaved
<1>5. /\ "bridge" \notin Mail /\ "bridge" \notin {} /\ {"bridge"} \cap Mail = {}
      /\ {"retry"} \cap Mail = {}
  BY <1>1, BridgeFacts
<1>6. PICK ids : chain' = Prepare(Append(Prepare(PurgeReply(chain, ids)), User({"retry"})))
  BY DEF EmptyReply
<1> DEFINE a == PurgeReply(chain, ids)
           b == Prepare(a)
           d == Append(b, User({"retry"}))
<1>7. a \in Chains(Talks) /\ Recalls(chain, a, Mail)
  BY <1>1, PurgeFacts, PurgeEcho DEF Echoes
<1> HIDE DEF a
<1>8. b \in Chains(Talks) /\ Recalls(a, b, Mail)
  <2>1. b \in Chains(Talks) /\ Echoes(a, b, Mail, {})
    BY <1>1, <1>5, <1>7, PrepareEcho
  <2> QED BY <2>1 DEF Echoes
<1>9. Recalls(chain, b, Mail)
  BY <1>7, <1>8, RecallsOn
<1> HIDE DEF b
<1>10. {"retry"} \in (SUBSET Talks) \ {{}} /\ {"retry"} \cap {} = {}
  BY <1>1 DEF Words
<1>11. d \in Chains(Talks) /\ LastText(d, {}) = {"retry"}
  BY <1>8, <1>10, UserLast
<1>12. Recalls(chain, d, Mail)
  BY <1>1, <1>5, <1>8, <1>9, <1>10, UserRecalls
<1> HIDE DEF d
<1>13. Echoes(d, Prepare(d), Mail, {})
  BY <1>1, <1>5, <1>11, PrepareEcho
<1>14. chain' = Prepare(d)
  BY <1>6 DEF a, b, d
<1>15. Recalls(chain, chain', Mail)
  BY <1>12, <1>13, <1>14, RecallsOn DEF Echoes
<1>16. LastText(chain', {}) \cap Mail = {}
  BY <1>5, <1>11, <1>13, <1>14 DEF Echoes
<1> QED BY <1>2, <1>3, <1>4, <1>15, <1>16, EchoGoesOn

\* and the decisions after which execute() goes on.
LEMMA CommitTells ==
    ASSUME IInv, SInv, TellInv, CommitTools \/ CommitWait
    PROVE  TellInv'
<1>1. PartsOK /\ Words \subseteq Talks /\ chain \in Chains(Talks) /\ loop \in Loops
  BY SpeechFacts DEF IInv, ChainOK, PartsOK
<1>2. /\ pc = "commit" /\ pc' = "ready"
      /\ pre' = pre /\ restored' = restored /\ used' = used
  BY DEF CommitTools, CommitWait
<1>3. loop'.tries = loop.tries
  BY <1>1 DEF CommitTools, CommitWait, Loops
<1>4. pre.saved
  BY <1>2 DEF TellInv, TurnSaved
<1>5. CASE CommitTools
  <2>1. session' = session /\ chain' = chain
    BY <1>5 DEF CommitTools
  <2> QED BY <1>2, <1>3, <1>4, <2>1, RecallsSelf, EchoGoesOn
<1>6. CASE CommitWait
  <2>1. PICK visible \in BOOLEAN : Reply(visible)
    BY <1>6 DEF CommitWait
  <2>2. session \in [saved : Entries(Talks), snap : Chains(Kept), flag : BOOLEAN]
    BY DEF IInv, SessionOK
  <2>3. Tells(session.saved, Mail, Known) /\ Covers(session.saved, LastText(chain, {}), Mail)
    BY <1>2 DEF TellInv, ChainTells, TurnSaved
  <2>4. /\ session'.snap = session.snap /\ session'.flag = session.flag
        /\ Tells(session'.saved, Mail, Known) /\ Covers(session'.saved, LastText(chain, {}), Mail)
    BY <1>1, <1>4, <2>1, <2>2, <2>3, ReplyTells
  <2>5. chain' = WithSuspend(chain)
    BY <1>6 DEF CommitWait
  <2>6. Echoes(chain, chain', Mail, {})
    BY <1>1, <2>5, SuspendEcho
  <2>7. {"bridge"} \cap Mail = {}
    BY <1>1, BridgeFacts
  <2>8. ~(loop.tries > 0)
    BY <1>2 DEF SInv, FlagsOK
  <2>9. ChainTells' /\ TurnSaved'
    BY <1>2, <1>3, <1>4, <2>4, <2>6, <2>7, <2>8, ChainGoesOn DEF TellInv, Echoes
  <2>10. RequestTells'
    BY <1>2, NoRequestTells
  <2> QED BY <2>9, <2>10 DEF TellInv
<1> QED BY <1>5, <1>6

\* What is said last is told as well.
LEMMA LastTextTold ==
    ASSUME NEW W, NEW c \in Chains(W), NEW n, NEW m, NEW a, Tells(c, m, a)
    PROVE  LastText(c, n) \cap m \subseteq a
<1>1. Ends(c, n, LastText(c, n)) /\ Len(c) \in Nat
  BY EndsOnce, ChainFacts
<1>2. CASE LastText(c, n) = {}
  BY <1>2
<1>3. CASE \E i \in 1..Len(c) : Asker(c[i], n) /\ c[i].text = LastText(c, n)
  <2>1. PICK i \in 1..Len(c) : Asker(c[i], n) /\ c[i].text = LastText(c, n)
    BY <1>3
  <2>2. Voice(c[i], m) = LastText(c, n) \cap m
    BY <2>1 DEF Asker, Voice
  <2> QED BY <2>2 DEF Tells
<1> QED BY <1>1, <1>2, <1>3 DEF Ends

\* A turn begins with a chain that tells each message once.
LEMMA TurnGoesOn ==
    ASSUME SInv, ChainTells, pc = "ready", pc' = "sending", Known \subseteq Known',
           Tells(chain', Mail, Known'),
           ~restored => Apart(Restore(session.snap), chain', Mail),
           session'.snap = session.snap, session'.flag = session.flag,
           Tells(session'.saved, Mail, Known'), Covers(session'.saved, LastText(chain', {}), Mail),
           LastText(chain', {}) = pre'.text \/ LastText(chain', {}) \cap Mail = {},
           pre'.saved, restored' = restored, loop'.tries = loop.tries
    PROVE  TellInv'
<1>1. ~(loop'.tries > 0)
  BY DEF SInv, FlagsOK
<1>2. Tells(Restore(session.snap), Mail, Known')
  BY TellsNothing DEF ChainTells
<1>3. session.flag => restored
  BY DEF ChainTells
<1>4. ChainTells'
  BY <1>1, <1>2, <1>3 DEF ChainTells
<1>5. TurnSaved'
  BY DEF TurnSaved
<1>6. RequestTells'
  BY <1>1, NoRequestTells
<1> QED BY <1>4, <1>5, <1>6 DEF TellInv

\* The results of tools are read on,
LEMMA FollowupTells ==
    ASSUME IInv, SInv, TellInv, Followup
    PROVE  TellInv'
<1>1. PartsOK /\ Words \subseteq Talks /\ chain \in Chains(Talks)
      /\ session \in [saved : Entries(Talks), snap : Chains(Kept), flag : BOOLEAN]
  BY SpeechFacts DEF IInv, ChainOK, SessionOK
<1>2. /\ pc = "ready" /\ loop.tools /\ pc' = "sending" /\ restored' = restored /\ used' = used
      /\ chain' = Prepare(chain) /\ PreSave(Prepare(chain))
  BY DEF Followup
<1>3. loop'.tries = loop.tries /\ Known' = Known
  BY <1>1 DEF Followup, PartsOK, Loops, Known
<1>4. /\ Tells(chain, Mail, Known) /\ Tells(session.saved, Mail, Known) /\ pre.saved
      /\ Covers(session.saved, LastText(chain, {}), Mail)
      /\ LastText(chain, {}) = pre.text \/ LastText(chain, {}) \cap Mail = {}
  BY <1>2 DEF TellInv, ChainTells, TurnSaved
<1>5. /\ "bridge" \notin Mail /\ "bridge" \notin {} /\ {"bridge"} \cap Mail = {}
      /\ "followup" \notin Mail
  BY <1>1, BridgeFacts
<1> DEFINE c == Prepare(chain)
<1>6. c \in Chains(Talks) /\ Echoes(chain, c, Mail, {})
  BY <1>1, <1>5, PrepareEcho
<1> HIDE DEF c
<1>7. Tells(c, Mail, Known) /\ LastText(c, {}) \in {LastText(chain, {}), {"bridge"}}
  BY <1>4, <1>6, TellsRecalls DEF Echoes
<1>8. LastText(c, {}) \cap Mail \subseteq Known
  BY <1>6, <1>7, LastTextTold
<1>9. Covers(session.saved, LastText(c, {}), Mail)
  BY <1>4, <1>5, <1>7, CoversNothing
<1>10. \/ LastText(c, {}) \cap Mail = {}
       \/ LastText(c, {}) = pre.text /\ pre.saved
  BY <1>4, <1>5, <1>7
<1>11. PreSave(c)
  BY <1>2 DEF c
<1>12. /\ session'.snap = session.snap /\ session'.flag = session.flag
       /\ Tells(session'.saved, Mail, Known) /\ Covers(session'.saved, LastText(c, {}), Mail)
       /\ pre'.saved => LastText(c, {}) = pre'.text \/ LastText(c, {}) \cap Mail = {}
       /\ pre.saved => pre'.saved
  BY <1>1, <1>4, <1>5, <1>6, <1>8, <1>9, <1>10, <1>11, PreSaveTells
<1>13. ~restored => Apart(Restore(session.snap), c, Mail)
  <2> SUFFICES ASSUME ~restored PROVE Apart(Restore(session.snap), c, Mail)
    OBVIOUS
  <2>1. Apart(Restore(session.snap), chain, Mail)
    BY <1>2 DEF TellInv, ChainTells
  <2> QED BY <1>6, <2>1, ApartRecalls DEF Echoes
<1>14. chain' = c
  BY <1>2 DEF c
<1> QED BY <1>2, <1>3, <1>4, <1>7, <1>12, <1>13, <1>14, TurnGoesOn DEF TellInv

\* and a message is told for the first time.
LEMMA MessageTells ==
    ASSUME IInv, SInv, TellInv, NewMessage
    PROVE  TellInv'
<1>1. PartsOK /\ Words \subseteq All /\ chain \in Chains(All)
      /\ session \in [saved : Entries(All), snap : Chains(All), flag : BOOLEAN]
  <2>1. PartsOK /\ Words \subseteq All
    BY AllFacts
  <2>2. Talks \subseteq All /\ Asks \subseteq All /\ Kept \subseteq All
    BY <2>1, SpeechFacts
  <2> QED BY <2>1, <2>2, GrowFacts DEF IInv
<1>2. /\ pc = "ready" /\ pc' = "sending" /\ restored' = restored
      /\ used.messages \in 0..Len(Messages) /\ used.messages < Len(Messages)
      /\ used.messages \in Nat /\ used.messages + 1 \in 1..Len(Messages)
  <2>1. used.messages \in 0..Len(Messages) /\ used.messages < Len(Messages)
    BY <1>1, CountFacts DEF NewMessage
  <2> QED BY <2>1, NamesFacts DEF NewMessage
<1>3. loop'.tries = loop.tries /\ used'.messages = used.messages + 1
  BY <1>1 DEF NewMessage, MayHaveNote, PartsOK, Loops, Counts
<1> DEFINE text == {Messages[used.messages + 1]}
           p    == Prepare(chain)
           x    == AddInput(p, text)
           c    == Prepare(x)
           a    == Known
           b    == Known'
<1>4. chain' = c /\ PreSave(c)
  BY DEF NewMessage
<1>5. /\ text \in (SUBSET All) \ {{}} /\ text \subseteq Mail /\ text \cap Known = {}
      /\ a \subseteq b /\ text \subseteq b
  <2>1. text \subseteq Mail
    BY <1>2, NamesFacts DEF Mail
  <2>2. text \cap Known = {}
    <3> SUFFICES ASSUME NEW i \in 1..used.messages, Messages[i] = Messages[used.messages + 1]
                 PROVE  FALSE
      BY DEF Known, Arrived
    <3>1. i \in 1..Len(Messages)
      BY <1>2, NamesFacts
    <3>2. i = used.messages + 1
      BY <1>2, <3>1, NamesFacts
    <3> QED BY <1>2, <3>2
  <2>3. b = Arrived(used.messages + 1)
    BY <1>3 DEF Known
  <2>4. a \subseteq b /\ text \subseteq b
    <3> HIDE DEF b
    <3>1. used.messages + 1 \in 1..(used.messages + 1)
          /\ \A i \in 1..used.messages : i \in 1..(used.messages + 1)
      BY <1>2
    <3> QED BY <2>3, <3>1 DEF Known, Arrived
  <2> QED BY <2>1, <2>2, <2>4 DEF All, Mail
<1> HIDE DEF text, a, b
<1>6. /\ Tells(chain, Mail, a) /\ Tells(session.saved, Mail, a)
      /\ Tells(Restore(session.snap), Mail, a)
      /\ Covers(session.saved, LastText(chain, {}), Mail)
      /\ ~restored => Apart(Restore(session.snap), chain, Mail)
  BY <1>2 DEF TellInv, ChainTells, TurnSaved, a
<1>7. /\ "bridge" \notin Mail /\ "bridge" \notin {} /\ {"bridge"} \cap Mail = {}
      /\ "followup" \notin Mail
  BY <1>1, BridgeFacts
<1>8. p \in Chains(All) /\ Echoes(chain, p, Mail, {})
  BY <1>1, <1>7, PrepareEcho
<1> HIDE DEF p
<1>9. Tells(p, Mail, a)
  BY <1>6, <1>8, TellsRecalls DEF Echoes
<1>10. text \cap a = {}
  BY <1>5 DEF a
<1>11. /\ x \in Chains(All) /\ Tells(x, Mail, b)
       /\ LastText(x, {}) \in {text, LastText(p, {}) \cup text}
       /\ \A d : Tells(d, Mail, a) /\ Apart(d, p, Mail) => Apart(d, x, Mail)
  BY <1>5, <1>8, <1>9, <1>10, InputTells
<1> HIDE DEF x
<1>12. c \in Chains(All) /\ Echoes(x, c, Mail, {})
  BY <1>1, <1>7, <1>11, PrepareEcho
<1> HIDE DEF c
<1>13. Tells(c, Mail, b)
  BY <1>11, <1>12, TellsRecalls DEF Echoes
<1> DEFINE l == LastText(c, {})
<1>14. l \in {text, LastText(chain, {}) \cup text, {"bridge"} \cup text, {"bridge"}}
  BY <1>8, <1>11, <1>12 DEF Echoes
<1>15. l \cap Mail \subseteq b
  BY <1>12, <1>13, LastTextTold
<1>16. Covers(session.saved, l, Mail)
  <2> SUFFICES ASSUME NEW i \in 1..Len(session.saved),
                      Voice(session.saved[i], Mail) \cap l # {}
               PROVE  Voice(session.saved[i], Mail) \subseteq l
    BY DEF Covers
  <2> DEFINE v == Voice(session.saved[i], Mail)
  <2>1. v \subseteq a /\ v \subseteq Mail
    BY <1>6 DEF Tells, Voice
  <2>2. v \cap LastText(chain, {}) # {} => v \subseteq LastText(chain, {})
    BY <1>6 DEF Covers
  <2> HIDE DEF v
  <2>3. v \cap text = {} /\ v \cap {"bridge"} = {}
    BY <1>7, <1>10, <2>1
  <2>4. v \cap l # {}
    BY DEF v
  <2> HIDE DEF l
  <2>5. l = LastText(chain, {}) \cup text
    BY <1>14, <2>3, <2>4
  <2>6. v \subseteq l
    BY <2>2, <2>3, <2>4, <2>5
  <2> QED BY <2>6 DEF v
<1>17. l \cap Mail = {} \/ ~(l \cap Mail \subseteq a)
  <2> HIDE DEF l
  <2>1. text # {}
    BY <1>5
  <2> QED BY <1>5, <1>7, <1>10, <1>14, <2>1
<1>18. l # {}
  <2> HIDE DEF l
  <2> QED BY <1>5, <1>14
<1>19. /\ session'.snap = session.snap /\ session'.flag = session.flag
       /\ Tells(session'.saved, Mail, b) /\ Covers(session'.saved, LastText(c, {}), Mail)
       /\ pre'.saved => LastText(c, {}) = pre'.text \/ LastText(c, {}) \cap Mail = {}
       /\ LastText(c, {}) # {} \/ pre.saved => pre'.saved
  BY <1>1, <1>4, <1>5, <1>6, <1>7, <1>12, <1>15, <1>16, <1>17, PreSaveTells
<1>20. ~restored => Apart(Restore(session.snap), c, Mail)
  <2> SUFFICES ASSUME ~restored PROVE Apart(Restore(session.snap), c, Mail)
    OBVIOUS
  <2>1. Apart(Restore(session.snap), p, Mail)
    BY <1>6, <1>8, ApartRecalls DEF Echoes
  <2>2. Apart(Restore(session.snap), x, Mail)
    BY <1>6, <1>11, <2>1
  <2> QED BY <1>12, <2>2, ApartRecalls DEF Echoes
<1>21. /\ Known \subseteq Known' /\ Tells(chain', Mail, Known')
       /\ Tells(session'.saved, Mail, Known')
  BY <1>4, <1>5, <1>13, <1>19 DEF a, b
<1>22. pre'.saved /\ (LastText(c, {}) = pre'.text \/ LastText(c, {}) \cap Mail = {})
  BY <1>18, <1>19
<1> QED BY <1>2, <1>3, <1>4, <1>19, <1>20, <1>21, <1>22, TurnGoesOn DEF TellInv

\* The request that is made of a chain: the note says nothing of the messages, and
\* the history that is put in was told nowhere else.
LEMMA SentTells ==
    ASSUME NEW W, Words \subseteq W, note \in SUBSET W, NEW c \in Chains(W),
           PartsOK, Greets(c, note), NEW a, Tells(c, Mail, a),
           \/ restored
           \/ /\ Restore(session.snap) \in Chains(W) /\ Tells(Restore(session.snap), Mail, a)
              /\ Apart(Restore(session.snap), c, Mail)
    PROVE  /\ Sent(c) \in Chains(W) /\ Tells(Sent(c), Mail, a)
           /\ LastText(Sent(c), note) \in {LastText(c, note), {"bridge"}}
<1> DEFINE v == View(c)
           x == WithHistory(v)
           h == Restore(session.snap)
<1>1. "bridge" \notin Mail /\ "bridge" \notin note /\ note \cap Mail = {}
  BY BridgeFacts, MailFacts
<1>2. /\ v \in Chains(W) /\ Recalls(c, v, Mail) /\ LastText(v, note) = LastText(c, note)
      /\ \E i \in 1..Len(v) : Asker(v[i], note)
  <2>1. PICK i \in 1..Len(c) : Asker(c[i], note)
    BY DEF Greets, Asker
  <2>2. CASE note = {}
    <3>1. v = c
      BY <2>2 DEF View
    <3> QED BY <2>1, <3>1, RecallsSelf
  <2>3. CASE note # {}
    <3> DEFINE u == User(note)
    <3>1. v = Append(c, u)
      BY <2>3 DEF View
    <3>2. note \in (SUBSET W) \ {{}}
      BY <2>3
    <3>3. u \in Lines(W)
      BY <3>2, MadeFacts
    <3>4. ~Asker(u, note)
      BY <2>3 DEF Asker, User, Payload
    <3> HIDE DEF v
    <3>5. Recalls(c, v, Mail)
      BY <1>1, <3>1, <3>2, RecallsSelf, UserRecalls
    <3> HIDE DEF u
    <3>6. LastText(v, note) = LastText(c, note)
      BY <3>1, <3>3, <3>4, LastTextAppend
    <3>7. v \in Chains(W) /\ Len(v) = Len(c) + 1 /\ Len(c) \in Nat
          /\ \A k \in 1..Len(c) : v[k] = c[k]
      BY <3>1, <3>3, OneMore
    <3>8. i \in 1..Len(v) /\ v[i] = c[i]
      BY <2>1, <3>7
    <3> QED BY <2>1, <3>5, <3>6, <3>7, <3>8
  <2> QED BY <2>2, <2>3
<1>3. Sent(c) = Repair(x)
  BY DEF Sent
<1>4. restored => x = v
  BY DEF WithHistory
<1>5. ~restored => x = Inject(v, h)
  BY DEF WithHistory
<1> HIDE DEF v, x, h
<1>6. Tells(v, Mail, a)
  BY <1>2, TellsRecalls
<1>7. x \in Chains(W) /\ Tells(x, Mail, a) /\ LastText(x, note) = LastText(v, note)
  <2>1. CASE restored
    BY <1>2, <1>4, <1>6, <2>1
  <2>2. CASE ~restored
    <3>1. h \in Chains(W) /\ Tells(h, Mail, a) /\ Apart(h, c, Mail)
      BY <2>2 DEF h
    <3>2. Apart(h, v, Mail)
      BY <1>2, <3>1, ApartRecalls
    <3>3. Inject(v, h) \in Chains(W)
      BY <1>2, <3>1, InjectFacts
    <3>4. Tells(Inject(v, h), Mail, a)
      BY <1>2, <1>6, <3>1, <3>2, InjectTells
    <3>5. LastText(Inject(v, h), note) = LastText(v, note)
      BY <1>2, <3>1, InjectLast
    <3> QED BY <1>5, <2>2, <3>3, <3>4, <3>5
  <2> QED BY <2>1, <2>2
<1>8. Repair(x) \in Chains(W) /\ Echoes(x, Repair(x), Mail, note)
  BY <1>1, <1>7, RepairEcho
<1>9. Tells(Repair(x), Mail, a)
  BY <1>7, <1>8, TellsRecalls DEF Echoes
<1> QED BY <1>2, <1>3, <1>7, <1>8, <1>9 DEF Echoes

\* A request,
LEMMA AttemptTells ==
    ASSUME IInv, SInv, TellInv, SInv', IInv', Attempt
    PROVE  TellInv'
<1>1. /\ PartsOK /\ Words \subseteq Asks /\ note \in SUBSET Asks /\ Talks = Asks \ note
      /\ chain \in Chains(Talks) /\ loop \in Loops
      /\ session \in [saved : Entries(Talks), snap : Chains(Kept), flag : BOOLEAN]
  BY SpeechFacts DEF IInv, PartsOK, ChainOK, SessionOK
<1>2. /\ pc = "sending" /\ pc' = "flight" /\ note' = note /\ loop' = loop /\ restored' = TRUE
      /\ pre' = pre /\ used' = used
  BY DEF Attempt
<1>3. session'.saved = session.saved
  BY <1>1 DEF Attempt, Save
<1>4. PICK c \in Chains(Asks) :
         /\ c = IF loop.tries = 0 THEN chain ELSE local
         /\ Greets(c, note)
         /\ restored \/ \E V \in SUBSET Asks : Words \subseteq V /\ session.snap \in Chains(V)
         /\ chain' = chain /\ local' = c /\ request' = Sent(c)
         /\ session'.snap = Capture(Sent(c))
  BY AttemptFacts
<1>5. /\ Tells(chain, Mail, Known) /\ Tells(session.saved, Mail, Known)
      /\ Tells(Restore(session.snap), Mail, Known)
      /\ ~restored => Apart(Restore(session.snap), chain, Mail)
      /\ loop.tries > 0 => restored
  BY <1>2 DEF TellInv, ChainTells
<1>6. /\ Tells(c, Mail, Known)
      /\ LastText(c, note) \in {LastText(chain, {}), {"bridge"}, {"followup"}}
      /\ ~restored => c = chain
  <2>1. CASE loop.tries = 0
    <3>1. Talks \cap note = {}
      BY <1>1
    <3>2. LastText(chain, note) = LastText(chain, {})
      BY <1>1, <3>1, LastTextClear
    <3> QED BY <1>4, <1>5, <2>1, <3>2
  <2>2. CASE loop.tries > 0
    <3>1. c = local
      BY <1>4, <2>2
    <3> QED BY <1>2, <1>5, <2>2, <3>1 DEF TellInv, RequestTells, Near
  <2> QED BY <1>1, <2>1, <2>2, RequestsAssumption DEF Loops
<1>7. ~restored => Restore(session.snap) \in Chains(Asks)
  <2> SUFFICES ASSUME ~restored PROVE Restore(session.snap) \in Chains(Asks)
    OBVIOUS
  <2>1. PICK V \in SUBSET Asks : Words \subseteq V /\ session.snap \in Chains(V)
    BY <1>4
  <2>2. Restore(session.snap) \in Chains(V)
    BY <2>1, RestoreFacts
  <2> QED BY <2>1, <2>2, LinesGrow
<1>8. /\ Sent(c) \in Chains(Asks) /\ Tells(Sent(c), Mail, Known)
      /\ LastText(Sent(c), note) \in {LastText(c, note), {"bridge"}}
  BY <1>1, <1>4, <1>5, <1>6, <1>7, SentTells
<1>9. Settled(Sent(c))
  BY <1>2, <1>4 DEF SInv, Sending, Ready
<1>10. Recalls(Sent(c), Restore(Capture(Sent(c))), Mail)
  BY <1>1, <1>8, <1>9, RestoredRecalls
<1>11. Tells(Restore(session'.snap), Mail, Known)
  BY <1>4, <1>8, <1>10, TellsRecalls
<1>12. Known' = Known
  BY <1>2 DEF Known
<1>13. ChainTells'
  BY <1>2, <1>3, <1>4, <1>5, <1>11, <1>12 DEF ChainTells
<1>14. TurnSaved'
  BY <1>2, <1>3, <1>4 DEF TellInv, TurnSaved
<1>15. RequestTells'
  BY <1>2, <1>4, <1>6, <1>8, <1>12 DEF RequestTells, Near
<1> QED BY <1>13, <1>14, <1>15 DEF TellInv

\* a text, which is sent back,
LEMMA TextTells ==
    ASSUME IInv, Captured, TellInv, AnswerText
    PROVE  TellInv'
<1>1. PartsOK /\ Words \subseteq All /\ request \in Chains(All)
  BY AllFacts
<1>2. /\ pc = "flight" /\ pc' = "sending" /\ note' = note /\ chain' = chain
      /\ restored' = restored /\ session' = session /\ pre' = pre /\ used' = used
      /\ local' = WithDraft(Append(request, Assistant({"said"}, {})))
  BY DEF AnswerText
<1>3. "followup" \notin Mail /\ "followup" \notin note
  BY <1>1, BridgeFacts
<1>4. Recalls(request, local', Mail) /\ LastText(local', note) = {"followup"}
  BY <1>1, <1>2, <1>3, DraftEcho
<1>5. Tells(local', Mail, Known)
  BY <1>2, <1>4, TellsRecalls DEF TellInv, RequestTells
<1>6. Known' = Known /\ restored
  BY <1>2 DEF Known, Captured
<1>7. ChainTells'
  BY <1>2, <1>6 DEF TellInv, ChainTells
<1>8. TurnSaved'
  BY <1>2 DEF TellInv, TurnSaved
<1>9. RequestTells'
  BY <1>2, <1>4, <1>5, <1>6 DEF RequestTells, Near
<1> QED BY <1>7, <1>8, <1>9 DEF TellInv

\* The request is over: what the chain is then tells each message once.
LEMMA ReplyGoesOn ==
    ASSUME PartsOK, Captured, TellInv, pc = "flight", Tells(chain', Mail, Known),
           LastText(chain', {}) \in {LastText(chain, {}), {"bridge"}, {"followup"}},
           session' = session, pre' = pre, restored' = restored, used'.messages = used.messages,
           ~(loop'.tries > 0), pc' # "flight"
    PROVE  TellInv'
<1>1. restored /\ Known' = Known
  BY DEF Captured, Known
<1>2. {"bridge"} \cap Mail = {} /\ {"followup"} \cap Mail = {}
  BY BridgeFacts
<1>3. pre.saved /\ Covers(session.saved, LastText(chain, {}), Mail)
      /\ (LastText(chain, {}) = pre.text \/ LastText(chain, {}) \cap Mail = {})
  BY DEF TellInv, TurnSaved
<1>4. Covers(session.saved, LastText(chain', {}), Mail)
  BY <1>2, <1>3, CoversNothing
<1>5. LastText(chain', {}) = pre.text \/ LastText(chain', {}) \cap Mail = {}
  BY <1>2, <1>3
<1>6. ChainTells'
  BY <1>1 DEF TellInv, ChainTells
<1>7. TurnSaved'
  BY <1>3, <1>4, <1>5 DEF TurnSaved
<1>8. RequestTells'
  BY NoRequestTells
<1> QED BY <1>6, <1>7, <1>8 DEF TellInv

\* one that fails
LEMMA FailTells ==
    ASSUME IInv, Captured, TellInv, Fail
    PROVE  TellInv'
<1>1. PartsOK
  BY DEF IInv
<1>2. /\ pc = "flight" /\ pc' \in {"sending", "ready"}
      /\ session' = session /\ pre' = pre /\ restored' = restored
      /\ chain' = chain \/ (chain' = request /\ note = {})
  BY DEF Fail
<1>3. used'.messages = used.messages /\ ~(loop'.tries > 0)
  BY <1>1 DEF Fail, Fault, PartsOK, Counts, Loops
<1>4. Tells(chain', Mail, Known)
      /\ LastText(chain', {}) \in {LastText(chain, {}), {"bridge"}, {"followup"}}
  BY <1>2 DEF TellInv, ChainTells, RequestTells, Near
<1> QED BY <1>1, <1>2, <1>3, <1>4, ReplyGoesOn

\* and an answer, which the note goes with.
LEMMA AnswerTells ==
    ASSUME IInv, Captured, TellInv, NEW text \in SUBSET Words, NEW ids \in SUBSET CallIds,
           Answer(text, ids), pc' # "flight"
    PROVE  TellInv'
<1>1. PartsOK /\ Words \subseteq All /\ request \in Chains(All)
  BY AllFacts
<1>2. /\ pc = "flight" /\ session' = session /\ pre' = pre /\ restored' = restored
      /\ chain' = Continued(request, text, ids)
  BY DEF Answer
<1>3. used'.messages = used.messages /\ ~(loop'.tries > 0)
  BY <1>1 DEF Answer, PartsOK, Counts, Loops
<1>4. "bridge" \notin Mail /\ "bridge" \notin {}
  BY <1>1, BridgeFacts
<1> DEFINE p == Assistant(text, ids)
           c == Append(request, p)
<1>5. p \in Lines(All) /\ p.role # "user"
  <2>1. p \in Lines(All)
    BY <1>1, MadeFacts
  <2> QED BY <2>1 DEF Assistant, Payload
<1> DEFINE d == IF note = {} THEN c ELSE Strip(c, note)
<1>6. chain' = Repair(d)
  BY <1>2 DEF Continued
<1> HIDE DEF p
<1>7. c \in Chains(All) /\ Echoes(request, c, Mail, note)
  BY <1>1, <1>5, ChainFacts, EchoSelf, EchoMore
<1> HIDE DEF c
<1>8. d \in Chains(All) /\ Recalls(c, d, Mail) /\ LastText(d, {}) \in {LastText(c, note), {"bridge"}}
  <2>1. CASE note = {}
    BY <1>7, <2>1, RecallsSelf
  <2>2. CASE note # {}
    BY <1>1, <1>4, <1>7, <2>2, StripEcho
  <2> QED BY <2>1, <2>2
<1> HIDE DEF d
<1>9. Echoes(d, chain', Mail, {})
  BY <1>1, <1>4, <1>6, <1>8, RepairEcho
<1>10. Tells(chain', Mail, Known)
  <2>1. Tells(request, Mail, Known)
    BY <1>2 DEF TellInv, RequestTells
  <2>2. Tells(c, Mail, Known)
    BY <1>7, <2>1, TellsRecalls DEF Echoes
  <2>3. Tells(d, Mail, Known)
    BY <1>8, <2>2, TellsRecalls
  <2> QED BY <1>9, <2>3, TellsRecalls DEF Echoes
<1>11. LastText(chain', {}) \in {LastText(chain, {}), {"bridge"}, {"followup"}}
  BY <1>2, <1>7, <1>8, <1>9 DEF Echoes, TellInv, RequestTells, Near
<1> QED BY <1>1, <1>2, <1>3, <1>10, <1>11, ReplyGoesOn

\* Every step keeps it.
LEMMA NextTells == IInv /\ SInv /\ Captured /\ TellInv /\ [Next]_vars => TellInv'
<1> SUFFICES ASSUME IInv, SInv, Captured, TellInv, [Next]_vars PROVE TellInv'
  OBVIOUS
<1>1. IInv' /\ SInv'
  BY NextInv, NextReady
<1>2. CASE Start
  BY <1>2, StartTells
<1>3. CASE NewMessage
  BY <1>3, MessageTells
<1>4. CASE Followup
  BY <1>4, FollowupTells
<1>5. CASE Timeout
  BY <1>5, TimeoutTells
<1>6. CASE Attempt
  BY <1>1, <1>6, AttemptTells
<1>7. CASE Fail
  BY <1>7, FailTells
<1>8. CASE AnswerText
  BY <1>8, TextTells
<1>9. CASE AnswerTextLast
  <2>1. Answer({"said"}, {}) /\ pc' = "commit"
    BY <1>9 DEF AnswerTextLast
  <2>2. {"said"} \in SUBSET Words /\ {} \in SUBSET CallIds
    BY DEF Words
  <2> QED BY <2>1, <2>2, AnswerTells
<1>10. CASE \E ids \in (SUBSET CallIds) \ {{}} : AnswerCalls(ids)
  <2>1. PICK ids \in SUBSET CallIds : AnswerCalls(ids)
    BY <1>10
  <2>2. Answer({}, ids) /\ pc' = "execute"
    BY <2>1 DEF AnswerCalls
  <2> QED BY <2>1, <2>2, AnswerTells
<1>11. CASE Execute
  BY <1>11, ExecuteTells
<1>12. CASE EmptyReply
  BY <1>12, EmptyTells
<1>13. CASE CommitTools \/ CommitWait
  BY <1>13, CommitTells
<1>14. CASE CommitStop \/ GiveUp \/ Clear \/ Crash
  BY <1>14, EndsTell
<1>15. CASE UNCHANGED vars
  BY <1>15 DEF vars, TellInv, ChainTells, TurnSaved, RequestTells, Near, Known
<1> QED BY <1>2, <1>3, <1>4, <1>5, <1>6, <1>7, <1>8, <1>9, <1>10, <1>11, <1>12, <1>13, <1>14,
           <1>15 DEF Next

\* However history got into a request, out of the loop's chain, the persisted chain or
\* the snapshot, no message is in two of its texts, unless the later one has more.
THEOREM NothingToldTwice == Spec => []NoMessageTwice
<1>1. IInv /\ TellInv => NoMessageTwice
  <2> SUFFICES ASSUME IInv, TellInv, pc = "flight",
                      NEW i \in DOMAIN request, request[i].role = "user",
                      NEW j \in DOMAIN request, request[j].role = "user", i < j,
                      request[i].text \cap ToSet(Messages) \cap (request[j].text \cap ToSet(Messages)) # {}
               PROVE  /\ request[i].text \cap ToSet(Messages) \subseteq request[j].text \cap ToSet(Messages)
                      /\ request[i].text \cap ToSet(Messages) # request[j].text \cap ToSet(Messages)
    BY DEF NoMessageTwice
  <2>1. DOMAIN request = 1..Len(request)
    BY ChainFacts DEF IInv, RequestOK
  <2>2. Once(request, Mail)
    BY DEF TellInv, RequestTells, Tells
  <2>3. /\ Voice(request[i], Mail) = request[i].text \cap ToSet(Messages)
        /\ Voice(request[j], Mail) = request[j].text \cap ToSet(Messages)
    BY DEF Voice, Mail
  <2> QED BY <2>1, <2>2, <2>3 DEF Once
<1> QED BY <1>1, InitInv, NextInv, InitReady, NextReady, InitCaptured, NextCaptured,
           InitTells, NextTells, PTL DEF Spec

\* A message that comes in takes nothing away.
LEMMA InputKeeps ==
    ASSUME NEW W, NEW c \in Chains(W), NEW text \in (SUBSET W) \ {{}}
    PROVE  LET d == AddInput(c, text)
           IN  /\ d \in Chains(W) /\ Said(c) \subseteq Said(d) /\ Groups(d) = Groups(c)
               /\ Uncalled(c) => Uncalled(d)
<1> DEFINE n == Len(c)
           line == [c[n] EXCEPT !.text = @ \cup text]
           d == [c EXCEPT ![n] = line]
           p == User(text)
           y == AddInput(c, text)
<1>1. n \in Nat /\ DOMAIN c = 1..n /\ c \in Seq(Lines(W)) /\ \A i \in 1..n : c[i] \in Lines(W)
  BY ChainFacts
<1>2. y \in Chains(W)
  BY InputFacts
<1>3. c # <<>> => n \in 1..n
  BY <1>1, EmptySeq
<1>4. CASE c # <<>> /\ c[n].role = "user"
  <2>1. y = d
    BY <1>1, <1>3, <1>4 DEF AddInput, Last
  <2>2. n \in 1..n /\ c[n] \in Lines(W)
    BY <1>1, <1>3, <1>4
  <2>3. /\ line.role = c[n].role /\ line.calls = c[n].calls /\ c[n].text \subseteq line.text
    BY <2>2 DEF Lines
  <2>4. line \in Lines(W)
    <3>1. c[n].text \cup text \in SUBSET W /\ c[n].text \cup text # {}
      BY <2>2, ChangedFacts
    <3>2. line = [c[n] EXCEPT !.text = c[n].text \cup text]
      OBVIOUS
    <3> HIDE DEF line, n
    <3> QED BY <1>4, <2>2, <3>1, <3>2, ChangedFacts
  <2> HIDE DEF line, y
  <2>5. Len(d) = Len(c) /\ \A j \in 1..n : d[j] = IF j = n THEN line ELSE c[j]
    BY <1>1, <2>2, <2>4, ExceptSeq
  <2> HIDE DEF d
  <2>6. d \in Chains(W)
    BY <1>2, <2>1
  <2>7. \A k \in 1..Len(c) : d[k].calls = c[k].calls /\ d[k].role = c[k].role /\ c[k].text \subseteq d[k].text
    BY <2>3, <2>5
  <2>8. Said(c) \subseteq Said(d)
    <3>1. \A k \in 1..Len(c) : c[k].role = "user" =>
             \E i \in 1..Len(d) : d[i].role = "user" /\ c[k].text \subseteq d[i].text
      BY <2>5, <2>7
    <3> QED BY <2>6, <3>1, SaidMoved
  <2>9. Groups(d) = Groups(c)
    BY <2>5, <2>6, <2>7, GroupsSame
  <2>10. Uncalled(c) => Uncalled(d)
    BY <2>5, <2>7 DEF Uncalled
  <2> QED BY <2>1, <2>6, <2>8, <2>9, <2>10 DEF y
<1>5. CASE ~(c # <<>> /\ c[n].role = "user")
  <2>1. y = Append(c, p)
    BY <1>5 DEF AddInput, Last
  <2>2. p \in Lines(W) /\ p.calls = {} /\ ~HasCalls(p)
    BY MadeFacts DEF User, Payload, HasCalls
  <2> HIDE DEF p, y
  <2>3. Said(y) = Said(c) \cup (IF p.role = "user" THEN p.text ELSE {})
    BY <2>1, <2>2, SaidAppend
  <2>4. Groups(y) = Groups(c)
    BY <2>1, <2>2, GroupsAppend
  <2>5. Uncalled(c) => Uncalled(y)
    <3>1. Len(y) = Len(c) + 1 /\ y[Len(c) + 1] = p /\ \A k \in 1..Len(c) : y[k] = c[k]
      BY <2>1, <2>2, AppendGroups
    <3> QED BY <1>1, <2>2, <3>1 DEF Uncalled
  <2> QED BY <1>2, <2>3, <2>4, <2>5 DEF y
<1> QED BY <1>4, <1>5

\* Who says something of w says nothing of m, also when it is told again.
LEMMA BareRecalls ==
    ASSUME NEW c, NEW d, NEW w, NEW m, Recalls(c, d, w \cup m), Bare(c, w, m)
    PROVE  Bare(d, w, m)
<1> SUFFICES ASSUME NEW k \in 1..Len(d), d[k].role = "user", d[k].text \cap w # {}
             PROVE  d[k].text \cap m = {}
  BY DEF Bare
<1>1. Voice(d[k], w \cup m) = d[k].text \cap (w \cup m)
  BY DEF Voice
<1>2. PICK i \in 1..Len(c) : Voice(c[i], w \cup m) = Voice(d[k], w \cup m)
  <2>1. Voice(d[k], w \cup m) # {}
    BY <1>1
  <2> QED BY <2>1 DEF Recalls
<1>3. c[i].role = "user" /\ Voice(c[i], w \cup m) = c[i].text \cap (w \cup m)
  BY <1>1, <1>2 DEF Voice
<1>4. c[i].text \cap (w \cup m) = d[k].text \cap (w \cup m)
  BY <1>1, <1>2, <1>3
<1>5. c[i].text \cap w # {}
  BY <1>4
<1>6. c[i].text \cap m = {}
  BY <1>3, <1>5 DEF Bare
<1> QED BY <1>4, <1>6

\* One turn more.
LEMMA AppendPrefix ==
    ASSUME NEW S, NEW s \in Seq(S), NEW x \in S
    PROVE  Append(s, x) \in Seq(S) /\ IsPrefix(s, Append(s, x))
<1>1. Append(s, x) = s \o <<x>> /\ Append(s, x) \in Seq(S)
  BY AppendIsConcat, AppendProperties
<1>2. <<x>> \in Seq(S)
  OBVIOUS
<1>3. IsPrefix(s, s \o <<x>>)
  BY <1>2, PrefixFacts
<1> QED BY <1>1, <1>3

\* The turns of a chain are a list, so all but the last stay when nothing is done.
LEMMA StaysSelf ==
    ASSUME NEW W, NEW c \in Chains(W)
    PROVE  Turns(c) \in Seq(Closed) /\ Stays(c, c)
<1> DEFINE k == Conversation(c)
           g == [i \in DOMAIN k |-> [calls |-> k[i].calls, answered |-> k[i].calls \cap Answered(k, i)]]
           I == {i \in DOMAIN g : HasCalls(g[i])}
           t == Turns(c)
<1>1. k \in Seq(Lines(W))
  BY ConversationPlaced
<1>2. t = Only(g, I)
  BY DEF Turns, Those
<1> HIDE DEF k
<1>3. Len(k) \in Nat /\ DOMAIN k = 1..Len(k) /\ \A i \in 1..Len(k) : k[i] \in Lines(W)
  BY <1>1, LenProperties, ElementOfSeq
<1>4. g \in [1..Len(k) -> Closed]
  <2>1. \A i \in 1..Len(k) : k[i].calls \in SUBSET CallIds
    BY <1>3 DEF Lines
  <2> QED BY <1>3, <2>1 DEF Closed
<1>5. g \in Seq(Closed) /\ I \in SUBSET (1..Len(g))
  <2>1. DOMAIN g = 1..Len(k)
    BY <1>3
  <2> HIDE DEF g
  <2>2. g \in Seq(Closed)
    BY <1>3, <1>4
  <2>3. DOMAIN g = 1..Len(g)
    BY <2>2, LenProperties
  <2> QED BY <2>2, <2>3
<1> HIDE DEF g, I, t
<1>6. t \in Seq(Closed)
  BY <1>2, <1>5, OnlyFacts
<1>7. t # <<>> => IsPrefix(Front(t), t)
  <2>1. IsPrefix(t, t)
    BY <1>6, PrefixFacts
  <2> QED BY <1>6, <2>1, FrontFacts
<1> QED BY <1>6, <1>7 DEF Stays, t

\* Only a note is said by who says it in a request.
LEMMA SentBare ==
    ASSUME NEW W, Words \subseteq W, note \in SUBSET W, NEW c \in Chains(W), PartsOK,
           Bare(c, note, Mail),
           restored \/ \E V \in SUBSET W : /\ Words \subseteq V /\ V \cap note = {}
                                           /\ session.snap \in Chains(V)
    PROVE  Bare(Sent(c), note, Mail)
<1> DEFINE v == View(c)
           x == WithHistory(v)
           h == Restore(session.snap)
<1>1. "bridge" \notin note \cup Mail /\ "bridge" \notin {} /\ note \cap Mail = {}
  BY BridgeFacts, MailFacts
<1>2. v \in Chains(W) /\ Bare(v, note, Mail)
  <2>1. CASE note = {}
    BY <2>1 DEF View
  <2>2. CASE note # {}
    <3> DEFINE u == User(note)
    <3>1. v = Append(c, u)
      BY <2>2 DEF View
    <3>2. u \in Lines(W)
      <4>1. note \in (SUBSET W) \ {{}}
        BY <2>2
      <4> QED BY <4>1, MadeFacts
    <3>3. u.text = note
      BY DEF User, Payload
    <3> HIDE DEF u, v
    <3>4. v \in Chains(W) /\ Len(v) = Len(c) + 1 /\ Len(c) \in Nat
          /\ v[Len(c) + 1] = u /\ \A k \in 1..Len(c) : v[k] = c[k]
      BY <3>1, <3>2, OneMore
    <3>5. ASSUME NEW k \in 1..Len(v), v[k].role = "user", v[k].text \cap note # {}
          PROVE  v[k].text \cap Mail = {}
      <4>1. CASE k = Len(c) + 1
        BY <1>1, <3>3, <3>4, <4>1
      <4>2. CASE k # Len(c) + 1
        <5>1. k \in 1..Len(c)
          BY <3>4, <4>2
        <5> QED BY <3>4, <3>5, <5>1 DEF Bare
      <4> QED BY <4>1, <4>2
    <3> QED BY <3>4, <3>5 DEF Bare
  <2> QED BY <2>1, <2>2
<1>3. Sent(c) = Repair(x)
  BY DEF Sent
<1>4. restored => x = v
  BY DEF WithHistory
<1>5. ~restored => x = Inject(v, h)
  BY DEF WithHistory
<1> HIDE DEF v, x, h
<1>6. x \in Chains(W) /\ Bare(x, note, Mail)
  <2>1. CASE restored
    BY <1>2, <1>4, <2>1
  <2>2. CASE ~restored
    <3>1. PICK V \in SUBSET W : Words \subseteq V /\ V \cap note = {} /\ session.snap \in Chains(V)
      BY <2>2
    <3>2. h \in Chains(V)
      BY <3>1, RestoreFacts DEF h
    <3>3. h \in Chains(W)
      BY <3>2, LinesGrow
    <3>4. x \in Chains(W) /\ \E n \in 0..Len(v) : PutIn(x, v, h, n)
      BY <1>2, <1>5, <2>2, <3>3, InjectAt
    <3>5. PICK n \in 0..Len(v) : PutIn(x, v, h, n)
      BY <3>4
    <3>6. /\ Len(v) \in Nat /\ Len(h) \in Nat /\ \A k \in 1..Len(h) : h[k] \in Lines(V)
      BY <1>2, <3>2, <3>3, ChainFacts
    <3>7. ASSUME NEW k \in 1..Len(x), x[k].role = "user", x[k].text \cap note # {}
          PROVE  x[k].text \cap Mail = {}
      <4>1. \/ \E i \in 1..Len(v) : x[k] = v[i]
            \/ \E i \in 1..Len(h) : x[k] = h[i]
        <5>1. CASE k \in 1..n
          BY <3>5, <3>6, <5>1 DEF PutIn
        <5>2. CASE k \in (n + 1)..(n + Len(h))
          <6>1. k - n \in 1..Len(h) /\ n + (k - n) = k
            BY <3>6, <5>2
          <6>2. x[n + (k - n)] = h[k - n]
            BY <3>5, <6>1 DEF PutIn
          <6> QED BY <6>1, <6>2
        <5>3. CASE k \in (n + Len(h) + 1)..(Len(v) + Len(h))
          <6>1. k - Len(h) \in (n + 1)..Len(v) /\ Len(h) + (k - Len(h)) = k
            BY <3>6, <5>3
          <6>2. x[Len(h) + (k - Len(h))] = v[k - Len(h)]
            BY <3>5, <6>1 DEF PutIn
          <6> QED BY <6>1, <6>2
        <5>4. Len(x) = Len(v) + Len(h)
          BY <3>5 DEF PutIn
        <5> QED BY <3>6, <5>1, <5>2, <5>3, <5>4
      <4>2. ~\E i \in 1..Len(h) : x[k] = h[i]
        <5>1. \A p \in Lines(V) : p.text \cap note = {}
          BY <3>1 DEF Lines
        <5> QED BY <3>6, <3>7, <5>1
      <4> QED BY <1>2, <3>7, <4>1, <4>2 DEF Bare
    <3> QED BY <3>4, <3>7 DEF Bare
  <2> QED BY <2>1, <2>2
<1>7. Recalls(x, Repair(x), note \cup Mail)
  BY <1>1, <1>6, RepairEcho DEF Echoes
<1>8. Bare(Repair(x), note, Mail)
  BY <1>6, <1>7, BareRecalls
<1> QED BY <1>3, <1>8

-----------------------------------------------------------------------------
(* What was said and settled stays                                         *)

\* A chain that has what was said in the loop's chain and its turns, and a note apart.
Carries(c) == Told(chain) \subseteq Told(c) /\ IsPrefix(Groups(chain), Groups(c)) /\ Bare(c, note, Mail)

\* The inductive invariant of HistoryStable: what the next turn, the end of a round or
\* the answer to a request makes a chain of has the settled turns of the chain before.
HoldInv ==
    /\ pc = "ready" => Held(All, chain)
    /\ pc = "commit" =>
         \E q \in Chains(All), done \in SUBSET CallIds : \E left \in SUBSET done :
            Settled(q) /\ chain = Round(q, left, done)
    /\ pc = "flight" => Carries(request)
    /\ pc = "sending" /\ loop.tries > 0 => Carries(local)
    /\ ~restored => Uncalled(chain) /\ pc \in {"idle", "ready", "sending"}

\* A step of an execute() that goes on.
Lasting ==
    pc # "idle" /\ pc' # "idle" => Told(chain) \subseteq Told(chain') /\ Stays(chain, chain')

\* Nobody calls in one chain after the other when nobody does in either.
LEMMA UncalledJoin ==
    ASSUME NEW W, NEW c \in Chains(W), NEW d \in Chains(W), Uncalled(c), Uncalled(d)
    PROVE  Uncalled(c \o d)
<1> DEFINE r == c \o d
<1>1. /\ Len(r) = Len(c) + Len(d) /\ Len(d) \in Nat
      /\ \A i \in 1..(Len(c) + Len(d)) : r[i] = IF i <= Len(c) THEN c[i] ELSE d[i - Len(c)]
  BY JoinFacts
<1>2. Len(c) \in Nat
  BY ChainFacts
<1> HIDE DEF r
<1>3. ASSUME NEW k \in 1..Len(r) PROVE r[k].calls = {}
  <2>1. CASE k <= Len(c)
    <3>1. k \in 1..Len(c) /\ r[k] = c[k]
      BY <1>1, <1>2, <2>1
    <3> QED BY <3>1 DEF Uncalled
  <2>2. CASE ~(k <= Len(c))
    <3>1. k - Len(c) \in 1..Len(d) /\ r[k] = d[k - Len(c)]
      BY <1>1, <1>2, <2>2
    <3> QED BY <3>1 DEF Uncalled
  <2> QED BY <2>1, <2>2
<1>4. Uncalled(r)
  BY <1>3 DEF Uncalled
<1> QED BY <1>4 DEF r

\* In a fresh process there is nothing yet,
LEMMA InitHolds == Init => HoldInv
<1> SUFFICES ASSUME Init PROVE HoldInv
  OBVIOUS
<1>1. pc = "idle" /\ chain = <<>> /\ restored = FALSE
  BY DEF Init
<1>2. Uncalled(chain)
  BY <1>1 DEF Uncalled
<1> QED BY <1>1, <1>2 DEF HoldInv

\* nor when execute() is over;
LEMMA EndHolds ==
    ASSUME End
    PROVE  HoldInv' /\ Lasting
<1>1. pc' = "idle" /\ chain' = <<>>
  BY DEF End
<1>2. Uncalled(chain')
  BY <1>1 DEF Uncalled
<1> QED BY <1>1, <1>2 DEF HoldInv, Lasting

\* it starts with what nobody called in.
LEMMA StartHolds ==
    ASSUME IInv, Start
    PROVE  HoldInv' /\ Lasting
<1>1. PartsOK /\ Words \subseteq Talks /\ Talks \subseteq All /\ session.saved \in Entries(Talks)
  <2>1. PartsOK /\ session.saved \in Entries(Talks)
    BY DEF IInv, SessionOK
  <2>2. Talks \subseteq Asks /\ Asks \subseteq Kept /\ Kept \subseteq All /\ Words \subseteq Talks
    BY <2>1, SpeechFacts
  <2> QED BY <2>1, <2>2
<1>2. pc = "idle" /\ pc' = "ready" /\ chain' = <<System, Tools>> \o InitialHistory
  BY DEF Start
<1> DEFINE s == SavedPayloads(session.saved)
           now == <<User({"now"})>>
           a == <<System, Tools>>
           h == InitialHistory
<1>3. s \in Chains(Talks) /\ Uncalled(s)
  <2>1. s \in Chains(Talks)
    BY <1>1, SavedFacts
  <2>2. \A i \in DOMAIN s : s[i].calls = {}
    BY DEF SavedPayloads, User, Assistant, Payload
  <2> HIDE DEF s
  <2>3. DOMAIN s = 1..Len(s)
    BY <2>1, ChainFacts
  <2> QED BY <2>1, <2>2, <2>3 DEF Uncalled
<1>4. now \in Chains(Talks) /\ a \in Chains(Talks) /\ <<>> \in Chains(Talks)
  <2>1. {"now"} \in (SUBSET Talks) \ {{}}
    BY <1>1 DEF Words
  <2>2. User({"now"}) \in Lines(Talks) /\ System \in Lines(Talks) /\ Tools \in Lines(Talks)
    BY <2>1, MadeFacts
  <2> QED BY <2>2 DEF Chains
<1>5. Uncalled(now) /\ Uncalled(a) /\ Uncalled(<<>>)
  BY DEF Uncalled, User, System, Tools, Payload
<1>6. h = <<>> \/ h = now \o s
  BY DEF InitialHistory
<1> HIDE DEF s, now, a, h
<1>7. h \in Chains(Talks) /\ Uncalled(h)
  <2>1. now \o s \in Chains(Talks) /\ Uncalled(now \o s)
    BY <1>3, <1>4, <1>5, PartFacts, UncalledJoin
  <2> QED BY <1>4, <1>5, <1>6, <2>1
<1>8. a \o h \in Chains(Talks) /\ Uncalled(a \o h)
  BY <1>4, <1>5, <1>7, PartFacts, UncalledJoin
<1>9. chain' \in Chains(All) /\ Uncalled(chain')
  <2>1. chain' = a \o h
    BY <1>2 DEF a, h
  <2> QED BY <1>1, <1>8, <2>1, LinesGrow
<1>10. Held(All, chain')
  BY <1>9, HeldFacts
<1> QED BY <1>2, <1>9, <1>10 DEF HoldInv, Lasting

\* What a turn makes of the chain.
LEMMA TurnKeeps ==
    ASSUME pc' = "sending", ~(loop'.tries > 0), restored' = restored, ~restored => Uncalled(chain'),
           Said(chain) \subseteq Said(chain'), Stays(chain, chain')
    PROVE  HoldInv' /\ Lasting
BY DEF HoldInv, Lasting, Told

\* A turn begins with all there was.
LEMMA TurnHolds ==
    ASSUME IInv, SInv, HoldInv, NewMessage \/ Followup
    PROVE  HoldInv' /\ Lasting
<1> DEFINE p == Prepare(chain)
<1>1. PartsOK /\ Words \subseteq All /\ chain \in Chains(All)
  BY AllFacts
<1>2. pc = "ready" /\ pc' = "sending" /\ restored' = restored
  BY DEF NewMessage, Followup
<1>3. ~(loop'.tries > 0)
  <2>1. loop \in Loops /\ ~(loop.tries > 0)
    BY <1>1, <1>2 DEF PartsOK, SInv, FlagsOK
  <2> QED BY <2>1 DEF NewMessage, Followup, Loops
<1>4. Held(All, chain) /\ (~restored => Uncalled(chain))
  BY <1>2 DEF HoldInv
<1>5. /\ p \in Chains(All) /\ Settled(p) /\ Said(chain) \subseteq Said(p) /\ Stays(chain, p)
      /\ \A e \in Chains(All) : Settled(e) /\ Groups(e) = Groups(p) => Stays(chain, e)
  BY <1>1, <1>4, HeldPrepared
<1>6. Uncalled(chain) => Uncalled(p)
  BY <1>1, PrepareKeeps
<1>7. Fronted(p)
  <2>1. InOrder(chain, p)
    BY <1>1, PrepareOrder
  <2> QED BY <2>1 DEF SInv, InOrder
<1> HIDE DEF p
<1>8. CASE Followup
  <2>1. chain' = p
    BY <1>8 DEF Followup, p
  <2> QED BY <1>2, <1>3, <1>4, <1>5, <1>6, <2>1, TurnKeeps
<1>9. CASE NewMessage
  <2> DEFINE text == {Messages[used.messages + 1]}
             c    == AddInput(p, text)
  <2>1. text \in (SUBSET All) \ {{}}
    <3>1. used.messages \in 0..Len(Messages) /\ used.messages < Len(Messages)
      BY <1>1, <1>9, CountFacts DEF NewMessage
    <3>2. used.messages + 1 \in 1..Len(Messages)
      BY <3>1, NamesFacts
    <3> QED BY <3>2, NamesFacts DEF All
  <2>2. chain' = Prepare(c)
    BY <1>9 DEF NewMessage, p
  <2> HIDE DEF text
  <2>3. c \in Chains(All) /\ Settled(c)
    BY <1>5, <1>7, <2>1, InputReady DEF Ready
  <2>4. Said(p) \subseteq Said(c) /\ Groups(c) = Groups(p) /\ (Uncalled(p) => Uncalled(c))
    BY <1>5, <2>1, InputKeeps
  <2> HIDE DEF c
  <2>5. chain' = c
    BY <1>1, <2>2, <2>3, SettledPrepared
  <2>6. Stays(chain, c)
    BY <1>5, <2>3, <2>4
  <2> QED BY <1>2, <1>3, <1>4, <1>5, <1>6, <2>4, <2>5, <2>6, TurnKeeps
<1> QED BY <1>8, <1>9

\* So does the end of a wait.
LEMMA TimeoutHolds ==
    ASSUME IInv, SInv, HoldInv, Timeout
    PROVE  HoldInv' /\ Lasting
<1> DEFINE p == Prepare(chain)
           d == WithSuspend(p)
<1>1. PartsOK /\ Words \subseteq All /\ chain \in Chains(All)
  BY AllFacts
<1>2. pc = "ready" /\ pc' = "sending" /\ loop.waiting /\ restored' = restored
  BY DEF Timeout
<1>3. ~(loop'.tries > 0)
  <2>1. loop \in Loops /\ ~(loop.tries > 0)
    BY <1>1, <1>2 DEF PartsOK, SInv, FlagsOK
  <2> QED BY <2>1 DEF Timeout, Loops
<1>4. Held(All, chain) /\ (~restored => Uncalled(chain))
  BY <1>2 DEF HoldInv
<1>5. /\ p \in Chains(All) /\ Settled(p) /\ Said(chain) \subseteq Said(p)
      /\ \A e \in Chains(All) : Settled(e) /\ Groups(e) = Groups(p) => Stays(chain, e)
  BY <1>1, <1>4, HeldPrepared
<1>6. Uncalled(chain) => Uncalled(p)
  BY <1>1, PrepareKeeps
<1>7. Fronted(p) /\ HasUser(p)
  <2>1. InOrder(chain, p)
    BY <1>1, PrepareOrder
  <2> QED BY <1>2, <2>1 DEF SInv, InOrder, Decided
<1>8. chain' = Prepare(d)
  BY DEF Timeout
<1> HIDE DEF p
<1>9. d \in Chains(All) /\ Settled(d)
  BY <1>1, <1>5, <1>7, SuspendReady
<1>10. Said(d) = Said(p) /\ Groups(d) = Groups(p) /\ (Uncalled(p) => Uncalled(d))
  BY <1>1, <1>5, SuspendHeld
<1> HIDE DEF d
<1>11. chain' = d
  BY <1>1, <1>8, <1>9, SettledPrepared
<1>12. Stays(chain, d)
  BY <1>5, <1>9, <1>10
<1> QED BY <1>2, <1>3, <1>4, <1>5, <1>6, <1>10, <1>11, <1>12, TurnKeeps

\* A request has all there was in the chain it is made of.
LEMMA AttemptHolds ==
    ASSUME IInv, SInv, TellInv, HoldInv, Attempt
    PROVE  HoldInv' /\ Lasting
<1>1. /\ PartsOK /\ Words \subseteq Asks /\ note \in SUBSET Asks /\ Talks \subseteq Asks
      /\ Talks = Asks \ note /\ Asks \subseteq All
      /\ chain \in Chains(Talks) /\ chain \in Chains(All) /\ loop \in Loops
  <2>1. PartsOK /\ chain \in Chains(Talks) /\ loop \in Loops
    BY DEF IInv, PartsOK, ChainOK
  <2>2. chain \in Chains(All)
    BY AllFacts
  <2> QED BY <2>1, <2>2, SpeechFacts
<1>2. pc = "sending" /\ pc' = "flight" /\ note' = note /\ restored' = TRUE
  BY DEF Attempt
<1>3. PICK c \in Chains(Asks) :
         /\ c = IF loop.tries = 0 THEN chain ELSE local
         /\ Settled(c)
         /\ restored \/ \E V \in SUBSET Asks : /\ Words \subseteq V /\ V \cap note = {}
                                             /\ session.snap \in Chains(V)
         /\ chain' = chain /\ request' = Sent(c)
  BY AttemptFacts
<1> DEFINE h == IF restored THEN <<>> ELSE Restore(session.snap)
<1>4. /\ h \in Chains(Asks)
      /\ Said(request') = (Said(c) \cup note) \cup Said(h)
      /\ Groups(request') = Groups(h) \o Groups(c)
  BY <1>1, <1>3, SentKeeps
<1>5. restored => h = <<>>
  OBVIOUS
<1> HIDE DEF h
<1>6. Groups(h) \in Seq(Closed) /\ Groups(c) \in Seq(Closed) /\ Groups(<<>>) = <<>>
      /\ Groups(chain) \in Seq(Closed)
  <2>1. System \in Lines(All) /\ System \in Lines(Asks)
    BY MadeFacts
  <2> QED BY <1>1, <1>3, <1>4, <2>1, GroupsAppend
<1>7. Carries(c) /\ (~restored => c = chain)
  <2>1. CASE loop.tries = 0
    <3>1. c = chain
      BY <1>3, <2>1
    <3>2. Bare(chain, note, Mail)
      <4>1. ASSUME NEW k \in 1..Len(chain) PROVE chain[k].text \cap note = {}
        <5>1. chain[k] \in Lines(Talks)
          BY <1>1, ChainFacts
        <5>2. chain[k].text \in SUBSET Talks
          BY <5>1, ChangedFacts
        <5> QED BY <1>1, <5>2
      <4> QED BY <4>1 DEF Bare
    <3>3. IsPrefix(Groups(chain), Groups(chain))
      BY <1>6, PrefixFacts
    <3> QED BY <3>1, <3>2, <3>3 DEF Carries
  <2>2. CASE loop.tries > 0
    <3>1. c = local /\ restored
      BY <1>2, <1>3, <2>2 DEF TellInv, ChainTells
    <3> QED BY <1>2, <2>2, <3>1 DEF HoldInv
  <2> QED BY <1>1, <2>1, <2>2, RequestsAssumption DEF Loops
<1>8. IsPrefix(Groups(chain), Groups(request'))
  <2>1. CASE restored
    <3>1. <<>> \o Groups(c) = Groups(c)
      BY <1>6, ConcatEmptySeq
    <3>2. Groups(request') = Groups(c)
      BY <1>4, <1>5, <1>6, <2>1, <3>1
    <3> QED BY <1>7, <3>2 DEF Carries
  <2>2. CASE ~restored
    <3>1. Groups(chain) = <<>>
      BY <1>1, <2>2, UncalledGroups DEF HoldInv
    <3>2. Groups(request') \in Seq(Closed)
      BY <1>4, <1>6, ConcatProperties
    <3> QED BY <3>1, <3>2, PrefixFacts
  <2> QED BY <2>1, <2>2
<1>9. Told(chain) \subseteq Told(request')
  BY <1>4, <1>7 DEF Carries, Told
<1>10. Bare(request', note, Mail)
  BY <1>1, <1>3, <1>7, SentBare DEF Carries
<1>11. Carries(request)'
  BY <1>2, <1>3, <1>8, <1>9, <1>10 DEF Carries, Told, Mail
<1>12. Stays(chain, chain')
  BY <1>1, <1>3, StaysSelf
<1>13. HoldInv'
  BY <1>2, <1>11 DEF HoldInv
<1> QED BY <1>3, <1>12, <1>13 DEF Lasting

\* A text that is sent back adds to it.
LEMMA TextHolds ==
    ASSUME IInv, Captured, HoldInv, AnswerText
    PROVE  HoldInv' /\ Lasting
<1>1. PartsOK /\ Words \subseteq All /\ request \in Chains(All) /\ chain \in Chains(All)
  BY AllFacts
<1>2. /\ pc = "flight" /\ pc' = "sending" /\ note' = note /\ chain' = chain /\ restored' = restored
      /\ local' = WithDraft(Append(request, Assistant({"said"}, {})))
  BY DEF AnswerText
<1>3. restored
  BY <1>2 DEF Captured
<1>4. "followup" \notin note \cup Mail /\ "followup" \notin {}
  BY <1>1, BridgeFacts
<1>5. Recalls(request, local', note \cup Mail)
  BY <1>1, <1>2, <1>4, DraftEcho
<1>6. Groups(local') = Groups(request) /\ Said(local') = Said(request) \cup {"followup"}
  BY <1>1, <1>2, DraftKeeps
<1>7. Carries(request)
  BY <1>2 DEF HoldInv
<1>8. Bare(local', note, Mail)
  BY <1>5, <1>7, BareRecalls DEF Carries
<1>9. Carries(local)'
  BY <1>2, <1>6, <1>7, <1>8 DEF Carries, Told, Mail
<1>10. Stays(chain, chain')
  BY <1>1, <1>2, StaysSelf
<1>11. HoldInv'
  BY <1>2, <1>3, <1>9 DEF HoldInv
<1> QED BY <1>2, <1>10, <1>11 DEF Lasting

\* A request that fails leaves the chain, or was made of it.
LEMMA FailHolds ==
    ASSUME IInv, SInv, Captured, HoldInv, Fail
    PROVE  HoldInv' /\ Lasting
<1>1. PartsOK /\ request \in Chains(All) /\ chain \in Chains(All)
  BY AllFacts
<1>2. /\ pc = "flight" /\ pc' \in {"sending", "ready"} /\ restored' = restored
      /\ chain' = chain \/ chain' = request
  BY DEF Fail
<1>3. restored /\ ~(loop'.tries > 0)
  BY <1>1, <1>2 DEF Captured, Fail, PartsOK, Loops
<1>4. Settled(chain) /\ Settled(request) /\ Carries(request)
  BY <1>2 DEF SInv, Reading, Sending, Ready, HoldInv
<1>5. chain' \in Chains(All) /\ Settled(chain')
  BY <1>1, <1>2, <1>4
<1>6. Held(All, chain')
  BY <1>5, HeldFacts
<1>7. HoldInv'
  BY <1>2, <1>3, <1>6 DEF HoldInv
<1>8. Told(chain) \subseteq Told(chain') /\ Stays(chain, chain')
  <2>1. CASE chain' = chain
    BY <1>1, <2>1, StaysSelf
  <2>2. CASE chain' = request
    <3>1. Turns(chain) = Groups(chain) /\ Turns(request) = Groups(request)
      BY <1>1, <1>4, SettledTurns
    <3>2. Groups(chain) \in Seq(Closed) /\ Turns(request) \in Seq(Closed)
      BY <1>1, <3>1, StaysSelf
    <3>3. IsPrefix(Groups(chain), Turns(request))
      BY <1>4, <3>1 DEF Carries
    <3>4. Stays(chain, request)
      BY <3>1, <3>2, <3>3, StaysFacts
    <3> QED BY <1>4, <2>2, <3>4 DEF Carries
  <2> QED BY <1>2, <2>1, <2>2
<1> QED BY <1>7, <1>8 DEF Lasting

\* The answer comes after all there was in the request.
LEMMA AnswerHolds ==
    ASSUME IInv, SInv, Captured, HoldInv,
           AnswerTextLast \/ \E ids \in (SUBSET CallIds) \ {{}} : AnswerCalls(ids)
    PROVE  HoldInv' /\ Lasting
<1>1. PartsOK /\ Words \subseteq All /\ request \in Chains(All) /\ chain \in Chains(All)
  BY AllFacts
<1>2. pc = "flight" /\ pc' \in {"execute", "commit"} /\ restored' = restored
  BY DEF AnswerTextLast, AnswerCalls, Answer
<1>3. restored
  BY <1>2 DEF Captured
<1>4. Ready(request, note) /\ note \cap Words = {} /\ Settled(chain) /\ Carries(request)
  BY <1>1, <1>2, RequestsAssumption DEF SInv, Sending, Reading, PartsOK, HoldInv
<1>5. Bare(request, note, Mail) /\ IsPrefix(Groups(chain), Groups(request))
      /\ Told(chain) \subseteq Said(request) \cap Mail
  BY <1>4 DEF Carries, Told, Mail
<1>6. Turns(chain) = Groups(chain)
  BY <1>1, <1>4, SettledTurns
<1>7. Groups(chain) \in Seq(Closed) /\ Groups(request) \in Seq(Closed)
  <2>1. System \in Lines(All)
    BY MadeFacts
  <2> QED BY <1>1, <2>1, GroupsAppend
<1>8. CASE \E ids \in (SUBSET CallIds) \ {{}} : AnswerCalls(ids)
  <2>1. PICK ids \in (SUBSET CallIds) \ {{}} : AnswerCalls(ids)
    BY <1>8
  <2>2. pc' = "execute" /\ chain' = Continued(request, {}, ids) /\ ids \in SUBSET CallIds /\ ids # {}
    BY <2>1 DEF AnswerCalls, Answer
  <2> DEFINE p == Assistant({}, ids)
  <2>3. PICK y \in Chains(All) : /\ Ready(y, {}) /\ Continued(request, {}, ids) = Append(y, p)
                                 /\ Said(request) \cap Mail \subseteq Said(y)
                                 /\ Groups(y) = Groups(request)
    BY <1>1, <1>4, <1>5, <2>2, ContinuedCallsKeep
  <2>4. p \in Lines(All) /\ p.role = "assistant" /\ HasCalls(p)
    <3>1. p \in Lines(All)
      BY <2>2, MadeFacts
    <3>2. p.role = "assistant" /\ p.calls = ids
      BY DEF Assistant, Payload
    <3> HIDE DEF p
    <3> QED BY <2>2, <3>1, <3>2 DEF HasCalls
  <2> HIDE DEF p
  <2>5. chain' = Append(y, p)
    BY <2>2, <2>3
  <2>6. Met(y, {}, 0)
    BY <2>3 DEF Ready, Settled
  <2>7. PICK x \in Closed : Turns(chain') = Append(Groups(y), x)
    BY <2>4, <2>5, <2>6, OpenTurns
  <2>8. Turns(chain') \in Seq(Closed) /\ IsPrefix(Groups(request), Turns(chain'))
    BY <1>7, <2>3, <2>7, AppendPrefix
  <2>9. IsPrefix(Groups(chain), Turns(chain'))
    BY <1>5, <1>7, <2>8, FrontFacts
  <2>10. Stays(chain, chain')
    BY <1>6, <1>7, <2>8, <2>9, StaysFacts
  <2>11. Told(chain) \subseteq Told(chain')
    <3>1. Said(chain') = Said(y)
      BY <2>4, <2>5, SaidAppend
    <3> QED BY <1>5, <2>3, <3>1 DEF Told, Mail
  <2>12. HoldInv'
    BY <1>2, <1>3, <2>2 DEF HoldInv
  <2> QED BY <2>10, <2>11, <2>12 DEF Lasting
<1>9. CASE AnswerTextLast
  <2>1. pc' = "commit" /\ chain' = Continued(request, {"said"}, {})
    BY <1>9 DEF AnswerTextLast, Answer
  <2>2. /\ chain' \in Chains(All) /\ Spoke(chain')
        /\ Said(request) \cap Mail \subseteq Said(chain') /\ Groups(chain') = Groups(request)
    BY <1>1, <1>4, <1>5, <2>1, ContinuedSaidKeeps
  <2>3. Settled(chain')
    BY <2>2 DEF Spoke
  <2>4. Turns(chain') = Groups(chain')
    BY <2>2, <2>3, SettledTurns
  <2>5. Stays(chain, chain')
    BY <1>5, <1>6, <1>7, <2>2, <2>4, StaysFacts
  <2>6. Told(chain) \subseteq Told(chain')
    BY <1>5, <2>2 DEF Told, Mail
  <2>7. \E q \in Chains(All), done \in SUBSET CallIds : \E left \in SUBSET done :
           Settled(q) /\ chain' = Round(q, left, done)
    <3>1. chain' = Round(chain', {}, {})
      BY DEF Round
    <3>2. {} \in SUBSET CallIds /\ {} \in SUBSET {}
      OBVIOUS
    <3> QED BY <2>2, <2>3, <3>1, <3>2
  <2>8. HoldInv'
    BY <1>2, <1>3, <2>1, <2>7 DEF HoldInv
  <2> QED BY <2>5, <2>6, <2>8 DEF Lasting
<1> QED BY <1>8, <1>9

\* A round ends with what there was before its calls.
LEMMA ExecuteHolds ==
    ASSUME IInv, SInv, HoldInv, Execute
    PROVE  HoldInv' /\ Lasting
<1>1. PartsOK /\ Words \subseteq All
  BY AllFacts
<1>2. pc = "execute" /\ pc' = "commit" /\ restored' = restored
  BY DEF Execute
<1>3. restored
  BY <1>2 DEF HoldInv
<1>4. PICK q \in Chains(All), ids \in SUBSET CallIds :
         ids # {} /\ Ready(q, {}) /\ chain = Append(q, Assistant({}, ids))
  BY <1>2 DEF SInv, Called
<1>5. PICK done \in SUBSET CallIds : \E left \in SUBSET done : chain' = Round(q, left, done)
  BY <1>4, ExecutedFacts
<1>6. PICK left \in SUBSET done : chain' = Round(q, left, done)
  BY <1>5
<1> DEFINE p == Assistant({}, ids)
<1>7. p \in Lines(All) /\ p.role = "assistant" /\ HasCalls(p)
  <2>1. p \in Lines(All)
    BY MadeFacts
  <2>2. p.role = "assistant" /\ p.calls = ids
    BY DEF Assistant, Payload
  <2> HIDE DEF p
  <2> QED BY <1>4, <2>1, <2>2 DEF HasCalls
<1>8. chain = Append(q, p)
  BY <1>4
<1> HIDE DEF p
<1>9. Settled(q) /\ Met(q, {}, 0)
  BY <1>4 DEF Ready, Settled
<1>10. PICK x \in Closed : Turns(chain) = Append(Groups(q), x)
  BY <1>7, <1>8, <1>9, OpenTurns
<1>11. /\ chain' \in Chains(All) /\ Said(chain') = Said(q) /\ Held(All, chain')
       /\ Groups(chain') = IF left = {} THEN Groups(q)
                           ELSE Append(Groups(q), Group(Assistant({}, left)))
  BY <1>1, <1>6, <1>9, RoundHeld
<1>12. Turns(chain') = Groups(chain')
  BY <1>11, MetTurns DEF Held
<1>13. /\ Groups(q) \in Seq(Closed) /\ Group(Assistant({}, left)) \in Closed
       /\ Groups(chain') \in Seq(Closed)
  <2>1. Assistant({}, left) \in Lines(All)
    BY MadeFacts
  <2> QED BY <1>11, <2>1, GroupsAppend
<1>14. IsPrefix(Groups(q), Groups(chain'))
  <2>1. CASE left = {}
    BY <1>11, <1>13, <2>1, PrefixFacts
  <2>2. CASE left # {}
    BY <1>11, <1>13, <2>2, AppendPrefix
  <2> QED BY <2>1, <2>2
<1>15. Stays(chain, chain')
  BY <1>10, <1>12, <1>13, <1>14, StaysFacts
<1>16. Told(chain) \subseteq Told(chain')
  <2>1. Said(chain) = Said(q)
    BY <1>7, <1>8, SaidAppend
  <2> QED BY <1>11, <2>1 DEF Told
<1>17. HoldInv'
  BY <1>2, <1>3, <1>6, <1>9 DEF HoldInv
<1> QED BY <1>15, <1>16, <1>17 DEF Lasting

\* An empty reply takes the calls of the last round only.
LEMMA EmptyHolds ==
    ASSUME IInv, SInv, HoldInv, EmptyReply
    PROVE  HoldInv' /\ Lasting
<1>1. PartsOK /\ Words \subseteq All /\ loop \in Loops
  BY AllFacts DEF PartsOK
<1>2. pc = "commit" /\ pc' = "sending" /\ restored' = restored /\ loop' = [loop EXCEPT !.asking = TRUE]
  BY DEF EmptyReply
<1>3. restored /\ ~(loop'.tries > 0)
  BY <1>1, <1>2 DEF HoldInv, SInv, FlagsOK, Loops
<1>4. PICK ids \in SUBSET TailCalls :
         chain' = Prepare(Append(Prepare(PurgeReply(chain, ids)), User({"retry"})))
  BY DEF EmptyReply
<1>5. ids \in SUBSET LastCalls(chain)
  BY <1>4 DEF TailCalls, LastCalls
<1>6. PICK q \in Chains(All), done \in SUBSET CallIds :
         \E left \in SUBSET done : Settled(q) /\ chain = Round(q, left, done)
  BY <1>2 DEF HoldInv
<1>7. PICK left \in SUBSET done : Settled(q) /\ chain = Round(q, left, done)
  BY <1>6
<1>8. {"retry"} \in (SUBSET All) \ {{}}
  BY <1>1 DEF Words
<1>9. Said(chain) \subseteq Said(chain') /\ Stays(chain, chain')
  BY <1>1, <1>4, <1>5, <1>7, <1>8, RoundPurged
<1>10. HoldInv'
  BY <1>2, <1>3 DEF HoldInv
<1> QED BY <1>9, <1>10 DEF Lasting, Told

\* After the decision the round is a turn more at most.
LEMMA CommitHolds ==
    ASSUME IInv, HoldInv, CommitTools \/ CommitWait
    PROVE  HoldInv' /\ Lasting
<1>1. Words \subseteq All /\ chain \in Chains(All)
  BY AllFacts
<1>2. pc = "commit" /\ pc' = "ready" /\ restored' = restored
      /\ (chain' = chain \/ chain' = WithSuspend(chain))
  BY DEF CommitTools, CommitWait
<1>3. restored
  BY <1>2 DEF HoldInv
<1>4. Held(All, chain)
  <2>1. PICK q \in Chains(All), done \in SUBSET CallIds :
           \E left \in SUBSET done : Settled(q) /\ chain = Round(q, left, done)
    BY <1>2 DEF HoldInv
  <2> QED BY <1>1, <2>1, RoundHeld
<1> DEFINE d == WithSuspend(chain)
<1>5. d \in Chains(All) /\ Said(d) = Said(chain) /\ Groups(d) = Groups(chain) /\ Held(All, d)
  BY <1>1, <1>4, SuspendHeld
<1> HIDE DEF d
<1>6. Stays(chain, d)
  <2>1. Turns(chain) = Groups(chain) /\ Turns(d) = Groups(chain)
    BY <1>1, <1>4, <1>5, MetTurns DEF Held
  <2>2. Groups(chain) \in Seq(Closed)
    BY <1>1, <2>1, StaysSelf
  <2>3. IsPrefix(Groups(chain), Turns(d))
    BY <2>1, <2>2, PrefixFacts
  <2> QED BY <2>1, <2>2, <2>3, StaysFacts
<1>7. Held(All, chain') /\ Said(chain') = Said(chain) /\ Stays(chain, chain')
  <2>1. CASE chain' = chain
    BY <1>1, <1>4, <2>1, StaysSelf
  <2>2. CASE chain' = WithSuspend(chain)
    <3>1. chain' = d
      BY <2>2 DEF d
    <3> QED BY <1>5, <1>6, <3>1
  <2> QED BY <1>2, <2>1, <2>2
<1>8. HoldInv'
  BY <1>2, <1>3, <1>7 DEF HoldInv
<1> QED BY <1>7, <1>8 DEF Lasting, Told

\* So it is with every step.
LEMMA NextHolds ==
    IInv /\ SInv /\ Captured /\ TellInv /\ HoldInv /\ [Next]_vars => HoldInv' /\ Lasting
<1> SUFFICES ASSUME IInv, SInv, Captured, TellInv, HoldInv, [Next]_vars PROVE HoldInv' /\ Lasting
  OBVIOUS
<1>1. CASE Start
  BY <1>1, StartHolds
<1>2. CASE NewMessage \/ Followup
  BY <1>2, TurnHolds
<1>3. CASE Timeout
  BY <1>3, TimeoutHolds
<1>4. CASE Attempt
  BY <1>4, AttemptHolds
<1>5. CASE Fail
  BY <1>5, FailHolds
<1>6. CASE AnswerText
  BY <1>6, TextHolds
<1>7. CASE AnswerTextLast \/ \E ids \in (SUBSET CallIds) \ {{}} : AnswerCalls(ids)
  BY <1>7, AnswerHolds
<1>8. CASE Execute
  BY <1>8, ExecuteHolds
<1>9. CASE EmptyReply
  BY <1>9, EmptyHolds
<1>10. CASE CommitTools \/ CommitWait
  BY <1>10, CommitHolds
<1>11. CASE CommitStop \/ GiveUp \/ Clear \/ Crash
  <2>1. End
    BY <1>11 DEF CommitStop, GiveUp, Clear, Crash
  <2> QED BY <2>1, EndHolds
<1>12. CASE UNCHANGED vars
  <2>1. chain \in Chains(All)
    BY AllFacts
  <2>2. chain' = chain
    BY <1>12 DEF vars
  <2>3. Stays(chain, chain')
    BY <2>1, <2>2, StaysSelf
  <2>4. Lasting
    BY <2>2, <2>3 DEF Lasting
  <2> QED BY <1>12, <2>4 DEF vars, HoldInv, Carries, Told
<1> QED BY <1>1, <1>2, <1>3, <1>4, <1>5, <1>6, <1>7, <1>8, <1>9, <1>10, <1>11, <1>12 DEF Next

\* As long as execute() runs, no repair, failure, retry or wait drops what the user
\* said or changes a settled turn.
THEOREM HistoryKept == Spec => HistoryStable
<1>1. Lasting => (pc # "idle" /\ pc' # "idle" =>
                    /\ Told(chain) \subseteq Told(chain')
                    /\ Turns(chain) # <<>> => IsPrefix(Front(Turns(chain)), Turns(chain')))
  BY DEF Lasting, Stays
<1> QED BY <1>1, InitInv, NextInv, InitReady, NextReady, InitCaptured, NextCaptured,
           InitTells, NextTells, InitHolds, NextHolds, PTL DEF Spec, HistoryStable

=============================================================================
