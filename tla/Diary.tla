------------------------------- MODULE Diary -------------------------------
(***************************************************************************)
(* What the character's diary promises: an entry is over when its time is, *)
(* not before and not after, however often somebody looks at it or not,    *)
(* through midnight and through restarts.  There is one entry of what the  *)
(* character says it is doing, and a full diary loses its oldest entry.    *)
(***************************************************************************)
EXTENDS Integers, FiniteSets

CONSTANTS Ids

VARIABLES
    now,   \* the time
    open   \* the entries that are not over: their id, kind and end

vars == <<now, open>>

Kinds == {"planned", "commit"}

Init == now = 0 /\ open = {}

\* Time goes by.
Pass ==
    /\ now' = now + 1
    /\ open' = {e \in open : e.end > now'}

Oldest(entries) == {e \in entries : \A o \in entries : e.id <= o.id}

\* An entry is made; one whose end has passed is over at once.
Write ==
    /\ \E id \in Ids, kind \in Kinds :
         LET rest == {e \in open : ~(kind = "commit" /\ e.kind = "commit")}
         IN  /\ \A e \in open : e.id < id
             /\ \E lost \in {{}, Oldest(rest)}, new \in SUBSET {e \in open' : e.id = id} :
                  /\ open' = (rest \ lost) \cup new
                  /\ \A e \in new : e.kind = kind /\ e.end > now
    /\ UNCHANGED now

\* An entry is called off, confirmed by an observation or given up.
Close ==
    /\ \E e \in open : open' = open \ {e}
    /\ UNCHANGED now

Next == Pass \/ Write \/ Close

Spec == Init /\ [][Next]_vars
=============================================================================
