------------------------------ MODULE Archive ------------------------------
(***************************************************************************)
(* What the session store promises to those who use it: each stream has    *)
(* one session, a change is seen by everybody at once, and what is kept on *)
(* disk grows with the session, until a file that cannot be read is taken  *)
(* for a missing one.  A restart brings back what was kept.                *)
(***************************************************************************)
EXTENDS Integers, FiniteSets

CONSTANTS Streams, Changes

VARIABLES
    now,    \* for each stream, the changes its session holds
    kept,   \* for each stream, the changes in its file
    gone    \* the streams whose file was not read since the last restart

vars == <<now, kept, gone>>

Init ==
    /\ now = [s \in Streams |-> {}]
    /\ kept = [s \in Streams |-> {}]
    /\ gone = {}

Change(s, c) ==
    /\ now' = [now EXCEPT ![s] = @ \cup {c}]
    /\ UNCHANGED <<kept, gone>>

Keep(s) ==
    /\ \E image \in SUBSET now[s] :
         /\ s \in gone \/ kept[s] \subseteq image
         /\ kept' = [kept EXCEPT ![s] = image]
    /\ UNCHANGED <<now, gone>>

\* A blank session takes the place of the one in the file, with the change the
\* reader was about to make, if any.
Blank(s) ==
    /\ \E new \in {{}} \cup {{c} : c \in Changes} : now' = [now EXCEPT ![s] = new]
    /\ gone' = gone \cup {s}
    /\ UNCHANGED kept

Restart ==
    /\ now' = kept
    /\ gone' = {}
    /\ UNCHANGED kept

Next ==
    \/ \E s \in Streams : Keep(s) \/ Blank(s) \/ \E c \in Changes : Change(s, c)
    \/ Restart

Spec == Init /\ [][Next]_vars
=============================================================================
