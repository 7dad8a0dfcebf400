------------------------------ MODULE Outreach ------------------------------
(***************************************************************************)
(* What the bot promises about contacting the user of its own accord.      *)
(* A reason to do so (an appointment, an intent, a plan, a silence) is     *)
(* opened once, and claimed by one attempt at a time; only a claimed       *)
(* reason is acted upon, once; an attempt that fails gives the reason back *)
(* without a trace; and a reason that is closed stays closed.              *)
(***************************************************************************)
CONSTANT Reason

VARIABLES
    life,  \* "new", "open", "claimed" or "closed"
    made   \* the reasons for which the user has been contacted

outreachVars == <<life, made>>

Init == life = [r \in Reason |-> "new"] /\ made = {}

Move(r, state) == [life EXCEPT ![r] = state]

\* New reasons are noted while old ones run out.
Tidy ==
    /\ life' \in [Reason -> {"new", "open", "claimed", "closed"}]
    /\ \A r \in Reason : life'[r] # life[r] =>
          \/ life[r] = "new" /\ life'[r] \in {"open", "closed"}
          \/ life[r] \in {"open", "claimed"} /\ life'[r] = "closed"
    /\ UNCHANGED made

Claim(r) ==
    /\ life[r] = "open"
    /\ \A q \in Reason : life[q] # "claimed"
    /\ life' = Move(r, "claimed")
    /\ UNCHANGED made

Contact(r) ==
    /\ life[r] = "claimed" /\ r \notin made
    /\ made' = made \cup {r}
    /\ UNCHANGED life

\* The contact could not be delivered and is taken back.
Withdraw(r) ==
    /\ life[r] \in {"claimed", "closed"}
    /\ made' = made \ {r}
    /\ UNCHANGED life

Release(r) ==
    /\ life[r] = "claimed" /\ r \notin made
    /\ life' = Move(r, "open")
    /\ UNCHANGED made

Next ==
    \/ Tidy
    \/ \E r \in Reason : Claim(r) \/ Contact(r) \/ Withdraw(r) \/ Release(r)

Spec == Init /\ [][Next]_outreachVars
=============================================================================
