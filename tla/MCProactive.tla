----------------------------- MODULE MCProactive -----------------------------
(***************************************************************************)
(* A bound on the reasons for contact that meet, for checking Proactive    *)
(* with TLC: appointments, intents and silence meet each other and every   *)
(* failure; an item of the day's plan meets an intent or a silence.        *)
(***************************************************************************)
EXTENDS Proactive

HasCome(kind) == \E k \in Key : k[1] = kind /\ session.status[k] # "none"

PlanApart ==
    HasCome("agenda") =>
        /\ session.schedule = 0 /\ ~HasCome("schedule")
        /\ ~(HasCome("intent") /\ HasCome("silence"))
        /\ failures = 0
=============================================================================
