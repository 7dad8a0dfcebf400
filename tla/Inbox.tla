------------------------------- MODULE Inbox -------------------------------
(***************************************************************************)
(* What the conversation loop promises about the messages it is given: a   *)
(* message is queued once; a user's message leaves the queue only after    *)
(* the conversation chain that survives a restart holds it; and a message  *)
(* that has left the queue is never queued nor saved again.                *)
(***************************************************************************)
CONSTANTS Users, Triggers

VARIABLES queue, saved, consumed

inboxVars == <<queue, saved, consumed>>

Init == queue = {} /\ saved = {} /\ consumed = {}

Receive(m) ==
    /\ m \notin queue \cup consumed
    /\ queue' = queue \cup {m}
    /\ UNCHANGED <<saved, consumed>>

\* Triggers may be saved at any time: their text means nothing after a restart.
Save(batch) ==
    /\ batch \cap Users \subseteq queue
    /\ saved' = saved \cup batch
    /\ UNCHANGED <<queue, consumed>>

Consume(batch) ==
    /\ batch \subseteq queue
    /\ batch \cap Users \subseteq saved
    /\ queue' = queue \ batch
    /\ consumed' = consumed \cup batch
    /\ UNCHANGED saved

Next ==
    \/ \E m \in Users \cup Triggers : Receive(m)
    \/ \E batch \in SUBSET (Users \cup Triggers) : Save(batch) \/ Consume(batch)

Spec == Init /\ [][Next]_inboxVars
=============================================================================
