----------------------------- MODULE MCTurnLoop -----------------------------
(***************************************************************************)
(* Model values and decisions for checking TurnLoop with TLC.              *)
(***************************************************************************)
EXTENDS TurnLoop

CONSTANTS m1, m2, m3, p1

TwoUsers == {m1, m2}
ThreeUsers == {m1, m2, m3}
OneTrigger == {p1}
NoTrigger == {}

Nothing ==
    [meaningful |-> FALSE, reply |-> FALSE, visible |-> FALSE, failed |-> FALSE,
     infra |-> FALSE, silence |-> FALSE, info |-> FALSE, third |-> FALSE,
     wait |-> FALSE]
Act == [Nothing EXCEPT !.meaningful = TRUE]
Says == [Act EXCEPT !.reply = TRUE, !.visible = TRUE]
SaysAndWaits == [Says EXCEPT !.wait = TRUE]
PartlySays == [SaysAndWaits EXCEPT !.failed = TRUE, !.infra = TRUE]
EmptyReply == [Act EXCEPT !.reply = TRUE, !.wait = TRUE]
UnsentReply == [EmptyReply EXCEPT !.failed = TRUE, !.infra = TRUE]
LostReply == [EmptyReply EXCEPT !.failed = TRUE]
Silence == [Act EXCEPT !.silence = TRUE]
SilenceAndWaits == [Silence EXCEPT !.wait = TRUE]
AsksTool == [Act EXCEPT !.info = TRUE, !.third = TRUE]

\* One decision of each kind the commit tells apart.
EveryKind == {Nothing, Act, Says, SaysAndWaits, PartlySays, EmptyReply, UnsentReply,
              LostReply, Silence, SilenceAndWaits, AsksTool}

\* Those that lead to different next states when nothing fails.
MainKinds == {Nothing, Says, SaysAndWaits, EmptyReply, SilenceAndWaits, AsksTool}
=============================================================================
