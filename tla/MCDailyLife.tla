---------------------------- MODULE MCDailyLife ----------------------------
(***************************************************************************)
(* A small DailyLife: days of three slots, and of the plans one through    *)
(* the day that has no end of its own and one through midnight.            *)
(***************************************************************************)
EXTENDS DailyLife

SomeTimes == {<<1, None>>, <<2, 1>>}
=============================================================================
