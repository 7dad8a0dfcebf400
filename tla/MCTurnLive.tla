----------------------------- MODULE MCTurnLive -----------------------------
(***************************************************************************)
(* TurnLoop for its liveness, with either setting of                       *)
(* wait.suppress_early_wake.  execute() reads the configuration when it    *)
(* starts and keeps what it read, so that a start may find it changed.     *)
(***************************************************************************)
EXTENDS MCTurnLoop

VARIABLE early  \* config.wait.suppress_early_wake, as this execute() read it

\* The loop with the setting that is not the constant's.
Early == INSTANCE TurnLoop WITH SuppressEarlyWake <- ~SuppressEarlyWake

EitherLoop ==
    /\ UNCHANGED early
    /\ \/ early = SuppressEarlyWake /\ Loop
       \/ early # SuppressEarlyWake /\ Early!Loop

EitherInit == Init /\ early \in BOOLEAN

\* All but the loop's own task is the same with both.
EitherNext ==
    \/ EitherLoop
    \/ Start /\ early' \in BOOLEAN
    \/ /\ UNCHANGED early
       /\ \/ \E m \in Users : Arrive(m)
          \/ \E p \in Triggers : Trigger(p)
          \/ Expire \/ DeferElapses

EitherSpec ==
    /\ EitherInit /\ [][EitherNext]_<<vars, early>>
    /\ WF_vars(EitherLoop)
    /\ WF_vars(Expire) /\ WF_vars(DeferElapses)
    /\ WF_vars(grown /\ Start)
=============================================================================
