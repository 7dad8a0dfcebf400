----------------------------- MODULE MCRequests -----------------------------
(* Values for model checking Requests.tla. *)
EXTENDS Requests

MCMessages == <<"m1", "m2">>
MCNotes    == <<"n1">>

\* Call ids are interchangeable: no rule of the code looks into one.
CallIdSymmetry == Permutations(CallIds)
=============================================================================
