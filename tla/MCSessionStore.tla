--------------------------- MODULE MCSessionStore ---------------------------
(* The session store with three tasks for TLC.                             *)
EXTENDS SessionStore, TLC

CONSTANTS s1, s2, t1, t2, t3, t4

Symmetry == Permutations(Streams) \cup Permutations(Tasks)
=============================================================================
