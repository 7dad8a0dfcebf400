------------------------------ MODULE MCMemory ------------------------------
(* What is remembered and cleared, with few messages and jobs for TLC.      *)
EXTENDS Memory

CONSTANTS j1, j2
=============================================================================
