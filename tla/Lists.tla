-------------------------------- MODULE Lists --------------------------------
(***************************************************************************)
(* The list comprehension of the source language, [x for x in s if ...],   *)
(* and its loop over a list, as recursive functions.  They are SelectSeq   *)
(* of the standard module, which the proof system knows by name only, and  *)
(* FoldLeft of the community's, which recurs over sets of indices; about   *)
(* these two more can be proved.                                           *)
(***************************************************************************)
EXTENDS Integers, Sequences

\* The elements of s at the indices I, in the order of s.
Only(s, I) ==
    LET taken[n \in 0..Len(s)] ==
          IF n = 0 THEN <<>>
          ELSE IF n \in I THEN Append(taken[n - 1], s[n]) ELSE taken[n - 1]
    IN taken[Len(s)]

\* The elements of s that pass the test.
Those(s, Test(_)) == Only(s, {i \in DOMAIN s : Test(s[i])})

\* The slice s[:n], which is cut off at the end of the list.
Upto(s, n) == SubSeq(s, 1, IF n <= Len(s) THEN n ELSE Len(s))

\* The loop over a list, for x in s: acc = Op(acc, x).
Folded(Op(_, _), base, s) ==
    LET acc[n \in 0..Len(s)] == IF n = 0 THEN base ELSE Op(acc[n - 1], s[n])
    IN acc[Len(s)]
=============================================================================
