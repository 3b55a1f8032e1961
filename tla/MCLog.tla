------------------------------- MODULE MCLog -------------------------------
(***************************************************************************)
(* Instances of Log for TLC.                                               *)
(***************************************************************************)
EXTENDS Log, TLC

CONSTANTS p1, p2, p3, b1, b2, b3, v0, v1

Procs2  == {p1, p2}
Procs3  == {p1, p2, p3}
Blocks2 == {b1, b2}
Blocks3 == {b1, b2, b3}
Values1 == {v0}
Values2 == {v0, v1}

\* processes are interchangeable, and so are blocks
Symmetry2 == Permutations(Procs2) \cup Permutations(Blocks2)
Symmetry3 == Permutations(Procs3) \cup Permutations(Blocks3)

=============================================================================
