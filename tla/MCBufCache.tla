----------------------------- MODULE MCBufCache -----------------------------
(***************************************************************************)
(* Instances of BufCache for TLC.                                          *)
(***************************************************************************)
EXTENDS BufCache, TLC

CONSTANTS p1, p2, b1, b2, b3, b4, v0, v1

Procs2 == {p1, p2}
Blocks4 == {b1, b2, b3, b4}
Values2 == {v0, v1}

CacheSymmetry == Permutations(Procs2) \cup Permutations(Blocks4) \cup Permutations(Values2)

=============================================================================
