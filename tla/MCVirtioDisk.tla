---------------------------- MODULE MCVirtioDisk ----------------------------
(***************************************************************************)
(* Instances of VirtioDisk for TLC.                                        *)
(***************************************************************************)
EXTENDS VirtioDisk, TLC

CONSTANTS p1, p2, p3

Procs2 == {p1, p2}
Procs3 == {p1, p2, p3}
ProcSymmetry == Permutations(Procs3)

=============================================================================
