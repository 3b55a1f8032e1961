------------------------------- MODULE MCSched -------------------------------
(***************************************************************************)
(* Instances of Sched for TLC.                                             *)
(***************************************************************************)
EXTENDS Sched

CONSTANTS c1, c2

TwoHarts == {c1, c2}

=============================================================================
