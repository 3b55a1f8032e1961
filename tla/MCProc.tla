------------------------------- MODULE MCProc -------------------------------
(***************************************************************************)
(* Instances of Proc for TLC; the .cfg files give the constants.           *)
(***************************************************************************)
EXTENDS Proc

NoPids == {}
Pid2 == {2}
Pid0 == {0}
Pid2And5 == {2, 5}

=============================================================================
