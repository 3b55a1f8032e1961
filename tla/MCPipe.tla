------------------------------- MODULE MCPipe -------------------------------
(***************************************************************************)
(* Instances of Pipe for TLC.                                              *)
(***************************************************************************)
EXTENDS Pipe, TLC

CONSTANTS r1, r2, w1, w2, x, y

OneReader == {r1}
TwoReaders == {r1, r2}
OneWriter == {w1}
TwoWriters == {w1, w2}
TwoBytes == {x, y}
OneByte == {x}
Nobody == {}
EndSymmetry == Permutations(TwoReaders) \cup Permutations(TwoWriters)

=============================================================================
