---------------------------- MODULE MCFileBlocks ----------------------------
(* Instances of FileBlocks for TLC.                                        *)
EXTENDS FileBlocks, TLC

CONSTANTS p1, p2

(* p1 fills, rereads and overwrites file 1 through its indirect block while p2
   truncates both and writes file 2.                                          *)
SomeOpens  == p1 :> {<<1, FALSE>>, <<1, TRUE>>} @@ p2 :> {<<2, TRUE>>, <<1, TRUE>>}
SomeWrites == p1 :> {<<1, 5>>} @@ p2 :> {<<2, 2>>}
SomeReads  == p1 :> {<<1, 3>>} @@ p2 :> {}
=============================================================================
