-------------------------------- MODULE MCFs --------------------------------
(* Instances of Fs for TLC.                                                *)
EXTENDS Fs, TLC

CONSTANTS p1, p2

Abs(path) == <<"/">> \o path
A  == Abs(<<"a">>)
B  == Abs(<<"b">>)
AB == Abs(<<"a", "b">>)

(* p1 works in its current directory, / or /a, p2 from the root and one level
   deeper.  Nobody's current directory lies deeper than /a, so that the ".."
   of a removed one still names the root.                                  *)
CallsAll ==
  p1 :> {[op |-> "mkdir", path |-> A],
         [op |-> "chdir", path |-> A], [op |-> "chdir", path |-> <<"..">>],
         [op |-> "create", path |-> <<"b">>], [op |-> "unlink", path |-> <<"b">>],
         [op |-> "unlink", path |-> A],
         [op |-> "link", path |-> AB, new |-> B]}
  @@
  p2 :> {[op |-> "mkdir", path |-> A], [op |-> "mkdir", path |-> AB],
         [op |-> "mknod", path |-> A, type |-> "baddev"],
         [op |-> "open", path |-> AB, write |-> TRUE],
         [op |-> "link", path |-> AB, new |-> B],
         [op |-> "unlink", path |-> A], [op |-> "unlink", path |-> AB],
         [op |-> "unlink", path |-> <<"a", "..">>]}

(* A process stays in a directory that is removed together with its parent. *)
CallsRemoved ==
  p1 :> {[op |-> "mkdir", path |-> A], [op |-> "mkdir", path |-> AB],
         [op |-> "chdir", path |-> AB], [op |-> "chdir", path |-> <<"..">>]}
  @@
  p2 :> {[op |-> "unlink", path |-> AB], [op |-> "unlink", path |-> A]}
=============================================================================
