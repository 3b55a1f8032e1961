----------------------------- MODULE AtomicDisk -----------------------------
(***************************************************************************)
(* What the logging layer promises to the file system calls above it: a    *)
(* memory of disk blocks in which the calls between two commits take       *)
(* effect on the disk all at once or not at all.                           *)
(*                                                                         *)
(* `mem' is what running calls read and write, `durable' is what a machine *)
(* that crashes now finds after its next boot.  `durable' changes in one   *)
(* way only: it becomes `mem' at a moment at which no call is in progress, *)
(* so it never holds part of the writes of a call.                         *)
(***************************************************************************)
CONSTANTS Procs, Blocks, Values

VARIABLES durable, mem, active

vars == <<durable, mem, active>>

Init ==
  /\ durable \in [Blocks -> Values]
  /\ mem = durable
  /\ active = {}

Begin(p) ==
  /\ p \notin active
  /\ active' = active \cup {p}
  /\ UNCHANGED <<durable, mem>>

Write(p, b, v) ==
  /\ p \in active
  /\ mem' = [mem EXCEPT ![b] = v]
  /\ UNCHANGED <<durable, active>>

End(p) ==
  /\ p \in active
  /\ active' = active \ {p}
  /\ UNCHANGED <<durable, mem>>

Commit ==
  /\ active = {}
  /\ durable' = mem
  /\ UNCHANGED <<mem, active>>

Crash ==
  /\ mem' = durable
  /\ active' = {}
  /\ UNCHANGED durable

Next ==
  \/ \E p \in Procs : Begin(p) \/ End(p)
  \/ \E p \in Procs, b \in Blocks, v \in Values : Write(p, b, v)
  \/ Commit
  \/ Crash

Spec == Init /\ [][Next]_vars

=============================================================================
