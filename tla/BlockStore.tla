----------------------------- MODULE BlockStore -----------------------------
(***************************************************************************)
(* What the buffer cache promises to its callers: every disk block is one  *)
(* register, used by one process at a time.                                *)
(***************************************************************************)
CONSTANTS Procs, Blocks, Values, None

VARIABLES
  mem,     \* the contents of each block
  holder   \* the process that uses the block, or None

Init ==
  /\ mem \in [Blocks -> Values]
  /\ holder = [n \in Blocks |-> None]

Acquire(p, n) ==
  /\ holder[n] = None
  /\ holder' = [holder EXCEPT ![n] = p]
  /\ UNCHANGED mem

Write(p, n, v) ==
  /\ holder[n] = p
  /\ mem' = [mem EXCEPT ![n] = v]
  /\ UNCHANGED holder

Release(p, n) ==
  /\ holder[n] = p
  /\ holder' = [holder EXCEPT ![n] = None]
  /\ UNCHANGED mem

Next ==
  \E p \in Procs, n \in Blocks :
     Acquire(p, n) \/ Release(p, n) \/ \E v \in Values : Write(p, n, v)

Spec == Init /\ [][Next]_<<mem, holder>>

=============================================================================
