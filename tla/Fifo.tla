-------------------------------- MODULE Fifo --------------------------------
(***************************************************************************)
(* What a pipe promises: a bounded first-in first-out queue of bytes.      *)
(***************************************************************************)
EXTENDS Naturals, Sequences

CONSTANTS Bytes, NoByte, Capacity

VARIABLES
  queue,  \* the bytes written and not yet read
  out     \* the byte taken last

Init == queue = <<>> /\ out = NoByte

Put(v) ==
  /\ Len(queue) < Capacity
  /\ queue' = Append(queue, v)
  /\ UNCHANGED out

Get ==
  /\ queue # <<>>
  /\ out' = Head(queue)
  /\ queue' = Tail(queue)

Spec == Init /\ [][Get \/ \E v \in Bytes : Put(v)]_<<queue, out>>

=============================================================================
