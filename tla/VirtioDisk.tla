----------------------------- MODULE VirtioDisk -----------------------------
(***************************************************************************)
(* The virtio block driver of kernel/virtio_disk.c: descriptors, the avail *)
(* and used rings shared with the device, virtio_disk_rw() in the process  *)
(* that wants a block and virtio_disk_intr() in the interrupt handler.     *)
(*                                                                         *)
(* Code under vdisk_lock that the device does not look at meanwhile is one *)
(* step.  The device is external: it takes requests in the order of the    *)
(* avail ring, completes them in any order, raises its interrupt with each *)
(* completion, and lowers it when the driver acknowledges.  It does not    *)
(* fail (a bad status is a panic in the driver).                           *)
(***************************************************************************)
EXTENDS Naturals, FiniteSets, FiniteSetsExt

CONSTANTS
  Procs,    \* the processes that read or write a block; each has a struct buf of its own
  NUM,      \* descriptors
  IDXMOD,   \* the ring indices shared with the device are uint16: 2^16 in the code
  None

Descs == 0..(NUM - 1)

ASSUME VirtioAssumption ==
  /\ NUM \in Nat \ {0} /\ IDXMOD \in Nat
  /\ \E k \in 1..IDXMOD : IDXMOD = k * NUM
  /\ None \notin Procs \cup Descs
  /\ "intr" \notin Procs \cup {None}

VARIABLES
  free,      \* disk.free, as the set of free descriptors
  next,      \* desc[i].next if VRING_DESC_F_NEXT is set, else None
  info,      \* disk.info[i].b, named by the process that waits for it
  avail,     \* avail[2...]
  avail_idx, \* avail[1]
  used,      \* used->elems
  used_id,   \* used->id, the device's index
  used_idx,  \* disk.used_idx
  bdisk,     \* b->disk
  idx,       \* idx[0] of the process
  pc,
  handler,   \* where virtio_disk_intr() is
  lock,      \* vdisk_lock: None, or held across the step of a process or by "intr"
  dev_avail, \* device: how far it has taken requests from avail
  dev_busy,  \* device: the requests it works on
  irq        \* device: INTERRUPT_STATUS

driverVars == <<free, next, info, avail, avail_idx, used_idx, bdisk, idx, pc, handler, lock>>
deviceVars == <<used, used_id, dev_avail, dev_busy, irq>>
vars == <<free, next, info, avail, avail_idx, used_idx, bdisk, idx, pc, handler, lock,
          used, used_id, dev_avail, dev_busy, irq>>

\* virtio_disk_init()
Init ==
  /\ free = Descs
  /\ next = [d \in Descs |-> None]
  /\ info = [d \in Descs |-> None]
  /\ avail = [d \in Descs |-> 0]
  /\ avail_idx = 0
  /\ used = [d \in Descs |-> 0]
  /\ used_id = 0
  /\ used_idx = 0
  /\ bdisk = [p \in Procs |-> FALSE]
  /\ idx = [p \in Procs |-> None]
  /\ pc = [p \in Procs |-> "idle"]
  /\ handler = "off"
  /\ lock = None
  /\ dev_avail = 0
  /\ dev_busy = {}
  /\ irq = FALSE

\* wakeup(&disk.free[0]), applied to the program counters pcs
WakeAllocators(pcs) == [q \in Procs |-> IF pcs[q] = "asleep_free" THEN "alloc" ELSE pcs[q]]

-----------------------------------------------------------------------------
\* alloc3_desc() succeeds with the three lowest free descriptors; virtio_disk_rw() formats
\* them and puts the first into the avail ring, where the device does not look yet.
rw_alloc(p) ==
  /\ pc[p] \in {"idle", "alloc"}
  /\ lock = None
  /\ Cardinality(free) >= 3
  /\ LET d0 == Min(free)
         d1 == Min(free \ {d0})
         d2 == Min(free \ {d0, d1})
     IN  /\ free' = free \ {d0, d1, d2}
         /\ next' = [next EXCEPT ![d0] = d1, ![d1] = d2, ![d2] = None]
         /\ info' = [info EXCEPT ![d0] = p]
         /\ avail' = [avail EXCEPT ![avail_idx % NUM] = d0]
         /\ idx' = [idx EXCEPT ![p] = d0]
  /\ bdisk' = [bdisk EXCEPT ![p] = TRUE]
  /\ lock' = p
  /\ pc' = [pc EXCEPT ![p] = "publish"]
  /\ UNCHANGED <<avail_idx, used_idx, handler, deviceVars>>

\* alloc3_desc() fails; giving back the one or two descriptors it did get wakes the others
\* that wait for descriptors, and the process goes to sleep.
rw_no_desc(p) ==
  /\ pc[p] \in {"idle", "alloc"}
  /\ lock = None
  /\ Cardinality(free) < 3
  /\ LET pcs == IF free = {} THEN pc ELSE WakeAllocators(pc)
     IN  pc' = [pcs EXCEPT ![p] = "asleep_free"]
  /\ UNCHANGED <<free, next, info, avail, avail_idx, used_idx, bdisk, idx, handler, lock, deviceVars>>

\* Tell the device, and sleep until b->disk is 0.
rw_publish(p) ==
  /\ pc[p] = "publish"
  /\ avail_idx' = (avail_idx + 1) % IDXMOD
  /\ lock' = None
  /\ pc' = [pc EXCEPT ![p] = "asleep_buf"]
  /\ UNCHANGED <<free, next, info, avail, used_idx, bdisk, idx, handler, deviceVars>>

\* the wakeup was for something else
rw_again(p) ==
  /\ pc[p] = "wait"
  /\ lock = None
  /\ bdisk[p]
  /\ pc' = [pc EXCEPT ![p] = "asleep_buf"]
  /\ UNCHANGED <<free, next, info, avail, avail_idx, used_idx, bdisk, idx, handler, lock, deviceVars>>

\* the descriptors that free_chain(d) frees
Chain(d) ==
  {d} \cup (IF next[d] = None THEN {}
            ELSE {next[d]} \cup (IF next[next[d]] = None THEN {} ELSE {next[next[d]]}))

\* Mutant: only the first descriptor is freed.
rw_done_head(p) ==
  /\ pc[p] = "wait"
  /\ lock = None
  /\ ~bdisk[p]
  /\ info' = [info EXCEPT ![idx[p]] = None]
  /\ free' = free \cup {idx[p]}
  /\ idx' = [idx EXCEPT ![p] = None]
  /\ pc' = WakeAllocators([pc EXCEPT ![p] = "idle"])
  /\ UNCHANGED <<next, avail, avail_idx, used_idx, bdisk, handler, lock, deviceVars>>

\* Mutant: whoever is woken up takes its request to be done.
rw_done_untested(p) ==
  /\ pc[p] = "wait"
  /\ lock = None
  /\ info' = [info EXCEPT ![idx[p]] = None]
  /\ free' = free \cup Chain(idx[p])
  /\ idx' = [idx EXCEPT ![p] = None]
  /\ pc' = WakeAllocators([pc EXCEPT ![p] = "idle"])
  /\ UNCHANGED <<next, avail, avail_idx, used_idx, bdisk, handler, lock, deviceVars>>

\* Mutant: freeing descriptors wakes nobody.
rw_done_silent(p) ==
  /\ pc[p] = "wait"
  /\ lock = None
  /\ ~bdisk[p]
  /\ info' = [info EXCEPT ![idx[p]] = None]
  /\ free' = free \cup Chain(idx[p])
  /\ idx' = [idx EXCEPT ![p] = None]
  /\ pc' = [pc EXCEPT ![p] = "idle"]
  /\ UNCHANGED <<next, avail, avail_idx, used_idx, bdisk, handler, lock, deviceVars>>

\* the request is done
rw_done(p) ==
  /\ pc[p] = "wait"
  /\ lock = None
  /\ ~bdisk[p]
  /\ info' = [info EXCEPT ![idx[p]] = None]
  /\ free' = free \cup Chain(idx[p])
  /\ idx' = [idx EXCEPT ![p] = None]
  /\ pc' = WakeAllocators([pc EXCEPT ![p] = "idle"])
  /\ UNCHANGED <<next, avail, avail_idx, used_idx, bdisk, handler, lock, deviceVars>>

\* kill() makes a sleeping process runnable; both loops of virtio_disk_rw() test again
kill(p) ==
  /\ pc[p] \in {"asleep_free", "asleep_buf"}
  /\ pc' = [pc EXCEPT ![p] = IF @ = "asleep_free" THEN "alloc" ELSE "wait"]
  /\ UNCHANGED <<free, next, info, avail, avail_idx, used_idx, bdisk, idx, handler, lock, deviceVars>>

-----------------------------------------------------------------------------
\* devintr() -> virtio_disk_intr()
intr_begin ==
  /\ irq
  /\ handler = "off"
  /\ lock = None
  /\ lock' = "intr"
  /\ handler' = "loop"
  /\ UNCHANGED <<free, next, info, avail, avail_idx, used_idx, bdisk, idx, pc, deviceVars>>

\* one round of its loop
intr_loop ==
  /\ handler = "loop"
  /\ used_idx % NUM # used_id % NUM
  /\ LET p == info[used[used_idx]]
     IN  /\ bdisk' = [bdisk EXCEPT ![p] = FALSE]
         /\ pc' = [pc EXCEPT ![p] = IF @ = "asleep_buf" THEN "wait" ELSE @]
  /\ used_idx' = (used_idx + 1) % NUM
  /\ UNCHANGED <<free, next, info, avail, avail_idx, idx, handler, lock, deviceVars>>

intr_loop_end ==
  /\ handler = "loop"
  /\ used_idx % NUM = used_id % NUM
  /\ handler' = "ack"
  /\ UNCHANGED <<free, next, info, avail, avail_idx, used_idx, bdisk, idx, pc, lock, deviceVars>>

\* INTERRUPT_ACK = INTERRUPT_STATUS, and release the lock
intr_ack ==
  /\ handler = "ack"
  /\ irq' = FALSE
  /\ handler' = "off"
  /\ lock' = None
  /\ UNCHANGED <<free, next, info, avail, avail_idx, used_idx, bdisk, idx, pc,
                 used, used_id, dev_avail, dev_busy>>

-----------------------------------------------------------------------------
\* the device takes a request from the avail ring ...
dev_take ==
  /\ dev_avail # avail_idx
  /\ dev_busy' = dev_busy \cup {avail[dev_avail % NUM]}
  /\ dev_avail' = (dev_avail + 1) % IDXMOD
  /\ UNCHANGED <<driverVars, used, used_id, irq>>

\* ... and completes one of those it has taken
dev_complete(d) ==
  /\ d \in dev_busy
  /\ dev_busy' = dev_busy \ {d}
  /\ used' = [used EXCEPT ![used_id % NUM] = d]
  /\ used_id' = (used_id + 1) % IDXMOD
  /\ irq' = TRUE
  /\ UNCHANGED <<driverVars, dev_avail>>

-----------------------------------------------------------------------------
Driver(p) == rw_publish(p) \/ rw_again(p) \/ rw_done(p)
Alloc(p) == rw_alloc(p) \/ rw_no_desc(p)
Handler == intr_begin \/ intr_loop \/ intr_loop_end \/ intr_ack

Next ==
  \/ \E p \in Procs : Driver(p) \/ Alloc(p) \/ kill(p)
  \/ Handler
  \/ dev_take
  \/ \E d \in Descs : dev_complete(d)

Spec == Init /\ [][Next]_vars

\* The device works, a raised interrupt is delivered, and threads that are not asleep run.
Fairness ==
  /\ \A p \in Procs : WF_vars(Driver(p)) /\ WF_vars(pc[p] = "alloc" /\ Alloc(p))
  /\ WF_vars(Handler)
  /\ WF_vars(dev_take)
  /\ \A d \in Descs : WF_vars(dev_complete(d))

FairSpec == Spec /\ Fairness

-----------------------------------------------------------------------------
(***************************************************************************)
(* Properties.                                                             *)
(***************************************************************************)
\* TYPE INVARIANT: the rings, the book-keeping of struct disk and the device.
TypeOK ==
  /\ free \subseteq Descs
  /\ next \in [Descs -> Descs \cup {None}]
  /\ info \in [Descs -> Procs \cup {None}]
  /\ avail \in [Descs -> Descs] /\ avail_idx \in 0..(IDXMOD - 1)
  /\ used \in [Descs -> Descs] /\ used_id \in 0..(IDXMOD - 1)
  /\ used_idx \in Descs
  /\ bdisk \in [Procs -> BOOLEAN]
  /\ idx \in [Procs -> Descs \cup {None}]
  /\ pc \in [Procs -> {"idle", "alloc", "publish", "asleep_free", "asleep_buf", "wait"}]
  /\ handler \in {"off", "loop", "ack"}
  /\ lock \in Procs \cup {None, "intr"}
  /\ dev_avail \in 0..(IDXMOD - 1)
  /\ dev_busy \subseteq Descs
  /\ irq \in BOOLEAN

\* the processes with a request in progress
InFlight == {p \in Procs : idx[p] # None}

\* SAFETY: the chains of the requests in progress and the free descriptors partition the
\* descriptors: none is lost, none is used twice (free_desc()'s panic is unreachable).
DescriptorsPartitioned ==
  /\ TypeOK
  /\ \A p \in InFlight : Cardinality(Chain(idx[p])) = 3 /\ Chain(idx[p]) \cap free = {}
  /\ \A p, q \in InFlight : p # q => Chain(idx[p]) \cap Chain(idx[q]) = {}
  /\ Cardinality(free) + 3 * Cardinality(InFlight) = NUM

\* completions in the used ring that the handler has not seen
Unseen == {k \in Descs : k < (used_id + NUM - used_idx) % NUM}

\* SAFETY: as long as the device works on a request, or its completion has not been seen, the
\* process that made it has not taken its buffer and its descriptors back: the DMA goes to
\* memory that is waiting for it, and virtio_disk_intr() finds the buf it is about.
DeviceOwnsBuffer ==
  \A d \in dev_busy \cup {used[(used_idx + k) % NUM] : k \in Unseen} :
     info[d] # None /\ idx[info[d]] = d /\ bdisk[info[d]]

\* SAFETY: no process sleeps on free descriptors when a request could be made.
AllocatorsNotified ==
  \A p \in Procs : pc[p] = "asleep_free" => Cardinality(free) < 3

\* LIVENESS: "Wait for virtio_disk_intr() to say request has finished" (virtio_disk.c:220):
\* every request that was given to the device ends.
RequestsFinish == \A p \in Procs : pc[p] = "publish" ~> pc[p] = "idle"

=============================================================================
