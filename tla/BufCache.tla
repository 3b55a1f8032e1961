------------------------------ MODULE BufCache ------------------------------
(***************************************************************************)
(* The buffer cache of kernel/bio.c with the sleep-locks of                *)
(* kernel/sleeplock.c.                                                     *)
(*                                                                         *)
(* Code under bcache.lock, and code under the spin-lock inside a sleep-    *)
(* lock, is one step; sleep() and wakeup() are atomic (module Sched).  The *)
(* look-up, the sleep-lock, the disk read and the two halves of brelse()   *)
(* are steps of their own.  A member of Procs is one use of the cache: a   *)
(* process that holds two buffers at a time, as install_trans() or bmap()  *)
(* calling balloc() does, counts as two.                                   *)
(*                                                                         *)
(* A bget() that finds no unused buffer panics and spins with bcache.lock  *)
(* held: the other harts go on until they need that lock themselves.       *)
(*                                                                         *)
(* A holder that changes the data writes it to the disk with bwrite(), or  *)
(* pins the buffer as log_write() does; the pin is taken back by a later   *)
(* holder that writes the block to the disk, as install_trans() does.      *)
(***************************************************************************)
EXTENDS Naturals, FiniteSets, Functions

CONSTANTS
  Procs, Blocks, Values,
  NBUF,      \* number of buffers
  None,      \* no process, no buffer, no block
  PinLimit   \* the pins that the log holds at most

ASSUME BufCacheAssumption ==
  /\ NBUF \in Nat \ {0}
  /\ PinLimit \in Nat
  /\ IsFiniteSet(Procs)
  /\ None \notin Procs \cup Blocks \cup Values \cup Nat

Bufs == 1..NBUF

VARIABLES
  lru,      \* the list from head.next to head.prev
  blockno,  \* b->blockno, None before the first use
  valid,    \* b->valid
  refcnt,   \* b->refcnt
  data,     \* b->data, None before the first read
  locked,   \* the holder of b->lock
  pinned,   \* the blocks whose buffers log_write() has pinned
  disk,     \* the blocks on the disk
  pc,
  want,     \* the block a process asks for
  buf       \* the buffer bget() found for it

bufVars == <<lru, blockno, valid, refcnt, data, locked, pinned>>
vars == <<lru, blockno, valid, refcnt, data, locked, pinned, disk, pc, want, buf>>

\* binit() puts each buffer at the head of the list
Init ==
  /\ lru = [k \in Bufs |-> NBUF + 1 - k]
  /\ blockno = [b \in Bufs |-> None]
  /\ valid = [b \in Bufs |-> FALSE]
  /\ refcnt = [b \in Bufs |-> 0]
  /\ data = [b \in Bufs |-> None]
  /\ locked = [b \in Bufs |-> None]
  /\ pinned = {}
  /\ disk \in [Blocks -> Values]
  /\ pc = [p \in Procs |-> "idle"]
  /\ want = [p \in Procs |-> None]
  /\ buf = [p \in Procs |-> None]

Cached(n) == {b \in Bufs : blockno[b] = n}

Goto(p, label) == pc' = [pc EXCEPT ![p] = label]

\* bcache.lock can be taken: no bget() has panicked with it
LockFree == \A p \in Procs : pc[p] # "panic"

-----------------------------------------------------------------------------
\* bget() finds the block in the cache
bget_hit(p, n) ==
  /\ pc[p] = "idle" /\ LockFree
  /\ \E b \in Cached(n) :
       /\ refcnt' = [refcnt EXCEPT ![b] = @ + 1]
       /\ buf' = [buf EXCEPT ![p] = b]
  /\ want' = [want EXCEPT ![p] = n]
  /\ Goto(p, "lock")
  /\ UNCHANGED <<lru, blockno, valid, data, locked, pinned, disk>>

\* the unused buffers, and the one that was used least recently
Unused == {k \in Bufs : refcnt[lru[k]] = 0}
LeastRecent == lru[CHOOSE k \in Unused : \A j \in Unused : j <= k]

\* bget() recycles the least recently used unused buffer, or panics
bget_miss(p, n) ==
  /\ pc[p] = "idle" /\ LockFree
  /\ Cached(n) = {}
  /\ IF Unused = {}
     THEN /\ Goto(p, "panic")
          /\ UNCHANGED <<blockno, valid, refcnt, want, buf>>
     ELSE /\ blockno' = [blockno EXCEPT ![LeastRecent] = n]
          /\ valid' = [valid EXCEPT ![LeastRecent] = FALSE]
          /\ refcnt' = [refcnt EXCEPT ![LeastRecent] = 1]
          /\ buf' = [buf EXCEPT ![p] = LeastRecent]
          /\ want' = [want EXCEPT ![p] = n]
          /\ Goto(p, "lock")
  /\ UNCHANGED <<lru, data, locked, pinned, disk>>

\* panic() spins
panic(p) ==
  /\ pc[p] = "panic"
  /\ UNCHANGED vars

-----------------------------------------------------------------------------
\* Mutant: acquiresleep() tests lk->locked once, not again after it has slept.
acquiresleep_once(p) ==
  \/ /\ pc[p] = "lock"
     /\ IF locked[buf[p]] = None
        THEN /\ locked' = [locked EXCEPT ![buf[p]] = p]
             /\ Goto(p, "bread")
        ELSE /\ Goto(p, "asleep")
             /\ UNCHANGED locked
     /\ UNCHANGED <<lru, blockno, valid, refcnt, data, pinned, disk, want, buf>>
  \/ /\ pc[p] = "relock"
     /\ locked' = [locked EXCEPT ![buf[p]] = p]
     /\ Goto(p, "bread")
     /\ UNCHANGED <<lru, blockno, valid, refcnt, data, pinned, disk, want, buf>>

\* acquiresleep(&b->lock)
acquiresleep(p) ==
  /\ pc[p] \in {"lock", "relock"}
  /\ IF locked[buf[p]] = None
     THEN /\ locked' = [locked EXCEPT ![buf[p]] = p]
          /\ Goto(p, "bread")
     ELSE /\ Goto(p, "asleep")
          /\ UNCHANGED locked
  /\ UNCHANGED <<lru, blockno, valid, refcnt, data, pinned, disk, want, buf>>

\* bread() of a buffer that holds its block already
bread_cached(p) ==
  /\ pc[p] = "bread"
  /\ valid[buf[p]]
  /\ Goto(p, "hold")
  /\ UNCHANGED <<bufVars, disk, want, buf>>

\* bread() fills the buffer from the disk
bread(p) ==
  /\ pc[p] = "bread"
  /\ ~valid[buf[p]]
  /\ data' = [data EXCEPT ![buf[p]] = disk[blockno[buf[p]]]]
  /\ valid' = [valid EXCEPT ![buf[p]] = TRUE]
  /\ Goto(p, "hold")
  /\ UNCHANGED <<lru, blockno, refcnt, locked, pinned, disk, want, buf>>

\* The holder changes the block and writes it to the disk.
bwrite(p, v) ==
  /\ pc[p] = "hold"
  /\ want[p] \notin pinned
  /\ data' = [data EXCEPT ![buf[p]] = v]
  /\ disk' = [disk EXCEPT ![blockno[buf[p]]] = v]
  /\ UNCHANGED <<lru, blockno, valid, refcnt, locked, pinned, pc, want, buf>>

\* The holder changes the block and pins it until it is written, as log_write() does.
bpin(p, v) ==
  /\ pc[p] = "hold"
  /\ want[p] \in pinned \/ (Cardinality(pinned) < PinLimit /\ LockFree)
  /\ data' = [data EXCEPT ![buf[p]] = v]
  /\ pinned' = pinned \cup {want[p]}
  /\ refcnt' = [refcnt EXCEPT ![buf[p]] = IF want[p] \in pinned THEN @ ELSE @ + 1]
  /\ UNCHANGED <<lru, blockno, valid, locked, disk, pc, want, buf>>

\* bwrite() and bunpin() of a pinned block, as in install_trans()
bunpin(p) ==
  /\ pc[p] = "hold" /\ LockFree
  /\ want[p] \in pinned
  /\ disk' = [disk EXCEPT ![blockno[buf[p]]] = data[buf[p]]]
  /\ pinned' = pinned \ {want[p]}
  /\ refcnt' = [refcnt EXCEPT ![buf[p]] = @ - 1]
  /\ UNCHANGED <<lru, blockno, valid, data, locked, pc, want, buf>>

-----------------------------------------------------------------------------
\* Mutant: releasesleep() wakes nobody.
releasesleep_silent(p) ==
  /\ pc[p] = "hold"
  /\ locked' = [locked EXCEPT ![buf[p]] = None]
  /\ pc' = [pc EXCEPT ![p] = "brelse"]
  /\ UNCHANGED <<lru, blockno, valid, refcnt, data, pinned, disk, want, buf>>

\* brelse(), first releasesleep(&b->lock) ...
releasesleep(p) ==
  /\ pc[p] = "hold"
  /\ locked' = [locked EXCEPT ![buf[p]] = None]
  /\ pc' = [q \in Procs |-> IF q = p THEN "brelse"
                            ELSE IF pc[q] = "asleep" /\ buf[q] = buf[p] THEN "relock" ELSE pc[q]]
  /\ UNCHANGED <<lru, blockno, valid, refcnt, data, pinned, disk, want, buf>>

\* b is taken out of the list and put in again at its head
MoveToFront(b) ==
  LET k == CHOOSE k \in Bufs : lru[k] = b
  IN  [j \in Bufs |-> IF j = 1 THEN b ELSE IF j <= k THEN lru[j - 1] ELSE lru[j]]

\* ... then, under bcache.lock, the count and the list
brelse(p) ==
  /\ pc[p] = "brelse" /\ LockFree
  /\ refcnt' = [refcnt EXCEPT ![buf[p]] = @ - 1]
  /\ lru' = IF refcnt[buf[p]] = 1 THEN MoveToFront(buf[p]) ELSE lru
  /\ buf' = [buf EXCEPT ![p] = None]
  /\ want' = [want EXCEPT ![p] = None]
  /\ Goto(p, "idle")
  /\ UNCHANGED <<blockno, valid, data, locked, pinned, disk>>

\* kill() makes a sleeping process runnable: acquiresleep() tests lk->locked again
kill(p) ==
  /\ pc[p] = "asleep"
  /\ Goto(p, "relock")
  /\ UNCHANGED <<bufVars, disk, want, buf>>

-----------------------------------------------------------------------------
Step(p) ==
  \/ acquiresleep(p) \/ bread_cached(p) \/ bread(p)
  \/ bunpin(p) \/ releasesleep(p) \/ brelse(p) \/ kill(p) \/ panic(p)
  \/ \E n \in Blocks : bget_hit(p, n) \/ bget_miss(p, n)
  \/ \E v \in Values : bwrite(p, v) \/ bpin(p, v)

Next == \E p \in Procs : Step(p)

Spec == Init /\ [][Next]_vars

-----------------------------------------------------------------------------
(***************************************************************************)
(* Properties.                                                             *)
(***************************************************************************)
\* TYPE INVARIANT: the cache and the processes that use it.
TypeOK ==
  /\ lru \in [Bufs -> Bufs] /\ IsInjective(lru)
  /\ blockno \in [Bufs -> Blocks \cup {None}]
  /\ valid \in [Bufs -> BOOLEAN]
  /\ refcnt \in [Bufs -> 0..(Cardinality(Procs) + PinLimit)]
  /\ data \in [Bufs -> Values \cup {None}]
  /\ locked \in [Bufs -> Procs \cup {None}]
  /\ pinned \subseteq Blocks
  /\ disk \in [Blocks -> Values]
  /\ pc \in [Procs -> {"idle", "lock", "relock", "asleep", "bread", "hold", "brelse",
                       "panic"}]
  /\ want \in [Procs -> Blocks \cup {None}]
  /\ buf \in [Procs -> Bufs \cup {None}]

\* what a reader of block n would get
Contents(n) ==
  IF \E b \in Cached(n) : valid[b] THEN data[CHOOSE b \in Cached(n) : valid[b]] ELSE disk[n]

Users(n) == {p \in Procs : pc[p] = "hold" /\ want[p] = n}
Holder(n) == IF Users(n) = {} THEN None ELSE CHOOSE p \in Users(n) : TRUE

\* REFINEMENT: the cache is "a synchronization point for disk blocks used by multiple
\* processes" (bio.c:5) and "only one process at a time can use a buffer" (bio.c:12): through
\* eviction, re-reading, pinning and concurrent look-ups every block is one register with
\* one user.
Store == INSTANCE BlockStore
           WITH mem <- [n \in Blocks |-> Contents(n)], holder <- [n \in Blocks |-> Holder(n)]
StoreSpec == Store!Spec

\* a process that has been given a buffer keeps it: bget() of another block never recycles
\* it while the process waits for the sleep-lock, reads, or is about to count down
KeepsItsBuffer ==
  \A p \in Procs : pc[p] \notin {"idle", "panic"} => blockno[buf[p]] = want[p] /\ refcnt[buf[p]] > 0

\* bget() gives up only if each buffer is in the hands of a process, or the log has pinned
\* it: the counts leak none
PanicsOnlyFull ==
  (\E p \in Procs : pc[p] = "panic")
    => \A b \in Bufs : blockno[b] \in pinned \/ \E p \in Procs : buf[p] = b

\* SAFETY: nobody sleeps on a sleep-lock that is free, the buffer that a process waits for
\* is not recycled under it, and bget() panics only if every buffer really is in use.
SleepersHaveHolder ==
  /\ TypeOK /\ KeepsItsBuffer /\ PanicsOnlyFull
  /\ \A p \in Procs : pc[p] = "asleep" => locked[buf[p]] # None

=============================================================================
