-------------------------------- MODULE Log --------------------------------
(***************************************************************************)
(* The redo log of kernel/log.c, with the part of the buffer cache         *)
(* (kernel/bio.c) that it relies on: which home blocks are cached, and the *)
(* reference counts that bpin() and bunpin() move.                         *)
(*                                                                         *)
(* log.lock is only held over short straight-line code, so each critical   *)
(* section is one action.  The commit runs without the lock and is one     *)
(* action per block write, and the machine may crash between any two       *)
(* writes.  A disk write of one block is atomic: the used part of the log  *)
(* header (124 bytes) lies in the first sector of its block.               *)
(***************************************************************************)
EXTENDS Naturals, Sequences, FiniteSets, Functions

CONSTANTS
  Procs,        \* the processes that make file system calls
  Blocks,       \* home blocks those calls write
  Values,       \* contents of a block
  Zero,         \* what mkfs leaves in a block of the log
  NoBuf,        \* the block is in no buffer of the cache
  MAXOPBLOCKS,  \* blocks begin_op() reserves for a call
  OpBlocks,     \* blocks a call really log_write()s, at most
  LOGSIZE,      \* entries of struct logheader
  NLOG,         \* log.size, sb.nlog of the image: header block included
  RefMod,       \* buf.refcnt is an unsigned int: 2^32 in the code
  Crashes,      \* TRUE if the machine may crash
  Recycling     \* TRUE if other traffic competes for the NBUF buffers

ASSUME LogAssumption ==
  /\ IsFiniteSet(Procs)
  /\ MAXOPBLOCKS \in Nat \ {0}
  /\ OpBlocks \in 0..MAXOPBLOCKS
  /\ LOGSIZE \in Nat \ {0}
  /\ NLOG \in Nat \ {0}
  /\ RefMod \in Nat \ {0}
  /\ Zero \in Values
  /\ NoBuf \notin Values \cup Blocks
  /\ Crashes \in BOOLEAN
  /\ Recycling \in BOOLEAN

VARIABLES
  disk,        \* on disk: the home blocks
  dlog,        \* on disk: the log blocks log.start+1 ...
  dhead,       \* on disk: the block numbers in the log header
  cache,       \* contents of the buffer of a home block, or NoBuf
  refcnt,      \* buf.refcnt of a home block's buffer
  lh,          \* log.lh: the block numbers logged by the open transaction
  outstanding, \* log.outstanding
  committing,  \* log.committing
  tail,        \* loop index of write_log() and install_trans()
  boot,        \* progress of recover_from_log(), "up" once it is done
  pc,          \* where each process is in begin_op ... end_op
  buf,         \* the buffer a process holds while it is in log_write()
  wrote,       \* the blocks the process' current call has log_write()n
  panicked     \* a panic() was reached

diskVars == <<disk, dlog, dhead>>
logVars  == <<lh, outstanding, committing>>
procVars == <<pc, buf, wrote>>
vars == <<disk, dlog, dhead, cache, refcnt, lh, outstanding, committing,
          tail, boot, pc, buf, wrote, panicked>>

PC == {"idle", "begin", "sleep", "op", "log_write",
       "write_log", "write_head", "install_trans", "clear", "done"}

(***************************************************************************)
(* Views of the state.                                                     *)
(***************************************************************************)
\* what bread(b) returns: the buffer of b if there is one, else the disk
Mem(b) == IF cache[b] = NoBuf THEN disk[b] ELSE cache[b]

\* the position of block b in a header
Slot(h, b) == CHOOSE i \in DOMAIN h : h[i] = b

\* what a boot that starts now makes of the disk
Durable == [b \in Blocks |-> IF b \in Range(dhead) THEN dlog[Slot(dhead, b)] ELSE disk[b]]

Memory == IF boot = "up" THEN [b \in Blocks |-> Mem(b)] ELSE Durable

Active == {p \in Procs : pc[p] \in {"op", "log_write"}}

Running == boot = "up" /\ ~panicked

-----------------------------------------------------------------------------
Init ==
  /\ disk \in [Blocks -> Values]
  /\ dlog = [i \in 1..LOGSIZE |-> Zero]
  /\ dhead = <<>>
  /\ cache = [b \in Blocks |-> NoBuf]
  /\ refcnt = [b \in Blocks |-> 0]
  /\ lh = <<>>
  /\ outstanding = 0
  /\ committing = FALSE
  /\ tail = 1
  /\ boot = "read_head"
  /\ pc = [p \in Procs |-> "idle"]
  /\ buf = [p \in Procs |-> NoBuf]
  /\ wrote = [p \in Procs |-> {}]
  /\ panicked = FALSE

\* wakeup(&log) applied to the program counters pcs: the sleepers of begin_op() test again
wakeup(pcs) == [q \in Procs |-> IF pcs[q] = "sleep" THEN "begin" ELSE pcs[q]]

\* the arithmetic of an unsigned reference count
Inc(n) == (n + 1) % RefMod
Dec(n) == (n + RefMod - 1) % RefMod

\* Mutant: begin_op() forgets the blocks that the call itself may write.
NoRoomForSelf == Len(lh) + outstanding * MAXOPBLOCKS > LOGSIZE

\* begin_op()'s estimate: this call might exhaust the log
NoRoom == Len(lh) + (outstanding + 1) * MAXOPBLOCKS > LOGSIZE

\* Mutant: begin_op() does not wait for a commit in progress.
begin_op_in_commit(p) ==
  /\ Running
  /\ pc[p] \in {"idle", "begin"}
  /\ ~NoRoom
  /\ outstanding' = outstanding + 1
  /\ pc' = [pc EXCEPT ![p] = "op"]
  /\ wrote' = [wrote EXCEPT ![p] = {}]
  /\ UNCHANGED <<diskVars, cache, refcnt, lh, committing, tail, boot, buf, panicked>>

\* Mutant: begin_op() does not count the call.
begin_op_uncounted(p) ==
  /\ Running
  /\ pc[p] \in {"idle", "begin"}
  /\ pc' = [pc EXCEPT ![p] = IF committing \/ NoRoom THEN "sleep" ELSE "op"]
  /\ UNCHANGED <<diskVars, cache, refcnt, logVars, tail, boot, buf, wrote, panicked>>

begin_op(p) ==
  /\ Running
  /\ pc[p] \in {"idle", "begin"}
  /\ \/ /\ committing \/ NoRoom
        /\ pc' = [pc EXCEPT ![p] = "sleep"]
        /\ UNCHANGED <<outstanding, wrote>>
     \/ /\ ~committing /\ ~NoRoom
        /\ outstanding' = outstanding + 1
        /\ pc' = [pc EXCEPT ![p] = "op"]
        /\ wrote' = [wrote EXCEPT ![p] = {}]
  /\ UNCHANGED <<diskVars, cache, refcnt, lh, committing, tail, boot, buf, panicked>>

\* kill() makes a SLEEPING process RUNNABLE; begin_op() tests its condition again
kill(p) ==
  /\ Running
  /\ pc[p] = "sleep"
  /\ pc' = [pc EXCEPT ![p] = "begin"]
  /\ UNCHANGED <<diskVars, cache, refcnt, logVars, tail, boot, buf, wrote, panicked>>

\* log_write()'s test that the log has room, made before it takes log.lock
TooBig == Len(lh) >= LOGSIZE \/ Len(lh) >= NLOG - 1

\* The caller has read block b, changes it to v, and enters log_write(), which
\* tests without log.lock that it may go on.
modify(p, b, v) ==
  /\ Running
  /\ pc[p] = "op"
  /\ \A q \in Procs : ~(pc[q] = "log_write" /\ buf[q] = b)
  /\ b \in wrote[p] \/ Cardinality(wrote[p]) < OpBlocks
  /\ cache' = [cache EXCEPT ![b] = v]
  /\ refcnt' = [refcnt EXCEPT ![b] = Inc(@)]
  /\ buf' = [buf EXCEPT ![p] = b]
  /\ wrote' = [wrote EXCEPT ![p] = @ \cup {b}]
  /\ pc' = [pc EXCEPT ![p] = "log_write"]
  /\ panicked' = (TooBig \/ outstanding < 1)
  /\ UNCHANGED <<diskVars, logVars, tail, boot>>

\* Mutant: log_write() does not pin the buffer.
log_write_unpinned(p) ==
  /\ Running
  /\ pc[p] = "log_write"
  /\ refcnt' = [refcnt EXCEPT ![buf[p]] = Dec(@)]
  /\ lh' = IF buf[p] \in Range(lh) THEN lh ELSE Append(lh, buf[p])
  /\ pc' = [pc EXCEPT ![p] = "op"]
  /\ buf' = [buf EXCEPT ![p] = NoBuf]
  /\ UNCHANGED <<diskVars, cache, outstanding, committing, tail, boot, wrote, panicked>>

\* The rest of log_write(), under log.lock, and the caller's brelse().  A block
\* that is new in the transaction is pinned, one that is logged already is absorbed.
log_write(p) ==
  /\ Running
  /\ pc[p] = "log_write"
  /\ IF buf[p] \in Range(lh)
     THEN /\ refcnt' = [refcnt EXCEPT ![buf[p]] = Dec(@)]
          /\ UNCHANGED lh
     ELSE /\ refcnt' = [refcnt EXCEPT ![buf[p]] = Dec(Inc(@))]
          /\ lh' = Append(lh, buf[p])
  /\ pc' = [pc EXCEPT ![p] = "op"]
  /\ buf' = [buf EXCEPT ![p] = NoBuf]
  /\ UNCHANGED <<diskVars, cache, outstanding, committing, tail, boot, wrote, panicked>>

\* Mutant: end_op() does not announce the commit it is about to do.
end_op_unflagged(p) ==
  /\ Running
  /\ pc[p] = "op"
  /\ outstanding' = outstanding - 1
  /\ tail' = IF outstanding = 1 THEN 1 ELSE tail
  /\ pc' = IF outstanding = 1
           THEN [pc EXCEPT ![p] = IF Len(lh) > 0 THEN "write_log" ELSE "done"]
           ELSE wakeup([pc EXCEPT ![p] = "idle"])
  /\ UNCHANGED <<diskVars, cache, refcnt, lh, committing, boot, buf, wrote, panicked>>

\* end_op() up to the call of commit(); commit() does nothing for an empty transaction
end_op(p) ==
  /\ Running
  /\ pc[p] = "op"
  /\ outstanding' = outstanding - 1
  /\ panicked' = committing
  /\ IF outstanding = 1
     THEN /\ committing' = TRUE
          /\ tail' = 1
          /\ pc' = [pc EXCEPT ![p] = IF Len(lh) > 0 THEN "write_log" ELSE "done"]
     ELSE /\ pc' = wakeup([pc EXCEPT ![p] = "idle"])
          /\ UNCHANGED <<committing, tail>>
  /\ UNCHANGED <<diskVars, cache, refcnt, lh, boot, buf, wrote>>

\* One round of write_log(): copy a block from the cache to the log on disk.
write_log(p) ==
  /\ Running
  /\ pc[p] = "write_log"
  /\ dlog' = [dlog EXCEPT ![tail] = Mem(lh[tail])]
  /\ cache' = [cache EXCEPT ![lh[tail]] = Mem(lh[tail])]
  /\ tail' = IF tail = Len(lh) THEN 1 ELSE tail + 1
  /\ pc' = [pc EXCEPT ![p] = IF tail = Len(lh) THEN "write_head" ELSE @]
  /\ UNCHANGED <<disk, dhead, refcnt, logVars, boot, buf, wrote, panicked>>

\* the commit point
write_head(p) ==
  /\ Running
  /\ pc[p] = "write_head"
  /\ dhead' = lh
  /\ tail' = 1
  /\ pc' = [pc EXCEPT ![p] = "install_trans"]
  /\ UNCHANGED <<disk, dlog, cache, refcnt, logVars, boot, buf, wrote, panicked>>

\* One round of install_trans(), called by commit() and by recover_from_log():
\* copy a log block home.  bread, bunpin and brelse of the home block's buffer
\* move its reference count by +1 -1 -1.
install_block ==
  /\ disk' = [disk EXCEPT ![lh[tail]] = dlog[tail]]
  /\ cache' = [cache EXCEPT ![lh[tail]] = dlog[tail]]
  /\ refcnt' = [refcnt EXCEPT ![lh[tail]] = Dec(Dec(Inc(@)))]
  /\ tail' = IF tail = Len(lh) THEN 1 ELSE tail + 1

install_trans(p) ==
  /\ Running
  /\ pc[p] = "install_trans"
  /\ install_block
  /\ pc' = [pc EXCEPT ![p] = IF tail = Len(lh) THEN "clear" ELSE @]
  /\ UNCHANGED <<dlog, dhead, logVars, boot, buf, wrote, panicked>>

\* log.lh.n = 0; write_head()
clear(p) ==
  /\ Running
  /\ pc[p] = "clear"
  /\ lh' = <<>>
  /\ dhead' = <<>>
  /\ pc' = [pc EXCEPT ![p] = "done"]
  /\ UNCHANGED <<disk, dlog, cache, refcnt, outstanding, committing, tail, boot, buf, wrote, panicked>>

\* Mutant: end_op() does not wake begin_op() after the commit.
end_commit_silent(p) ==
  /\ Running
  /\ pc[p] = "done"
  /\ committing' = FALSE
  /\ pc' = [pc EXCEPT ![p] = "idle"]
  /\ UNCHANGED <<diskVars, cache, refcnt, lh, outstanding, tail, boot, buf, wrote, panicked>>

\* the end of end_op(), after commit()
end_commit(p) ==
  /\ Running
  /\ pc[p] = "done"
  /\ committing' = FALSE
  /\ pc' = wakeup([pc EXCEPT ![p] = "idle"])
  /\ UNCHANGED <<diskVars, cache, refcnt, lh, outstanding, tail, boot, buf, wrote, panicked>>

\* bget() gives the buffer of an unreferenced block to another block.  A buffer whose
\* sleep-lock is held is left out: that it is referenced is bio.c's own business.
recycle(b) ==
  /\ Running
  /\ Recycling
  /\ cache[b] # NoBuf
  /\ refcnt[b] = 0
  /\ \A p \in Procs : ~(pc[p] = "log_write" /\ buf[p] = b)
  /\ cache' = [cache EXCEPT ![b] = NoBuf]
  /\ UNCHANGED <<diskVars, refcnt, logVars, tail, boot, procVars, panicked>>

-----------------------------------------------------------------------------
(***************************************************************************)
(* Crash and recovery.  Everything but the disk is lost; the first process *)
(* runs fsinit() -> initlog() -> recover_from_log() before any other call. *)
(***************************************************************************)
crash ==
  /\ Crashes
  /\ cache' = [b \in Blocks |-> NoBuf]
  /\ refcnt' = [b \in Blocks |-> 0]
  /\ lh' = <<>>
  /\ outstanding' = 0
  /\ committing' = FALSE
  /\ tail' = 1
  /\ boot' = "read_head"
  /\ pc' = [p \in Procs |-> "idle"]
  /\ buf' = [p \in Procs |-> NoBuf]
  /\ wrote' = [p \in Procs |-> {}]
  /\ panicked' = FALSE
  /\ UNCHANGED diskVars

\* Mutant: recovery clears the log without installing it.
read_head_only ==
  /\ boot = "read_head"
  /\ lh' = dhead
  /\ boot' = "clear"
  /\ UNCHANGED <<diskVars, cache, refcnt, outstanding, committing, tail, procVars, panicked>>

read_head ==
  /\ boot = "read_head"
  /\ lh' = dhead
  /\ tail' = 1
  /\ boot' = IF Len(dhead) > 0 THEN "install_trans" ELSE "clear"
  /\ UNCHANGED <<diskVars, cache, refcnt, outstanding, committing, procVars, panicked>>

recover_install ==
  /\ boot = "install_trans"
  /\ install_block
  /\ boot' = IF tail = Len(lh) THEN "clear" ELSE boot
  /\ UNCHANGED <<dlog, dhead, logVars, procVars, panicked>>

recover_clear ==
  /\ boot = "clear"
  /\ lh' = <<>>
  /\ dhead' = <<>>
  /\ boot' = "up"
  /\ UNCHANGED <<disk, dlog, cache, refcnt, outstanding, committing, tail, procVars, panicked>>

-----------------------------------------------------------------------------
Step(p) ==
  \/ begin_op(p) \/ log_write(p) \/ end_op(p)
  \/ write_log(p) \/ write_head(p) \/ install_trans(p) \/ clear(p) \/ end_commit(p)

Recovery == read_head \/ recover_install \/ recover_clear

Next ==
  \/ \E p \in Procs : Step(p) \/ kill(p)
  \/ \E p \in Procs, b \in Blocks, v \in Values : modify(p, b, v)
  \/ \E b \in Blocks : recycle(b)
  \/ Recovery
  \/ crash

Spec == Init /\ [][Next]_vars

\* The scheduler runs every runnable process, and a call that is in progress ends:
\* its loops over blocks are bounded.  Whether a process starts a call is up to it.
Fairness ==
  /\ WF_vars(Recovery)
  /\ \A p \in Procs :
       /\ WF_vars(pc[p] # "idle" /\ Step(p))
       /\ SF_vars(end_op(p))

FairSpec == Spec /\ Fairness

-----------------------------------------------------------------------------
(***************************************************************************)
(* Properties.                                                             *)
(***************************************************************************)
\* TYPE INVARIANT: the shapes of the on-disk log, of the cache and of struct log.
TypeOK ==
  /\ disk \in [Blocks -> Values]
  /\ dlog \in [1..LOGSIZE -> Values]
  /\ dhead \in Seq(Blocks)
  /\ cache \in [Blocks -> Values \cup {NoBuf}]
  /\ refcnt \in [Blocks -> 0..RefMod-1]
  /\ lh \in Seq(Blocks)
  /\ outstanding \in Nat
  /\ committing \in BOOLEAN
  /\ tail \in 1..LOGSIZE
  /\ boot \in {"read_head", "install_trans", "clear", "up"}
  /\ pc \in [Procs -> PC]
  /\ buf \in [Procs -> Blocks \cup {NoBuf}]
  /\ wrote \in [Procs -> SUBSET Blocks]
  /\ panicked \in BOOLEAN

\* REFINEMENT: with write_log/write_head/install_trans interleaved with crashes,
\* log.c is still an atomic disk: a crash loses whole calls, never parts of them.
Atomic == INSTANCE AtomicDisk WITH durable <- Durable, mem <- Memory, active <- Active
AtomicSpec == Atomic!Spec

\* ACTION PROPERTY: only commit()'s first write_head() ("the true point at which the
\* current transaction commits", log.c:92) changes what a reboot would find; the
\* writes of write_log(), install_trans() and the clearing of the header do not.
DurableOnlyAtCommit ==
  [][Durable' # Durable =>
       \E p \in Procs : pc[p] = "write_head" /\ pc'[p] = "install_trans"]_vars

\* SAFETY: once the last call of a transaction has left end_op(), everything the calls
\* wrote would survive a crash.
QuiescentDurable ==
  Running /\ outstanding = 0 /\ ~committing => Durable = Memory

\* SAFETY: a block that log_write() recorded stays in the cache until install_trans()
\* has written it home ("pin in the cache by increasing refcnt", log.c:185).
LoggedStaysCached ==
  Running => \A i \in DOMAIN lh :
     (\E p \in Procs : pc[p] \in {"clear", "done"})
     \/ (i < tail /\ \E p \in Procs : pc[p] = "install_trans")
     \/ cache[lh[i]] # NoBuf

\* Every call writes less than the MAXOPBLOCKS blocks that begin_op() reserves for it, and
\* the header block and the entries of the log leave room for what the calls do write.
\* With the constants of param.h and mkfs (10, 30, 30): at most 9 blocks a call.
Slack ==
  /\ OpBlocks < MAXOPBLOCKS
  /\ OpBlocks < NLOG - 1
  /\ LOGSIZE + 2 * OpBlocks < NLOG - 1 + 2 * MAXOPBLOCKS

\* What begin_op()'s estimate is for: log.c's panics are never reached.  Not true of calls
\* that use the whole of their reservation (see MCLogFull.cfg).
NoPanic == ~panicked

\* SAFETY: as long as every call stays a block below its reservation, no overlap of calls
\* and commits runs into one of log.c's panics: begin_op() admits a call only if the log
\* has room for it and for the rest of the calls in progress.
NoPanicWithSlack == Slack => ~panicked

\* LIVENESS: a begin_op() that waits for the commit or for log space gets its chance
\* again, and every call that was admitted, and the commit it may have to do, finishes,
\* however the others hold the log.
CallsEnd ==
  \A p \in Procs : /\ pc[p] = "sleep" ~> pc[p] # "sleep"
                   /\ pc[p] \notin {"idle", "begin", "sleep"} ~> pc[p] = "idle"

=============================================================================
