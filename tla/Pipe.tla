-------------------------------- MODULE Pipe --------------------------------
(***************************************************************************)
(* A pipe of kernel/pipe.c, with the reference counts of its two open      *)
(* files (kernel/file.c), from pipealloc() until its page is freed.        *)
(*                                                                         *)
(* pi->lock is held from acquire() to release() or sleep(); sleep() and    *)
(* wakeup() are atomic here, as module Sched justifies.  kill() does not   *)
(* take pi->lock: it may come between a test of pr->killed and the sleep() *)
(* that follows it.                                                        *)
(***************************************************************************)
EXTENDS Naturals, Sequences, FiniteSets

CONSTANTS
  Readers, Writers,  \* processes with the read end and with the write end open
  Bytes, NoByte,
  PIPESIZE,
  UMOD,     \* nread and nwrite are unsigned ints: 2^32 in the code
  MaxN,     \* bound: the largest n of read() and write()
  Killable, \* the processes that somebody may kill()
  None      \* the owner of a free lock

Procs == Readers \cup Writers

ASSUME PipeAssumption ==
  /\ PIPESIZE \in Nat \ {0}
  /\ \E k \in 2..UMOD : UMOD = k * PIPESIZE
  /\ UMOD \in Nat /\ MaxN \in Nat
  /\ Readers \cap Writers = {}
  /\ Killable \subseteq Procs
  /\ None \notin Procs
  /\ NoByte \notin Bytes

VARIABLES
  data, nread, nwrite, readopen, writeopen,  \* struct pipe
  freed,   \* kfree(pi) was called
  lock,    \* the process that holds pi->lock
  fds,     \* the processes whose descriptor of the pipe is open
  killed,  \* p->killed
  pc,
  n,       \* the number of bytes still to copy: n - i of the code
  ch       \* the byte piperead() took last

pipeVars == <<data, nread, nwrite, readopen, writeopen, freed>>
vars == <<data, nread, nwrite, readopen, writeopen, freed, lock, fds, killed, pc, n, ch>>

\* pipealloc()
Init ==
  /\ data \in [0..(PIPESIZE - 1) -> {NoByte}]
  /\ nread = 0 /\ nwrite = 0
  /\ readopen = TRUE /\ writeopen = TRUE
  /\ freed = FALSE
  /\ lock = None
  /\ fds = Procs
  /\ killed = [p \in Procs |-> FALSE]
  /\ pc = [p \in Procs |-> "user"]
  /\ n = [p \in Procs |-> 0]
  /\ ch = NoByte

Empty == nread = nwrite
\* Mutant: the ring is taken to have one more place.
FullLate == nwrite = (nread + PIPESIZE + 1) % UMOD

Full == nwrite = (nread + PIPESIZE) % UMOD

\* wakeup() of the readers or of the writers, applied to the program counters pcs
wakeup(pcs, asleep, again) == [q \in Procs |-> IF pcs[q] = asleep THEN again ELSE pcs[q]]
WakeReaders(pcs) == wakeup(pcs, "r_asleep", "r_lock")
WakeWriters(pcs) == wakeup(pcs, "w_asleep", "w_lock")

\* acquire(&pi->lock)
acquire(p, from, to) ==
  /\ pc[p] = from
  /\ lock = None
  /\ lock' = p
  /\ pc' = [pc EXCEPT ![p] = to]
  /\ UNCHANGED <<pipeVars, fds, killed, n, ch>>

\* sleep(chan, &pi->lock) after the tests of the loop
sleep(p, from, to) ==
  /\ pc[p] = from
  /\ lock' = None
  /\ pc' = [pc EXCEPT ![p] = to]
  /\ UNCHANGED <<pipeVars, fds, killed, n, ch>>

-----------------------------------------------------------------------------
\* a system call that reaches pipewrite() or piperead()
syscall(p, k) ==
  /\ pc[p] = "user"
  /\ p \in fds
  /\ ~killed[p]
  /\ n' = [n EXCEPT ![p] = k]
  /\ pc' = [pc EXCEPT ![p] = IF p \in Writers THEN "w_lock" ELSE "r_lock"]
  /\ UNCHANGED <<pipeVars, lock, fds, killed, ch>>

\* pipewrite() finds the pipe full
pipewrite_full(p) ==
  /\ pc[p] = "w_loop"
  /\ n[p] > 0
  /\ Full
  /\ IF ~readopen \/ killed[p]
     THEN /\ lock' = None
          /\ pc' = [pc EXCEPT ![p] = "user"]
          /\ n' = [n EXCEPT ![p] = 0]
     ELSE /\ pc' = WakeReaders([pc EXCEPT ![p] = "w_sleep"])
          /\ UNCHANGED <<lock, n>>
  /\ UNCHANGED <<pipeVars, fds, killed, ch>>

\* pipewrite() copies a byte into the pipe ...
pipewrite(p, v) ==
  /\ pc[p] = "w_loop"
  /\ n[p] > 0
  /\ ~Full
  /\ data' = [data EXCEPT ![nwrite % PIPESIZE] = v]
  /\ nwrite' = (nwrite + 1) % UMOD
  /\ n' = [n EXCEPT ![p] = @ - 1]
  /\ UNCHANGED <<nread, readopen, writeopen, freed, lock, fds, killed, pc, ch>>

\* ... or cannot read it from the user's memory
pipewrite_fault(p) ==
  /\ pc[p] = "w_loop"
  /\ n[p] > 0
  /\ ~Full
  /\ n' = [n EXCEPT ![p] = 0]
  /\ UNCHANGED <<pipeVars, lock, fds, killed, pc, ch>>

pipewrite_end(p) ==
  /\ pc[p] = "w_loop"
  /\ n[p] = 0
  /\ pc' = WakeReaders([pc EXCEPT ![p] = "user"])
  /\ lock' = None
  /\ UNCHANGED <<pipeVars, fds, killed, n, ch>>

-----------------------------------------------------------------------------
\* piperead() finds the pipe empty and a writer left ...
piperead_empty(p) ==
  /\ pc[p] = "r_loop"
  /\ Empty /\ writeopen
  /\ IF killed[p]
     THEN /\ lock' = None
          /\ pc' = [pc EXCEPT ![p] = "user"]
          /\ n' = [n EXCEPT ![p] = 0]
     ELSE /\ pc' = [pc EXCEPT ![p] = "r_sleep"]
          /\ UNCHANGED <<lock, n>>
  /\ UNCHANGED <<pipeVars, fds, killed, ch>>

\* ... or has something to return, if only the end of the file
piperead_begin(p) ==
  /\ pc[p] = "r_loop"
  /\ ~(Empty /\ writeopen)
  /\ pc' = [pc EXCEPT ![p] = "r_copy"]
  /\ UNCHANGED <<pipeVars, lock, fds, killed, n, ch>>

\* piperead() takes a byte; when copyout() to the user fails the byte is gone all the same
piperead(p) ==
  /\ pc[p] = "r_copy"
  /\ n[p] > 0
  /\ ~Empty
  /\ ch' = data[nread % PIPESIZE]
  /\ nread' = (nread + 1) % UMOD
  /\ \E rest \in {n[p] - 1, 0} : n' = [n EXCEPT ![p] = rest]
  /\ UNCHANGED <<data, nwrite, readopen, writeopen, freed, lock, fds, killed, pc>>

\* Mutant: piperead() does not wake the writers.
piperead_end_silent(p) ==
  /\ pc[p] = "r_copy"
  /\ n[p] = 0 \/ Empty
  /\ pc' = [pc EXCEPT ![p] = "user"]
  /\ lock' = None
  /\ n' = [n EXCEPT ![p] = 0]
  /\ UNCHANGED <<pipeVars, fds, killed, ch>>

piperead_end(p) ==
  /\ pc[p] = "r_copy"
  /\ n[p] = 0 \/ Empty
  /\ pc' = WakeWriters([pc EXCEPT ![p] = "user"])
  /\ lock' = None
  /\ n' = [n EXCEPT ![p] = 0]
  /\ UNCHANGED <<pipeVars, fds, killed, ch>>

-----------------------------------------------------------------------------
\* the processes that have the same end open as p
End(p) == IF p \in Writers THEN Writers ELSE Readers

\* Mutant: every close() of a descriptor closes the pipe, whatever f->ref is.
fileclose_uncounted(p) ==
  /\ pc[p] = "user"
  /\ p \in fds
  /\ fds' = fds \ {p}
  /\ pc' = [pc EXCEPT ![p] = "close"]
  /\ UNCHANGED <<pipeVars, lock, killed, n, ch>>

\* fileclose(): the last reference to an end of the pipe calls pipeclose()
fileclose(p) ==
  /\ pc[p] = "user"
  /\ p \in fds
  /\ fds' = fds \ {p}
  /\ pc' = [pc EXCEPT ![p] = IF fds \cap End(p) = {p} THEN "close" ELSE @]
  /\ UNCHANGED <<pipeVars, lock, killed, n, ch>>

pipeclose(p) ==
  /\ pc[p] = "close"
  /\ lock = None
  /\ writeopen' = (writeopen /\ p \notin Writers)
  /\ readopen' = (readopen /\ p \notin Readers)
  /\ LET pcs == [pc EXCEPT ![p] = IF readopen' \/ writeopen' THEN "user" ELSE "kfree"]
     IN  pc' = IF p \in Writers THEN WakeReaders(pcs) ELSE WakeWriters(pcs)
  /\ UNCHANGED <<data, nread, nwrite, freed, lock, fds, killed, n, ch>>

pipeclose_free(p) ==
  /\ pc[p] = "kfree"
  /\ freed' = TRUE
  /\ pc' = [pc EXCEPT ![p] = "user"]
  /\ UNCHANGED <<data, nread, nwrite, readopen, writeopen, lock, fds, killed, n, ch>>

\* kill() from some other process: it makes the victim runnable if it is asleep now
kill(p) ==
  /\ p \in Killable
  /\ ~killed[p]
  /\ killed' = [killed EXCEPT ![p] = TRUE]
  /\ pc' = [pc EXCEPT ![p] = CASE @ = "r_asleep" -> "r_lock"
                               [] @ = "w_asleep" -> "w_lock"
                               [] OTHER -> @]
  /\ UNCHANGED <<pipeVars, lock, fds, n, ch>>

-----------------------------------------------------------------------------
Writing(p) ==
  \/ acquire(p, "w_lock", "w_loop") \/ sleep(p, "w_sleep", "w_asleep")
  \/ pipewrite_full(p) \/ pipewrite_fault(p) \/ pipewrite_end(p)
  \/ \E v \in Bytes : pipewrite(p, v)

Reading(p) ==
  \/ acquire(p, "r_lock", "r_loop") \/ sleep(p, "r_sleep", "r_asleep")
  \/ piperead_empty(p) \/ piperead_begin(p) \/ piperead(p) \/ piperead_end(p)

Closing(p) == pipeclose(p) \/ pipeclose_free(p)

Next ==
  \E p \in Procs :
     \/ Writing(p) \/ Reading(p) \/ Closing(p)
     \/ \E k \in 0..MaxN : syscall(p, k)
     \/ fileclose(p)
     \/ kill(p)

Spec == Init /\ [][Next]_vars

\* A call that has been made is executed as far as locks and sleep() allow.  Whether a
\* process makes a call or closes its descriptor is up to it.
Fairness == \A p \in Procs : WF_vars(Writing(p)) /\ WF_vars(Reading(p)) /\ WF_vars(Closing(p))

FairSpec == Spec /\ Fairness

-----------------------------------------------------------------------------
(***************************************************************************)
(* Properties.                                                             *)
(***************************************************************************)
\* TYPE INVARIANT: struct pipe and its users.
TypeOK ==
  /\ data \in [0..(PIPESIZE - 1) -> Bytes \cup {NoByte}]
  /\ nread \in 0..(UMOD - 1)
  /\ nwrite \in 0..(UMOD - 1)
  /\ {readopen, writeopen, freed} \subseteq BOOLEAN
  /\ lock \in Procs \cup {None}
  /\ fds \subseteq Procs
  /\ killed \in [Procs -> BOOLEAN]
  /\ pc \in [Procs -> {"user", "w_lock", "w_loop", "w_sleep", "w_asleep", "r_lock", "r_loop",
                       "r_copy", "r_sleep", "r_asleep", "close", "kfree"}]
  /\ n \in [Procs -> 0..MaxN]
  /\ ch \in Bytes \cup {NoByte}

\* the bytes between nread and nwrite, in the order of the ring
Queue == [k \in 1..((nwrite + UMOD - nread) % UMOD) |-> data[(nread + k - 1) % PIPESIZE]]

\* REFINEMENT: through the wrapping of the ring and of the unsigned counters, and however
\* readers and writers are interleaved, bytes come out once each and in order.
PipeFifo == INSTANCE Fifo WITH queue <- Queue, out <- ch, Capacity <- PIPESIZE
FifoSpec == PipeFifo!Spec

\* SAFETY: when nobody is in a critical section, a reader sleeps only on an empty pipe that
\* can still be written ("pipe-empty", pipe.c:96), and a writer only on a full pipe that
\* can still be read ("pipewrite-full", pipe.c:74): no read(), write() and close(), in any
\* order, leave somebody asleep with work to do.
SleepersHaveReason ==
  lock = None =>
     \A p \in Procs : /\ pc[p] = "r_asleep" => Empty /\ writeopen
                      /\ pc[p] = "w_asleep" => Full /\ readopen

\* SAFETY: the page of the pipe is freed only when no descriptor refers to it and nobody is
\* in pipe.c, and by one process only.
FreedOnce ==
  /\ TypeOK
  /\ freed => fds = {} /\ \A p \in Procs : pc[p] = "user"
  /\ Cardinality({p \in Procs : pc[p] = "kfree"}) <= 1

\* SAFETY: a process that was killed is not left asleep in the pipe: kill() wakes it and the
\* loops of piperead() and pipewrite() see pr->killed.
KilledNotAsleep == \A p \in Procs : pc[p] \in {"r_asleep", "w_asleep"} => ~killed[p]

\* LIVENESS: once the write end is closed every read() returns.
ReadersSeeEOF == \A p \in Readers : (~writeopen /\ pc[p] # "user") ~> pc[p] = "user"

\* LIVENESS: once the read end is closed every write() returns.
WritersSeeClose == \A p \in Writers : (~readopen /\ pc[p] # "user") ~> pc[p] = "user"

=============================================================================
