-------------------------------- MODULE Sched --------------------------------
(***************************************************************************)
(* CPUs, the per-CPU scheduler() and the sleep/wakeup protocol of          *)
(* kernel/proc.c.  p->lock is taken on one side of swtch() and released on *)
(* the other; sleep(chan, lk) trades the caller's lock lk for p->lock.     *)
(*                                                                         *)
(* The callers of sleep() and wakeup() all have the form                   *)
(*    acquire(lk); while(!cond) sleep(chan, lk); cond = 0; release(lk)     *)
(*    acquire(lk); cond = 1; wakeup(chan); release(lk)                     *)
(* (pipes, sleep-locks, the log, the disk, the clock), with one lock and   *)
(* one channel per condition; one such condition is modelled.  Several     *)
(* CPUs run at once; a step that acquires a lock waits until it is free.   *)
(***************************************************************************)
EXTENDS Naturals

CONSTANTS
  NPROC,   \* processes
  CPUs,    \* harts
  boot,    \* the hart that boots the others, hart 0
  None     \* no CPU: a lock is free; no process: a CPU runs its scheduler

Procs == 1..NPROC

ASSUME SchedAssumption ==
  /\ NPROC \in Nat \ {0}
  /\ boot \in CPUs
  /\ None \notin CPUs
  /\ None \notin Procs

VARIABLES
  online,  \* the harts that have left main()
  state,   \* p->state
  plock,   \* the CPU that holds p->lock
  lk,      \* the CPU that holds the lock given to sleep()
  cond,    \* what the sleepers wait for
  cpu,     \* c->proc
  scan,    \* the loop variable of scheduler() on each CPU
  pc,      \* where p's kernel thread is, or where it resumes
  wi       \* the loop variable of wakeup() in each thread

vars == <<online, state, plock, lk, cond, cpu, scan, pc, wi>>

Init ==
  /\ online = {boot}
  /\ state = [p \in Procs |-> "RUNNABLE"]
  /\ plock = [p \in Procs |-> None]
  /\ lk = None
  /\ cond = FALSE
  /\ cpu = [c \in CPUs |-> None]
  /\ scan = [c \in CPUs |-> 1]
  /\ pc = [p \in Procs |-> "forkret"]
  /\ wi = [p \in Procs |-> 1]

\* CPU c executes process p, which is at the given place
On(c, p, label) == cpu[c] = p /\ pc[p] = label /\ state[p] = "RUNNING"

Goto(p, label) == pc' = [pc EXCEPT ![p] = label]

NextScan(c) == scan' = [scan EXCEPT ![c] = IF @ = NPROC THEN 1 ELSE @ + 1]

-----------------------------------------------------------------------------
\* main() of another hart has seen started, which the boot hart sets last
main(c) ==
  /\ c \notin online
  /\ online' = online \cup {c}
  /\ UNCHANGED <<state, plock, lk, cond, cpu, scan, pc, wi>>

\* scheduler() switches to process scan[c] if it is RUNNABLE, p->lock stays held, ...
scheduler(c) ==
  /\ cpu[c] = None
  /\ plock[scan[c]] = None
  /\ IF state[scan[c]] = "RUNNABLE"
     THEN /\ state' = [state EXCEPT ![scan[c]] = "RUNNING"]
          /\ plock' = [plock EXCEPT ![scan[c]] = c]
          /\ cpu' = [cpu EXCEPT ![c] = scan[c]]
          /\ UNCHANGED scan
     ELSE /\ NextScan(c)
          /\ UNCHANGED <<state, plock, cpu>>
  /\ UNCHANGED <<lk, cond, pc, wi>>

\* Mutant: after each switch the scan of proc[] starts from the first slot again.
swtch_back_restart(c, p) ==
  /\ cpu[c] = p
  /\ state[p] # "RUNNING"
  /\ plock[p] = c
  /\ cpu' = [cpu EXCEPT ![c] = None]
  /\ plock' = [plock EXCEPT ![p] = None]
  /\ scan' = [scan EXCEPT ![c] = 1]
  /\ UNCHANGED <<state, lk, cond, pc, wi>>

\* ... and releases p->lock when sched() of the process has switched back to it.
swtch_back(c, p) ==
  /\ cpu[c] = p
  /\ state[p] # "RUNNING"
  /\ plock[p] = c
  /\ cpu' = [cpu EXCEPT ![c] = None]
  /\ plock' = [plock EXCEPT ![p] = None]
  /\ NextScan(c)
  /\ UNCHANGED <<state, lk, cond, pc, wi>>

\* forkret() and the end of yield(): release the lock that the scheduler took
resume(c, p) ==
  /\ On(c, p, "forkret") \/ On(c, p, "yield")
  /\ plock' = [plock EXCEPT ![p] = None]
  /\ Goto(p, "run")
  /\ UNCHANGED <<state, lk, cond, cpu, scan, wi>>

\* Mutant: yield() becomes RUNNABLE without p->lock.
yield_unlocked(c, p) ==
  /\ On(c, p, "run")
  /\ state' = [state EXCEPT ![p] = "RUNNABLE"]
  /\ Goto(p, "yield")
  /\ UNCHANGED <<plock, lk, cond, cpu, scan, wi>>

\* yield(), from a timer interrupt: the thread holds no lock then
yield(c, p) ==
  /\ On(c, p, "run")
  /\ plock[p] = None
  /\ plock' = [plock EXCEPT ![p] = c]
  /\ state' = [state EXCEPT ![p] = "RUNNABLE"]
  /\ Goto(p, "yield")
  /\ UNCHANGED <<lk, cond, cpu, scan, wi>>

-----------------------------------------------------------------------------
\* a thread that has to wait for the condition: it acquires lk ...
wait_acquire(c, p) ==
  /\ On(c, p, "run") \/ On(c, p, "reacquire")
  /\ lk = None
  /\ lk' = c
  /\ Goto(p, "test")
  /\ UNCHANGED <<state, plock, cond, cpu, scan, wi>>

\* ... finds the condition true, uses it up and releases lk ...
wait_done(c, p) ==
  /\ On(c, p, "test")
  /\ cond
  /\ cond' = FALSE
  /\ lk' = None
  /\ Goto(p, "run")
  /\ UNCHANGED <<state, plock, cpu, scan, wi>>

\* Mutant: sleep() releases lk without having p->lock.
sleep_lock_missing(c, p) ==
  /\ On(c, p, "test")
  /\ ~cond
  /\ lk' = None
  /\ Goto(p, "sleep")
  /\ UNCHANGED <<state, plock, cond, cpu, scan, wi>>

\* ... or finds it false and calls sleep(), which acquires p->lock first, ...
sleep_lock(c, p) ==
  /\ On(c, p, "test")
  /\ ~cond
  /\ plock[p] = None
  /\ plock' = [plock EXCEPT ![p] = c]
  /\ Goto(p, "sleep_release")
  /\ UNCHANGED <<state, lk, cond, cpu, scan, wi>>

\* ... then releases lk ...
sleep_release(c, p) ==
  /\ On(c, p, "sleep_release")
  /\ lk' = None
  /\ Goto(p, "sleep")
  /\ UNCHANGED <<state, plock, cond, cpu, scan, wi>>

\* ... and goes to sleep.
sleep(c, p) ==
  /\ On(c, p, "sleep")
  /\ state' = [state EXCEPT ![p] = "SLEEPING"]
  /\ Goto(p, "slept")
  /\ UNCHANGED <<plock, lk, cond, cpu, scan, wi>>

\* The end of sleep(): release p->lock, then reacquire lk.
sleep_return(c, p) ==
  /\ On(c, p, "slept")
  /\ plock' = [plock EXCEPT ![p] = None]
  /\ Goto(p, "reacquire")
  /\ UNCHANGED <<state, lk, cond, cpu, scan, wi>>

-----------------------------------------------------------------------------
\* a thread that makes the condition true and calls wakeup() ...
signal(c, p) ==
  /\ On(c, p, "run")
  /\ lk = None
  /\ lk' = c
  /\ cond' = TRUE
  /\ wi' = [wi EXCEPT ![p] = 1]
  /\ Goto(p, "wakeup")
  /\ UNCHANGED <<state, plock, cpu, scan>>

\* q, whose lock is free, becomes RUNNABLE if it sleeps
Rouse(q) == IF state[q] = "SLEEPING" THEN [state EXCEPT ![q] = "RUNNABLE"] ELSE state

\* ... which looks at every process, its own one too, under the process' lock.
wakeup(c, p) ==
  /\ On(c, p, "wakeup")
  /\ plock[wi[p]] = None
  /\ state' = Rouse(wi[p])
  /\ IF wi[p] = NPROC
     THEN /\ lk' = None
          /\ Goto(p, "run")
          /\ UNCHANGED wi
     ELSE /\ wi' = [wi EXCEPT ![p] = @ + 1]
          /\ UNCHANGED <<lk, pc>>
  /\ UNCHANGED <<plock, cond, cpu, scan>>

\* kill() of process q: q's wait loop finds out for itself why it runs
kill(c, p, q) ==
  /\ On(c, p, "run")
  /\ plock[q] = None
  /\ state' = Rouse(q)
  /\ UNCHANGED <<plock, lk, cond, cpu, scan, pc, wi>>

-----------------------------------------------------------------------------
Thread(c, p) ==
  \/ swtch_back(c, p) \/ resume(c, p)
  \/ wait_done(c, p) \/ sleep_lock(c, p) \/ sleep_release(c, p) \/ sleep(c, p)
  \/ sleep_return(c, p) \/ wakeup(c, p)
  \/ (pc[p] = "reacquire" /\ wait_acquire(c, p))

Step(c) ==
  \/ scheduler(c)
  \/ \E p \in Procs :
       \/ Thread(c, p) \/ yield(c, p) \/ wait_acquire(c, p) \/ signal(c, p)
       \/ \E q \in Procs : kill(c, p, q)

Next ==
  \/ \E c \in CPUs : main(c)
  \/ \E c \in online : Step(c) /\ UNCHANGED online

Spec == Init /\ [][Next]_vars

\* The boot hart executes its instructions.  A timer interrupt stays pending while a lock is
\* held (interrupts are off) and is taken when the thread holds none, hence SF.
Fairness ==
  /\ WF_vars(scheduler(boot) /\ UNCHANGED online)
  /\ \A p \in Procs : /\ WF_vars(Thread(boot, p) /\ UNCHANGED online)
                      /\ SF_vars(yield(boot, p) /\ UNCHANGED online)

FairSpec == Spec /\ Fairness

-----------------------------------------------------------------------------
(***************************************************************************)
(* Properties.                                                             *)
(***************************************************************************)
\* TYPE INVARIANT: process states, lock owners, and what each CPU runs.
TypeOK ==
  /\ boot \in online /\ online \subseteq CPUs
  /\ state \in [Procs -> {"RUNNABLE", "RUNNING", "SLEEPING"}]
  /\ plock \in [Procs -> CPUs \cup {None}]
  /\ lk \in CPUs \cup {None}
  /\ cond \in BOOLEAN
  /\ cpu \in [CPUs -> Procs \cup {None}]
  /\ scan \in [CPUs -> Procs]
  /\ pc \in [Procs -> {"forkret", "yield", "run", "test", "sleep_release", "sleep", "slept",
                       "reacquire", "wakeup"}]
  /\ wi \in [Procs -> Procs]

\* whoever can lock a process that is not RUNNING finds it off every CPU, with its
\* context saved: the scheduler holds p->lock until swtch() is complete
SavedBeforeUnlocked ==
  \A p \in Procs : plock[p] = None /\ state[p] # "RUNNING" => \A c \in CPUs : cpu[c] # p

\* SAFETY: no process, hence no kernel stack, is executed by two CPUs at once, and a
\* process that is given away has been left by its CPU.
OneCPU ==
  /\ TypeOK
  /\ SavedBeforeUnlocked
  /\ \A c, d \in CPUs : cpu[c] # None /\ cpu[c] = cpu[d] => c = d

\* SAFETY: nobody sleeps while the condition holds, unless a wakeup() that will still reach
\* the sleeper is under way ("we can be guaranteed that we won't miss any wakeup",
\* proc.c:508).
NoLostWakeup ==
  \A p \in Procs :
     state[p] = "SLEEPING" /\ cond =>
        \E q \in Procs : state[q] = "RUNNING" /\ pc[q] = "wakeup" /\ wi[q] <= p

\* LIVENESS: the round-robin scan of proc[] starves no runnable process, and a sleeper
\* whose condition has become true is made runnable; as long as one hart runs, since
\* the spin-locks are not fair to several.
RunnableRuns ==
  \A p \in Procs :
     /\ (state[p] = "RUNNABLE" /\ online = {boot}) ~> (state[p] = "RUNNING" \/ online # {boot})
     /\ (state[p] = "SLEEPING" /\ cond /\ online = {boot})
          ~> (state[p] # "SLEEPING" \/ online # {boot})

=============================================================================
