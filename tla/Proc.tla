-------------------------------- MODULE Proc --------------------------------
(***************************************************************************)
(* The process table of kernel/proc.c: fork(), exit(), wait() and kill(),  *)
(* at the granularity of p->lock.  A step that acquires a lock is enabled  *)
(* when the lock is free; straight-line code under a lock that nobody else *)
(* looks at meanwhile is one step.                                         *)
(*                                                                         *)
(* There is a CPU for every process, and preemption is left out: the code  *)
(* modelled here tests for SLEEPING, ZOMBIE and UNUSED only, so a process  *)
(* that was preempted is one that does not take its next step.  Module     *)
(* Sched models the CPUs.  wait() is the only place here where a process   *)
(* sleeps.                                                                 *)
(***************************************************************************)
EXTENDS Naturals, FiniteSets, FiniteSetsExt

CONSTANTS
  NPROC,       \* slots of proc[]
  MaxPid,      \* bound: no fork() once nextpid has passed it, and one pid less after a
               \* kill(); no kill() once nextpid has reached it
  InitPids,    \* bound: the values of nextpid at which init forks
  KillPids,    \* the arguments given to kill()
  AllocFails   \* TRUE if kalloc() may fail in fork()

ASSUME ProcAssumption ==
  /\ NPROC \in Nat \ {0}
  /\ MaxPid \in Nat
  /\ InitPids \subseteq Nat
  /\ KillPids \subseteq Nat \ {1}
  /\ AllocFails \in BOOLEAN

Slots == 1..NPROC
initproc == 1
None == 0      \* a null pointer, and the owner of a free lock

VARIABLES
  state,     \* p->state
  parent,    \* p->parent
  pid,       \* p->pid
  killed,    \* p->killed
  lock,      \* the process whose kernel thread holds p->lock, or None
  nextpid,
  stack,     \* some CPU is using p's kernel stack
  pc,        \* where p's kernel thread is
  i,         \* the loop variable of allocproc(), reparent() and wait()
  original_parent,
  havekids,
  victims    \* history: the arguments kill() has been called with

procVars == <<state, parent, pid, killed>>
vars == <<state, parent, pid, killed, lock, nextpid, stack, pc, i,
          original_parent, havekids, victims>>

States == {"UNUSED", "SLEEPING", "RUNNABLE", "RUNNING", "ZOMBIE"}

Init ==
  /\ state = [p \in Slots |-> IF p = initproc THEN "RUNNABLE" ELSE "UNUSED"]
  /\ parent = [p \in Slots |-> None]
  /\ pid = [p \in Slots |-> IF p = initproc THEN 1 ELSE 0]
  /\ killed = [p \in Slots |-> FALSE]
  /\ lock = [p \in Slots |-> None]
  /\ nextpid = 2
  /\ stack = [p \in Slots |-> FALSE]
  /\ pc = [p \in Slots |-> "user"]
  /\ i = [p \in Slots |-> 1]
  /\ original_parent = [p \in Slots |-> None]
  /\ havekids = [p \in Slots |-> FALSE]
  /\ victims = {}

At(p, label) == state[p] = "RUNNING" /\ pc[p] = label

\* wakeup1(p), applied to the states st: p is asleep in wait() if it is asleep at all
wakeup1(st, p) == IF st[p] = "SLEEPING" THEN [st EXCEPT ![p] = "RUNNABLE"] ELSE st

\* The first slot from j on whose parent field is p, or NPROC + 1.  The scans read the
\* field without the lock of the slot; unless p is init they need no step per slot, because
\* only p's own steps make the field p or change it from p (CheckedParentStable).
NextChild(p, j) == Min({k \in j..NPROC : parent[k] = p} \cup {NPROC + 1})

\* usertrap(): a process that is not killed makes a system call; a killed one exits, and so
\* does one whose trap is a fault.  user/init.c never calls exit() while it has children,
\* and it forks again only when the first process it forked, sh with pid 2, is gone.
usertrap(p, call) ==
  /\ At(p, "user")
  /\ killed[p] => call = "exit"
  /\ p = initproc => call # "exit"
  /\ p = initproc /\ call = "allocproc" =>
        /\ nextpid \in InitPids
        /\ \A q \in Slots : pid[q] = 2 => state[q] = "UNUSED"
  /\ call = "allocproc" => nextpid < MaxPid \/ (nextpid = MaxPid /\ victims = {})
  /\ pc' = [pc EXCEPT ![p] = call]
  /\ i' = [i EXCEPT ![p] = 1]
  /\ UNCHANGED <<procVars, lock, nextpid, stack, original_parent, havekids, victims>>

\* allocproc() finds slot i[p] in use; at the end of the table fork() returns -1
alloc_skip(p) ==
  /\ At(p, "allocproc")
  /\ lock[i[p]] = None
  /\ state[i[p]] # "UNUSED"
  /\ i' = [i EXCEPT ![p] = IF @ = NPROC THEN 1 ELSE @ + 1]
  /\ pc' = [pc EXCEPT ![p] = IF i[p] = NPROC THEN "user" ELSE @]
  /\ UNCHANGED <<procVars, lock, nextpid, stack, original_parent, havekids, victims>>

\* allocproc() has found slot i[p] and takes a pid for it; it holds the slot's lock
\* until fork() is done with the slot.
found(p) ==
  /\ At(p, "allocproc")
  /\ lock[i[p]] = None
  /\ state[i[p]] = "UNUSED"
  /\ nextpid' = nextpid + 1
  /\ pc' = [pc EXCEPT ![p] = "user"]
  /\ i' = [i EXCEPT ![p] = 1]
  /\ UNCHANGED <<lock, stack, original_parent, havekids, victims>>

fork(p) ==
  /\ found(p)
  /\ pid' = [pid EXCEPT ![i[p]] = nextpid]
  /\ parent' = [parent EXCEPT ![i[p]] = p]
  /\ state' = [state EXCEPT ![i[p]] = "RUNNABLE"]
  /\ UNCHANGED killed

\* kalloc() of the trapframe fails: allocproc() returns with the new pid in the slot
fork_no_trapframe(p) ==
  /\ AllocFails
  /\ found(p)
  /\ pid' = [pid EXCEPT ![i[p]] = nextpid]
  /\ UNCHANGED <<state, parent, killed>>

\* no memory for the page table or for the copy of user memory: freeproc() cleans up
fork_no_memory(p) ==
  /\ AllocFails
  /\ found(p)
  /\ pid' = [pid EXCEPT ![i[p]] = 0]
  /\ parent' = [parent EXCEPT ![i[p]] = None]
  /\ killed' = [killed EXCEPT ![i[p]] = FALSE]
  /\ UNCHANGED state

-----------------------------------------------------------------------------
\* The scheduler of some CPU chooses p.  A process that slept in wait() goes on there,
\* with p->lock still held; any other one starts by releasing it.
scheduler(p) ==
  /\ state[p] = "RUNNABLE"
  /\ lock[p] = None
  /\ state' = [state EXCEPT ![p] = "RUNNING"]
  /\ stack' = [stack EXCEPT ![p] = TRUE]
  /\ IF pc[p] = "wait_sleep"
     THEN /\ lock' = [lock EXCEPT ![p] = p]
          /\ pc' = [pc EXCEPT ![p] = "wait_scan"]
          /\ i' = [i EXCEPT ![p] = 1]
     ELSE UNCHANGED <<lock, pc, i>>
  /\ UNCHANGED <<parent, pid, killed, nextpid, original_parent, havekids, victims>>

\* sched() has left p's stack: the scheduler releases the lock of a process that exited
sched(p) ==
  /\ pc[p] = "sched"
  /\ lock' = [lock EXCEPT ![p] = None]
  /\ stack' = [stack EXCEPT ![p] = FALSE]
  /\ pc' = [pc EXCEPT ![p] = "user"]
  /\ UNCHANGED <<procVars, nextpid, i, original_parent, havekids, victims>>

-----------------------------------------------------------------------------
\* exit(), after it has closed the files: wake init, just in case
exit_wakes_init(p) ==
  /\ At(p, "exit")
  /\ lock[initproc] = None
  /\ state' = wakeup1(state, initproc)
  /\ pc' = [pc EXCEPT ![p] = "exit_parent"]
  /\ UNCHANGED <<parent, pid, killed, lock, nextpid, stack, i, original_parent, havekids, victims>>

\* Mutant: exit() keeps p->lock after it has read p->parent.
exit_parent_keeps_lock(p) ==
  /\ At(p, "exit_parent")
  /\ lock[p] = None
  /\ lock' = [lock EXCEPT ![p] = p]
  /\ original_parent' = [original_parent EXCEPT ![p] = parent[p]]
  /\ pc' = [pc EXCEPT ![p] = "exit_lock_parent"]
  /\ UNCHANGED <<procVars, nextpid, stack, i, havekids, victims>>

exit_parent(p) ==
  /\ At(p, "exit_parent")
  /\ lock[p] = None
  /\ original_parent' = [original_parent EXCEPT ![p] = parent[p]]
  /\ pc' = [pc EXCEPT ![p] = "exit_lock_parent"]
  /\ UNCHANGED <<procVars, lock, nextpid, stack, i, havekids, victims>>

exit_lock_parent(p) ==
  /\ At(p, "exit_lock_parent")
  /\ lock[original_parent[p]] = None
  /\ lock' = [lock EXCEPT ![original_parent[p]] = p]
  /\ pc' = [pc EXCEPT ![p] = "exit_lock_self"]
  /\ UNCHANGED <<procVars, nextpid, stack, i, original_parent, havekids, victims>>

\* Mutant: reparent() starts at p's own slot, as if children had later slots.
exit_lock_self_late(p) ==
  /\ At(p, "exit_lock_self")
  /\ lock[p] = None
  /\ lock' = [lock EXCEPT ![p] = p]
  /\ pc' = [pc EXCEPT ![p] = "reparent"]
  /\ i' = [i EXCEPT ![p] = p]
  /\ UNCHANGED <<procVars, nextpid, stack, original_parent, havekids, victims>>

exit_lock_self(p) ==
  /\ At(p, "exit_lock_self")
  /\ lock[p] = None
  /\ lock' = [lock EXCEPT ![p] = p]
  /\ pc' = [pc EXCEPT ![p] = "reparent"]
  /\ i' = [i EXCEPT ![p] = 1]
  /\ UNCHANGED <<procVars, nextpid, stack, original_parent, havekids, victims>>

\* reparent() looks for the next child
reparent_scan(p) ==
  /\ At(p, "reparent")
  /\ LET k == NextChild(p, i[p]) IN
     /\ i' = [i EXCEPT ![p] = IF k > NPROC THEN 1 ELSE k]
     /\ pc' = [pc EXCEPT ![p] = IF k > NPROC THEN "exit_zombie" ELSE "reparent_lock"]
  /\ UNCHANGED <<procVars, lock, nextpid, stack, original_parent, havekids, victims>>

\* reparent() locks the child it has found and gives it to init; the field is not p any
\* more, so the scan goes on from the same slot
reparent(p) ==
  /\ At(p, "reparent_lock")
  /\ lock[i[p]] = None
  /\ parent' = [parent EXCEPT ![i[p]] = initproc]
  /\ pc' = [pc EXCEPT ![p] = "reparent"]
  /\ UNCHANGED <<state, pid, killed, lock, nextpid, stack, i, original_parent, havekids, victims>>

\* Mutant: exit() does not wake its parent.
exit_zombie_silent(p) ==
  /\ At(p, "exit_zombie")
  /\ state' = [state EXCEPT ![p] = "ZOMBIE"]
  /\ lock' = [lock EXCEPT ![original_parent[p]] = None]
  /\ pc' = [pc EXCEPT ![p] = "sched"]
  /\ original_parent' = [original_parent EXCEPT ![p] = None]
  /\ UNCHANGED <<parent, pid, killed, nextpid, stack, i, havekids, victims>>

\* Mutant: exit() releases p->lock itself, before it leaves its stack.
exit_zombie_unlocked(p) ==
  /\ At(p, "exit_zombie")
  /\ state' = [wakeup1(state, original_parent[p]) EXCEPT ![p] = "ZOMBIE"]
  /\ lock' = [lock EXCEPT ![original_parent[p]] = None, ![p] = None]
  /\ pc' = [pc EXCEPT ![p] = "sched"]
  /\ original_parent' = [original_parent EXCEPT ![p] = None]
  /\ UNCHANGED <<parent, pid, killed, nextpid, stack, i, havekids, victims>>

\* the end of exit(): p->lock stays held until the scheduler is off p's stack
exit_zombie(p) ==
  /\ At(p, "exit_zombie")
  /\ state' = [wakeup1(state, original_parent[p]) EXCEPT ![p] = "ZOMBIE"]
  /\ lock' = [lock EXCEPT ![original_parent[p]] = None]
  /\ pc' = [pc EXCEPT ![p] = "sched"]
  /\ original_parent' = [original_parent EXCEPT ![p] = None]
  /\ UNCHANGED <<parent, pid, killed, nextpid, stack, i, havekids, victims>>

-----------------------------------------------------------------------------
wait(p) ==
  /\ At(p, "wait")
  /\ lock[p] = None
  /\ lock' = [lock EXCEPT ![p] = p]
  /\ pc' = [pc EXCEPT ![p] = "wait_scan"]
  /\ i' = [i EXCEPT ![p] = 1]
  /\ UNCHANGED <<procVars, nextpid, stack, original_parent, havekids, victims>>

\* init looks at one slot at a time, since the exit() of others gives it children meanwhile
init_scan(p) ==
  /\ p = initproc
  /\ At(p, "wait_scan")
  /\ parent[i[p]] # p
  /\ i' = [i EXCEPT ![p] = IF @ = NPROC THEN 1 ELSE @ + 1]
  /\ pc' = [pc EXCEPT ![p] = IF i[p] = NPROC THEN "wait_end" ELSE @]
  /\ UNCHANGED <<procVars, lock, nextpid, stack, original_parent, havekids, victims>>

\* wait() looks for the next child; init is at one
wait_scan(p) ==
  /\ At(p, "wait_scan")
  /\ p = initproc => parent[i[p]] = p
  /\ LET k == NextChild(p, i[p]) IN
     /\ i' = [i EXCEPT ![p] = IF k > NPROC THEN 1 ELSE k]
     /\ pc' = [pc EXCEPT ![p] = IF k > NPROC THEN "wait_end" ELSE "wait_lock"]
  /\ UNCHANGED <<procVars, lock, nextpid, stack, original_parent, havekids, victims>>

\* the child in slot i[p] has not exited
wait_next(p) ==
  /\ At(p, "wait_lock")
  /\ lock[i[p]] = None
  /\ state[i[p]] # "ZOMBIE"
  /\ havekids' = [havekids EXCEPT ![p] = TRUE]
  /\ i' = [i EXCEPT ![p] = IF @ = NPROC THEN 1 ELSE @ + 1]
  /\ pc' = [pc EXCEPT ![p] = IF i[p] = NPROC THEN "wait_end" ELSE "wait_scan"]
  /\ UNCHANGED <<procVars, lock, nextpid, stack, original_parent, victims>>

\* the child in slot i[p] has exited: freeproc() it, release both locks
wait_reap(p) ==
  /\ At(p, "wait_lock")
  /\ lock[i[p]] = None
  /\ state[i[p]] = "ZOMBIE"
  /\ state' = [state EXCEPT ![i[p]] = "UNUSED"]
  /\ parent' = [parent EXCEPT ![i[p]] = None]
  /\ pid' = [pid EXCEPT ![i[p]] = 0]
  /\ killed' = [killed EXCEPT ![i[p]] = FALSE]
  /\ lock' = [lock EXCEPT ![p] = None]
  /\ havekids' = [havekids EXCEPT ![p] = FALSE]
  /\ pc' = [pc EXCEPT ![p] = "user"]
  /\ i' = [i EXCEPT ![p] = 1]
  /\ UNCHANGED <<nextpid, stack, original_parent, victims>>

\* copyout() of the exit status fails: wait() returns -1 and the child stays a zombie
wait_bad_address(p) ==
  /\ At(p, "wait_lock")
  /\ lock[i[p]] = None
  /\ state[i[p]] = "ZOMBIE"
  /\ lock' = [lock EXCEPT ![p] = None]
  /\ havekids' = [havekids EXCEPT ![p] = FALSE]
  /\ pc' = [pc EXCEPT ![p] = "user"]
  /\ i' = [i EXCEPT ![p] = 1]
  /\ UNCHANGED <<procVars, nextpid, stack, original_parent, victims>>

\* no child, or killed: wait() returns -1
wait_none(p) ==
  /\ At(p, "wait_end")
  /\ ~havekids[p] \/ killed[p]
  /\ lock' = [lock EXCEPT ![p] = None]
  /\ havekids' = [havekids EXCEPT ![p] = FALSE]
  /\ pc' = [pc EXCEPT ![p] = "user"]
  /\ UNCHANGED <<procVars, nextpid, stack, i, original_parent, victims>>

\* sleep(p, &p->lock): the scheduler releases the lock once it is off p's stack
wait_sleep(p) ==
  /\ At(p, "wait_end")
  /\ havekids[p] /\ ~killed[p]
  /\ state' = [state EXCEPT ![p] = "SLEEPING"]
  /\ lock' = [lock EXCEPT ![p] = None]
  /\ stack' = [stack EXCEPT ![p] = FALSE]
  /\ havekids' = [havekids EXCEPT ![p] = FALSE]
  /\ pc' = [pc EXCEPT ![p] = "wait_sleep"]
  /\ UNCHANGED <<parent, pid, killed, nextpid, i, original_parent, victims>>

-----------------------------------------------------------------------------
\* kill(n): the first slot with that pid, whatever its state.  The locks it takes on the
\* way there are taken one at a time and change nothing.
kill(p, n) ==
  /\ At(p, "user")
  /\ ~killed[p]
  /\ n \in KillPids
  /\ nextpid < MaxPid
  /\ \E q \in Slots :
       /\ pid[q] = n
       /\ \A k \in 1..(q - 1) : pid[k] # n
       /\ lock[q] = None
       /\ killed' = [killed EXCEPT ![q] = TRUE]
       /\ state' = IF state[q] = "SLEEPING" THEN [state EXCEPT ![q] = "RUNNABLE"] ELSE state
  /\ victims' = victims \cup {n}
  /\ UNCHANGED <<parent, pid, lock, nextpid, stack, pc, i, original_parent, havekids>>

-----------------------------------------------------------------------------
Kernel(p) ==
  \/ alloc_skip(p) \/ fork(p) \/ fork_no_trapframe(p) \/ fork_no_memory(p)
  \/ scheduler(p) \/ sched(p)
  \/ exit_wakes_init(p) \/ exit_parent(p) \/ exit_lock_parent(p) \/ exit_lock_self(p)
  \/ reparent_scan(p) \/ reparent(p) \/ exit_zombie(p)
  \/ wait(p) \/ init_scan(p) \/ wait_scan(p) \/ wait_next(p) \/ wait_reap(p) \/ wait_bad_address(p)
  \/ wait_none(p) \/ wait_sleep(p)

Next ==
  \E p \in Slots :
     \/ Kernel(p)
     \/ \E call \in {"allocproc", "wait", "exit"} : usertrap(p, call)
     \/ \E n \in KillPids : kill(p, n)

Spec == Init /\ [][Next]_vars

-----------------------------------------------------------------------------
(***************************************************************************)
(* Properties.                                                             *)
(***************************************************************************)
WaitPC == {"wait", "wait_scan", "wait_lock", "wait_end", "wait_sleep"}
ExitPC == {"exit", "exit_parent", "exit_lock_parent", "exit_lock_self",
           "reparent", "reparent_lock", "exit_zombie"}
PC == {"user", "allocproc", "sched"} \cup WaitPC \cup ExitPC

\* TYPE INVARIANT: the fields of struct proc and the local variables of its kernel thread.
TypeOK ==
  /\ state \in [Slots -> States]
  /\ parent \in [Slots -> Slots \cup {None}]
  /\ pid \in [Slots -> 0..(MaxPid + NPROC)]
  /\ killed \in [Slots -> BOOLEAN]
  /\ lock \in [Slots -> Slots \cup {None}]
  /\ nextpid \in Nat
  /\ stack \in [Slots -> BOOLEAN]
  /\ pc \in [Slots -> PC]
  /\ i \in [Slots -> Slots]
  /\ original_parent \in [Slots -> Slots \cup {None}]
  /\ havekids \in [Slots -> BOOLEAN]
  /\ victims \subseteq KillPids

\* "np->parent can't change between the check and the acquire()" (proc.c:283 and :378): the
\* field that reparent() and wait() tested without a lock still holds
CheckedParentStable ==
  \A p \in Slots : pc[p] \in {"reparent_lock", "wait_lock"} => parent[i[p]] = p

\* SAFETY: every process that exists has a parent that exists and can still wait() for it:
\* reparent() finds all the children of an exiting process, also those it is racing with,
\* although it looks at np->parent without a lock.
ParentAlive ==
  /\ TypeOK
  /\ CheckedParentStable
  /\ \A q \in Slots \ {initproc} :
       state[q] # "UNUSED" => parent[q] # None /\ state[parent[q]] \notin {"UNUSED", "ZOMBIE"}

\* SAFETY: wait() never frees a slot whose kernel stack a CPU is still executing on;
\* exit() hands p->lock to the scheduler for that reason.
StackNotFreed == \A q \in Slots : state[q] = "UNUSED" => ~stack[q]

\* SAFETY: nobody sleeps in wait() that has been killed, and no process other than init
\* sleeps in wait() while a child of it is a zombie that could be reaped: neither kill()
\* nor the exit() of a child and a wait() can miss each other.
WaitersNotified ==
  \A p \in Slots : state[p] = "SLEEPING" =>
     /\ ~killed[p]
     /\ p # initproc => \A q \in Slots : parent[q] = p => state[q] # "ZOMBIE"

\* SAFETY: the same of init, whose adopted children may be zombies already: "exit() always
\* wakes init" (proc.c:290), so init sleeps on a zombie child at most while an exit() that
\* has yet to wake it is under way.
InitNotified ==
  \A q \in Slots :
     state[initproc] = "SLEEPING" /\ parent[q] = initproc /\ state[q] = "ZOMBIE" =>
        \E p \in Slots : state[p] = "RUNNING" /\ pc[p] \in ExitPC

\* the process whose lock p spins on
Wants(p) ==
  IF state[p] # "RUNNING" THEN None
  ELSE CASE pc[p] = "exit" -> initproc
         [] pc[p] \in {"exit_parent", "exit_lock_self", "wait"} -> p
         [] pc[p] = "exit_lock_parent" -> original_parent[p]
         [] pc[p] \in {"allocproc", "reparent_lock", "wait_lock"} -> i[p]
         [] OTHER -> None

\* the processes that spin on a lock somebody holds
Spinning == {p \in Slots : Wants(p) # None /\ lock[Wants(p)] # None}

\* No set of processes spins on locks that are held within the set.  The parent-then-child
\* rule of proc.c:338 is there for that, and it is not enough (MCProcDeadlock.cfg).
NoDeadlock ==
  \A S \in (SUBSET Spinning) \ {{}} : \E p \in S : lock[Wants(p)] \notin S

\* The slot exit() took for its parent's has not been allocated to another process since ("we
\* may then race with an exiting parent", proc.c:329): it is free, or older than p.
ParentNotReused ==
  \A p \in Slots :
     pc[p] \in {"exit_lock_parent", "exit_lock_self", "reparent", "reparent_lock", "exit_zombie"} =>
        state[original_parent[p]] = "UNUSED" \/ pid[original_parent[p]] < pid[p]

\* SAFETY: the rule orders the locks of exit(), wait() and fork(), although reparent()
\* changes who is whose parent: whenever no exit() uses a slot that was allocated again,
\* no set of processes spins on locks that are held within the set.
LocksOrdered == ParentNotReused => NoDeadlock

\* SAFETY: a process is killed because somebody gave its pid to kill().
KilledWasTarget ==
  \A p \in Slots : state[p] # "UNUSED" /\ killed[p] => pid[p] \in victims

=============================================================================
