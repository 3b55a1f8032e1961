----------------------------- MODULE ProcProofs -----------------------------
(***************************************************************************)
(* The process table of kernel/proc.c for every size of proc[], any        *)
(* arguments of kill() and any failures of kalloc():                       *)
(*   ProcParentAlive      every process has a parent that exists; the      *)
(*                        fields tested without their lock still hold      *)
(*   ProcStackNotFreed    no slot is freed while a CPU is on its stack     *)
(*   ProcWaitersNotified  no exit() and no kill() is missed by a wait()    *)
(*   ProcLocksOrdered     no deadlock of the process locks while no slot   *)
(*                        that an exit() took for its parent's is reused;  *)
(*                        without that it is false (MCProcDeadlock.cfg)    *)
(***************************************************************************)
EXTENDS Proc, FiniteSetTheorems, WellFoundedInduction, TLAPS

-----------------------------------------------------------------------------
(***************************************************************************)
(* The inductive invariant.                                                *)
(***************************************************************************)
\* the forks that have passed usertrap()'s bound and not taken their pid yet
Allocating == {p \in Slots : pc[p] = "allocproc"}

\* ... are covered by the bound on pids
PidsBounded == nextpid + Cardinality(Allocating) <= MaxPid + NPROC + 1

\* where the kernel thread of a process in each state can be
Placed ==
  \A p \in Slots :
    /\ state[p] = "UNUSED" => pc[p] = "user"
    /\ state[p] = "RUNNABLE" => pc[p] \in {"user", "wait_sleep"}
    /\ state[p] = "SLEEPING" => pc[p] = "wait_sleep"
    /\ state[p] = "RUNNING" => pc[p] \notin {"wait_sleep", "sched"}
    /\ state[p] = "ZOMBIE" => pc[p] \in {"user", "sched"}

\* init has no parent and never exits; a free slot has no parent, nobody is its own
\* parent, and the parent of a process is neither free nor a zombie
Family ==
  /\ parent[initproc] = None
  /\ state[initproc] \notin {"UNUSED", "ZOMBIE"} /\ pc[initproc] \notin ExitPC
  /\ \A q \in Slots : parent[q] # q
  /\ \A q \in Slots : state[q] = "UNUSED" => parent[q] = None
  /\ \A q \in Slots : parent[q] \in Slots => state[parent[q]] \notin {"UNUSED", "ZOMBIE"}
  /\ \A q \in Slots \ {initproc} : state[q] # "UNUSED" => parent[q] \in Slots

\* reparent() has left no child behind its loop variable, and none when it is done
Reparented ==
  \A p \in Slots :
    /\ pc[p] \in {"reparent", "reparent_lock"} =>
         \A k \in Slots : k < i[p] => parent[k] # p
    /\ pc[p] = "exit_zombie" => \A k \in Slots : parent[k] # p

\* where a process holds its own lock
OwnLock == {"reparent", "reparent_lock", "exit_zombie", "sched", "wait_scan", "wait_lock", "wait_end"}

\* where a process holds the lock of the parent it had when exit() looked
ParentLock == {"exit_lock_self", "reparent", "reparent_lock", "exit_zombie"}

Locks ==
  \A p \in Slots :
    /\ pc[p] \in OwnLock => lock[p] = p
    /\ pc[p] \in ParentLock => lock[original_parent[p]] = p
    /\ pc[p] \in ParentLock \cup {"exit_lock_parent"} =>
         /\ original_parent[p] \in Slots \ {p}
         /\ parent[p] \in {original_parent[p], initproc}

\* wait() has seen no zombie among the children behind its loop variable; holding its own
\* lock it keeps them from becoming one, unless it is init, which they may not know
Watched ==
  \A p \in Slots \ {initproc} :
    /\ pc[p] \in {"wait_scan", "wait_lock"} =>
         \A k \in Slots : k < i[p] /\ parent[k] = p => state[k] # "ZOMBIE"
    /\ pc[p] = "wait_end" => \A k \in Slots : parent[k] = p => state[k] # "ZOMBIE"

\* a CPU that is still on the stack of a zombie holds its lock
OffStack ==
  \A q \in Slots :
    /\ state[q] = "UNUSED" => ~stack[q]
    /\ state[q] = "ZOMBIE" /\ stack[q] => pc[q] = "sched"

Inv ==
  /\ TypeOK /\ PidsBounded /\ Placed /\ Family /\ CheckedParentStable /\ Reparented
  /\ Locks /\ Watched /\ OffStack /\ WaitersNotified

-----------------------------------------------------------------------------
(***************************************************************************)
(* The table and the scans of it.                                          *)
(***************************************************************************)
\* the slots of proc[] as the loops use them
LEMMA SlotFacts ==
  /\ initproc \in Slots /\ 1 \in Slots /\ None \notin Slots
  /\ \A j \in Slots : j # NPROC => j + 1 \in Slots
  /\ \A j, k \in Slots : k < j + 1 => k < j \/ k = j
  /\ \A j \in Slots : ~(j < 1)
  /\ \A k \in Slots : k < NPROC \/ k = NPROC
BY ProcAssumption DEF Slots, initproc, None

\* every set of naturals has a smallest element
LEMMA MinNat ==
  ASSUME NEW S \in SUBSET Nat, S # {}
  PROVE  Min(S) \in S /\ \A y \in S : Min(S) <= y
<1>1. IsWellFoundedOn(OpToRel(<, Nat), Nat)
  BY NatLessThanWellFounded
<1>2. PICK x \in S : \A y \in S : ~(<<y, x>> \in OpToRel(<, Nat))
  BY <1>1, WFMin
<1>3. \A y \in S : ~(y < x)
  BY <1>2 DEF OpToRel
<1>4. \E z \in S : \A y \in S : z <= y
  BY <1>3
<1> QED
  BY <1>4 DEF Min

\* a scan stops at the first child from slot j on, or there is none
LEMMA ScanChild ==
  ASSUME NEW p \in Slots, NEW j \in Slots
  PROVE  \/ /\ NextChild(p, j) > NPROC
            /\ \A k \in Slots : k < j \/ parent[k] # p
         \/ /\ ~(NextChild(p, j) > NPROC)
            /\ NextChild(p, j) \in Slots
            /\ parent[NextChild(p, j)] = p
            /\ \A k \in Slots : k < NextChild(p, j) => k < j \/ parent[k] # p
<1> DEFINE S == {k \in j..NPROC : parent[k] = p} \cup {NPROC + 1}
<1>1. S \in SUBSET Nat /\ S # {}
  BY ProcAssumption DEF Slots
<1>2. NextChild(p, j) \in S /\ \A y \in S : NextChild(p, j) <= y
  BY <1>1, MinNat DEF NextChild
<1>3. \A k \in Slots : k < j \/ parent[k] # p \/ k \in S
  BY DEF Slots
<1>4. CASE NextChild(p, j) = NPROC + 1
  <2>1. \A k \in Slots : k \notin S
    BY <1>2, <1>4, ProcAssumption DEF Slots
  <2> QED
    BY <1>3, <1>4, <2>1, ProcAssumption
<1>5. CASE NextChild(p, j) # NPROC + 1
  <2>1. NextChild(p, j) \in j..NPROC /\ parent[NextChild(p, j)] = p
    BY <1>2, <1>5
  <2>2. NextChild(p, j) \in Slots /\ ~(NextChild(p, j) > NPROC)
    BY <2>1, ProcAssumption DEF Slots
  <2>3. \A k \in Slots : k < NextChild(p, j) => k \notin S
    BY <1>1, <1>2
  <2> QED
    BY <1>3, <2>1, <2>2, <2>3
<1> QED
  BY <1>4, <1>5

\* a set of slots is finite and has at most NPROC elements
LEMMA SlotsFinite ==
  ASSUME NEW S \in SUBSET Slots
  PROVE  IsFiniteSet(S) /\ Cardinality(S) \in Nat /\ Cardinality(S) <= NPROC
<1>1. IsFiniteSet(Slots) /\ Cardinality(Slots) = NPROC
  BY FS_Interval, ProcAssumption DEF Slots
<1> QED
  BY <1>1, FS_Subset, FS_CardinalityType

\* a fork that leaves allocproc() makes room for one pid
LEMMA AllocatingLess ==
  ASSUME NEW p \in Allocating, Allocating' = Allocating \ {p}
  PROVE  /\ Cardinality(Allocating) \in Nat \ {0}
         /\ Cardinality(Allocating') = Cardinality(Allocating) - 1
<1>1. Allocating \in SUBSET Slots
  BY DEF Allocating
<1> QED
  BY <1>1, SlotsFinite, FS_RemoveElement

\* a step by which no process enters allocproc() takes no room
LEMMA PidsBoundedLess ==
  ASSUME Inv, UNCHANGED nextpid, Allocating' \in SUBSET Allocating
  PROVE  PidsBounded'
<1>1. Allocating \in SUBSET Slots /\ Allocating' \in SUBSET Slots
  BY DEF Allocating
<1>2. /\ Cardinality(Allocating) \in Nat /\ Cardinality(Allocating') \in Nat
      /\ Cardinality(Allocating') <= Cardinality(Allocating)
  BY <1>1, SlotsFinite, FS_Subset
<1>3. nextpid \in Nat /\ nextpid' = nextpid
  BY DEF Inv, TypeOK
<1> QED
  BY <1>2, <1>3, ProcAssumption DEF Inv, PidsBounded

\* the pid that a fork takes is within the bound
LEMMA FoundPid ==
  ASSUME Inv, NEW p \in Slots, found(p)
  PROVE  nextpid \in 0..(MaxPid + NPROC) /\ nextpid' \in Nat /\ PidsBounded'
<1>1. p \in Allocating /\ Allocating' = Allocating \ {p}
  BY DEF Inv, TypeOK, found, At, Allocating
<1>2. /\ Cardinality(Allocating) \in Nat \ {0}
      /\ Cardinality(Allocating') = Cardinality(Allocating) - 1
  BY <1>1, AllocatingLess
<1>3. nextpid \in Nat /\ nextpid' = nextpid + 1
  BY DEF Inv, TypeOK, found
<1> QED
  BY <1>2, <1>3, ProcAssumption DEF Inv, PidsBounded

-----------------------------------------------------------------------------
(***************************************************************************)
(* One lemma per action.                                                   *)
(***************************************************************************)
\* allocproc() passes a slot that is in use
LEMMA Keeps_alloc_skip ==
  ASSUME Inv, NEW p \in Slots, alloc_skip(p)
  PROVE  Inv'
<1> USE DEF Inv, TypeOK, alloc_skip, At
<1>1. TypeOK'
  BY SlotFacts DEF PC, procVars
<1>2. PidsBounded'
  <2>1. Allocating' \in SUBSET Allocating
    BY DEF Allocating
  <2> QED
    BY <2>1, PidsBoundedLess
<1>3. Placed'
  BY DEF procVars, Placed
<1>4. Family'
  BY DEF ExitPC, procVars, Family
<1>5. CheckedParentStable'
  BY DEF procVars, CheckedParentStable
<1>6. Reparented'
  BY DEF procVars, Reparented
<1>7. Locks'
  BY DEF OwnLock, ParentLock, procVars, Locks
<1>8. Watched'
  BY DEF procVars, Watched
<1>9. OffStack'
  BY DEF procVars, OffStack
<1>10. WaitersNotified'
  BY DEF procVars, WaitersNotified
<1> QED
  BY <1>1, <1>2, <1>3, <1>4, <1>5, <1>6, <1>7, <1>8, <1>9, <1>10

\* fork() fills a free slot: the child gets its parent, and nobody else did have it
LEMMA Keeps_fork ==
  ASSUME Inv, NEW p \in Slots, fork(p)
  PROVE  Inv'
<1> USE DEF Inv, TypeOK, fork, found, At
<1>1. TypeOK' /\ PidsBounded'
  BY SlotFacts, FoundPid DEF PC, States
<1>2. Placed'
  BY DEF Placed
<1>3. Family'
  BY DEF ExitPC, Family
<1>4. CheckedParentStable'
  BY SlotFacts DEF Family, CheckedParentStable
<1>5. Reparented'
  BY DEF Reparented
<1>6. Locks'
  BY DEF ParentLock, Placed, Family, Locks
<1>7. Watched'
  BY DEF Watched
<1>8. OffStack'
  BY DEF OffStack
<1>9. WaitersNotified'
  BY DEF WaitersNotified
<1> QED
  BY <1>1, <1>2, <1>3, <1>4, <1>5, <1>6, <1>7, <1>8, <1>9

\* a fork() that fails leaves the slot free
LEMMA Keeps_fork_no_trapframe ==
  ASSUME Inv, NEW p \in Slots, fork_no_trapframe(p)
  PROVE  Inv'
<1> USE DEF Inv, TypeOK, fork_no_trapframe, found, At
<1>1. TypeOK' /\ PidsBounded'
  BY SlotFacts, FoundPid DEF PC
<1>2. Placed'
  BY DEF Placed
<1>3. Family'
  BY DEF ExitPC, Family
<1>4. CheckedParentStable'
  BY DEF CheckedParentStable
<1>5. Reparented'
  BY DEF Reparented
<1>6. Locks'
  BY DEF ParentLock, Placed, Family, Locks
<1>7. Watched'
  BY DEF Watched
<1>8. OffStack'
  BY DEF OffStack
<1>9. WaitersNotified'
  BY DEF WaitersNotified
<1> QED
  BY <1>1, <1>2, <1>3, <1>4, <1>5, <1>6, <1>7, <1>8, <1>9

\* a fork() that fails leaves the slot free
LEMMA Keeps_fork_no_memory ==
  ASSUME Inv, NEW p \in Slots, fork_no_memory(p)
  PROVE  Inv'
<1> USE DEF Inv, TypeOK, fork_no_memory, found, At
<1>1. TypeOK' /\ PidsBounded'
  <2>1. pid' \in [Slots -> 0..(MaxPid + NPROC)]
    BY ProcAssumption
  <2>2. parent' \in [Slots -> Slots \cup {None}] /\ killed' \in [Slots -> BOOLEAN]
    OBVIOUS
  <2>3. pc' \in [Slots -> PC] /\ i' \in [Slots -> Slots]
    BY SlotFacts DEF PC
  <2> QED
    BY <2>1, <2>3, FoundPid
<1>2. Placed'
  BY DEF Placed
<1>3. Family'
  BY DEF ExitPC, Family
<1>4. CheckedParentStable'
  BY DEF Family, CheckedParentStable
<1>5. Reparented'
  BY DEF Family, Reparented
<1>6. Locks'
  BY DEF ParentLock, Placed, Family, Locks
<1>7. Watched'
  BY DEF Watched
<1>8. OffStack'
  BY DEF OffStack
<1>9. WaitersNotified'
  BY DEF WaitersNotified
<1> QED
  BY <1>1, <1>2, <1>3, <1>4, <1>5, <1>6, <1>7, <1>8, <1>9

\* a process that runs again takes its lock if it slept in wait()
LEMMA Keeps_scheduler ==
  ASSUME Inv, NEW p \in Slots, scheduler(p)
  PROVE  Inv'
<1> USE DEF Inv, TypeOK, scheduler
<1>1. TypeOK'
  <2>1. state' \in [Slots -> States] /\ stack' \in [Slots -> BOOLEAN]
    BY DEF States
  <2>2. lock' \in [Slots -> Slots \cup {None}]
    OBVIOUS
  <2>3. pc' \in [Slots -> PC]
    BY DEF PC, WaitPC
  <2>4. i' \in [Slots -> Slots]
    BY SlotFacts, Zenon
  <2> QED
    BY <2>1, <2>3, <2>4
<1>2. PidsBounded'
  <2>1. Allocating' \in SUBSET Allocating
    BY DEF Allocating
  <2> QED
    BY <2>1, PidsBoundedLess
<1>3. Placed'
  BY DEF Placed
<1>4. Family'
  BY SlotFacts DEF ExitPC, Family
<1>5. CheckedParentStable'
  BY DEF CheckedParentStable
<1>6. Reparented'
  BY DEF Reparented
<1>7. Locks'
  BY SlotFacts DEF ParentLock, Locks
<1>8. Watched'
  BY SlotFacts DEF Watched
<1>9. OffStack'
  BY DEF OffStack
<1>10. WaitersNotified'
  BY DEF WaitersNotified
<1> QED
  BY <1>1, <1>2, <1>3, <1>4, <1>5, <1>6, <1>7, <1>8, <1>9, <1>10

\* the scheduler is off the stack of a zombie and releases its lock
LEMMA Keeps_sched ==
  ASSUME Inv, NEW p \in Slots, sched(p)
  PROVE  Inv'
<1> USE DEF Inv, TypeOK, sched
<1>1. TypeOK'
  BY DEF PC, procVars
<1>2. PidsBounded'
  <2>1. Allocating' \in SUBSET Allocating
    BY DEF Allocating
  <2> QED
    BY <2>1, PidsBoundedLess
<1>3. Placed'
  BY DEF procVars, Placed
<1>4. Family'
  BY DEF ExitPC, procVars, Family
<1>5. CheckedParentStable'
  BY DEF procVars, CheckedParentStable
<1>6. Reparented'
  BY DEF procVars, Reparented
<1>7. Locks'
  BY DEF OwnLock, ParentLock, procVars, Locks
<1>8. Watched'
  BY DEF procVars, Watched
<1>9. OffStack'
  BY DEF procVars, OffStack
<1>10. WaitersNotified'
  BY DEF procVars, WaitersNotified
<1> QED
  BY <1>1, <1>2, <1>3, <1>4, <1>5, <1>6, <1>7, <1>8, <1>9, <1>10

\* exit() may wake init; it is not init itself
LEMMA Keeps_exit_wakes_init ==
  ASSUME Inv, NEW p \in Slots, exit_wakes_init(p)
  PROVE  Inv'
<1> USE DEF Inv, TypeOK, exit_wakes_init, At, wakeup1
<1>1. TypeOK'
  BY DEF PC, ExitPC, States
<1>2. PidsBounded'
  <2>1. Allocating' \in SUBSET Allocating
    BY DEF Allocating
  <2> QED
    BY <2>1, PidsBoundedLess
<1>3. Placed'
  BY DEF Placed
<1>4. Family'
  BY DEF ExitPC, Family
<1>5. CheckedParentStable'
  BY DEF CheckedParentStable
<1>6. Reparented'
  BY DEF Reparented
<1>7. Locks'
  BY DEF OwnLock, ParentLock, Locks
<1>8. Watched'
  BY DEF Watched
<1>9. OffStack'
  BY DEF OffStack
<1>10. WaitersNotified'
  BY DEF WaitersNotified
<1> QED
  BY <1>1, <1>2, <1>3, <1>4, <1>5, <1>6, <1>7, <1>8, <1>9, <1>10

\* exit() finds its parent, which exists
LEMMA Keeps_exit_parent ==
  ASSUME Inv, NEW p \in Slots, exit_parent(p)
  PROVE  Inv'
<1> USE DEF Inv, TypeOK, exit_parent, At
<1>1. TypeOK'
  BY DEF PC, ExitPC, procVars
<1>2. PidsBounded'
  <2>1. Allocating' \in SUBSET Allocating
    BY DEF Allocating
  <2> QED
    BY <2>1, PidsBoundedLess
<1>3. Placed'
  BY DEF procVars, Placed
<1>4. Family'
  BY DEF ExitPC, procVars, Family
<1>5. CheckedParentStable'
  BY DEF procVars, CheckedParentStable
<1>6. Reparented'
  BY DEF procVars, Reparented
<1>7. Locks'
  BY DEF ExitPC, OwnLock, ParentLock, procVars, Family, Locks
<1>8. Watched'
  BY DEF procVars, Watched
<1>9. OffStack'
  BY DEF procVars, OffStack
<1>10. WaitersNotified'
  BY DEF procVars, WaitersNotified
<1> QED
  BY <1>1, <1>2, <1>3, <1>4, <1>5, <1>6, <1>7, <1>8, <1>9, <1>10

\* the lock of the parent was free, so nobody relied on holding it
LEMMA Keeps_exit_lock_parent ==
  ASSUME Inv, NEW p \in Slots, exit_lock_parent(p)
  PROVE  Inv'
<1> USE DEF Inv, TypeOK, exit_lock_parent, At
<1>1. TypeOK'
  BY DEF PC, ExitPC, procVars
<1>2. PidsBounded'
  <2>1. Allocating' \in SUBSET Allocating
    BY DEF Allocating
  <2> QED
    BY <2>1, PidsBoundedLess
<1>3. Placed'
  BY DEF procVars, Placed
<1>4. Family'
  BY DEF ExitPC, procVars, Family
<1>5. CheckedParentStable'
  BY DEF procVars, CheckedParentStable
<1>6. Reparented'
  BY DEF procVars, Reparented
<1>7. Locks'
  BY SlotFacts DEF OwnLock, procVars, Locks
<1>8. Watched'
  BY DEF procVars, Watched
<1>9. OffStack'
  BY DEF procVars, OffStack
<1>10. WaitersNotified'
  BY DEF procVars, WaitersNotified
<1> QED
  BY <1>1, <1>2, <1>3, <1>4, <1>5, <1>6, <1>7, <1>8, <1>9, <1>10

\* exit() takes its own lock and starts the scan for its children
LEMMA Keeps_exit_lock_self ==
  ASSUME Inv, NEW p \in Slots, exit_lock_self(p)
  PROVE  Inv'
<1> USE DEF Inv, TypeOK, exit_lock_self, At
<1>1. TypeOK'
  BY SlotFacts DEF PC, ExitPC, procVars
<1>2. PidsBounded'
  <2>1. Allocating' \in SUBSET Allocating
    BY DEF Allocating
  <2> QED
    BY <2>1, PidsBoundedLess
<1>3. Placed'
  BY DEF procVars, Placed
<1>4. Family'
  BY DEF ExitPC, procVars, Family
<1>5. CheckedParentStable'
  BY DEF procVars, CheckedParentStable
<1>6. Reparented'
  BY SlotFacts DEF procVars, Reparented
<1>7. Locks'
  BY SlotFacts DEF ParentLock, procVars, Locks
<1>8. Watched'
  BY DEF procVars, Watched
<1>9. OffStack'
  BY DEF procVars, OffStack
<1>10. WaitersNotified'
  BY DEF procVars, WaitersNotified
<1> QED
  BY <1>1, <1>2, <1>3, <1>4, <1>5, <1>6, <1>7, <1>8, <1>9, <1>10

\* reparent() skips slots that are not children
LEMMA Keeps_reparent_scan ==
  ASSUME Inv, NEW p \in Slots, reparent_scan(p)
  PROVE  Inv'
<1> USE DEF Inv, TypeOK, reparent_scan, At
<1>1. TypeOK'
  BY SlotFacts, ScanChild DEF PC, ExitPC, procVars
<1>2. PidsBounded'
  <2>1. Allocating' \in SUBSET Allocating
    BY DEF Allocating
  <2> QED
    BY <2>1, PidsBoundedLess
<1>3. Placed'
  BY DEF procVars, Placed
<1>4. Family'
  BY DEF ExitPC, procVars, Family
<1>5. CheckedParentStable'
  BY ScanChild DEF procVars, CheckedParentStable
<1>6. Reparented'
  BY ScanChild DEF procVars, Reparented
<1>7. Locks'
  BY DEF OwnLock, ParentLock, procVars, Locks
<1>8. Watched'
  BY DEF procVars, Watched
<1>9. OffStack'
  BY DEF procVars, OffStack
<1>10. WaitersNotified'
  BY DEF procVars, WaitersNotified
<1> QED
  BY <1>1, <1>2, <1>3, <1>4, <1>5, <1>6, <1>7, <1>8, <1>9, <1>10

\* a child that is given to init was no child of anybody else
LEMMA Keeps_reparent ==
  ASSUME Inv, NEW p \in Slots, reparent(p)
  PROVE  Inv'
<1> USE DEF Inv, TypeOK, reparent, At
<1>1. TypeOK'
  BY SlotFacts DEF PC, ExitPC
<1>2. PidsBounded'
  <2>1. Allocating' \in SUBSET Allocating
    BY DEF Allocating
  <2> QED
    BY <2>1, PidsBoundedLess
<1>3. Placed'
  BY DEF Placed
<1>4. Family'
  BY SlotFacts DEF ExitPC, Family, CheckedParentStable
<1>5. CheckedParentStable'
  BY DEF CheckedParentStable
<1>6. Reparented'
  BY DEF ExitPC, Family, Reparented
<1>7. Locks'
  BY DEF OwnLock, ParentLock, Locks
<1>8. Watched'
  BY DEF Watched
<1>9. OffStack'
  BY DEF OffStack
<1>10. WaitersNotified'
  BY DEF WaitersNotified
<1> QED
  BY <1>1, <1>2, <1>3, <1>4, <1>5, <1>6, <1>7, <1>8, <1>9, <1>10

\* a process becomes a zombie without children, with its parent locked and awake
LEMMA Keeps_exit_zombie ==
  ASSUME Inv, NEW p \in Slots, exit_zombie(p)
  PROVE  Inv'
<1> USE DEF Inv, TypeOK, exit_zombie, At, wakeup1
<1>1. TypeOK'
  BY DEF PC, States
<1>2. PidsBounded'
  <2>1. Allocating' \in SUBSET Allocating
    BY DEF Allocating
  <2> QED
    BY <2>1, PidsBoundedLess
<1>3. Placed'
  BY DEF Placed
<1>4. Family'
  BY SlotFacts DEF ExitPC, Family, Reparented
<1>5. CheckedParentStable'
  BY DEF CheckedParentStable
<1>6. Reparented'
  BY DEF Reparented
<1>7. Locks'
  BY DEF OwnLock, ParentLock, Locks
<1>8. Watched'
  BY DEF OwnLock, ParentLock, Locks, Watched
<1>9. OffStack'
  BY DEF OffStack
<1>10. WaitersNotified'
  BY DEF ParentLock, Locks, WaitersNotified
<1> QED
  BY <1>1, <1>2, <1>3, <1>4, <1>5, <1>6, <1>7, <1>8, <1>9, <1>10

\* wait() takes its lock and starts the scan
LEMMA Keeps_wait ==
  ASSUME Inv, NEW p \in Slots, wait(p)
  PROVE  Inv'
<1> USE DEF Inv, TypeOK, wait, At
<1>1. TypeOK'
  BY SlotFacts DEF PC, WaitPC, procVars
<1>2. PidsBounded'
  <2>1. Allocating' \in SUBSET Allocating
    BY DEF Allocating
  <2> QED
    BY <2>1, PidsBoundedLess
<1>3. Placed'
  BY DEF procVars, Placed
<1>4. Family'
  BY DEF ExitPC, procVars, Family
<1>5. CheckedParentStable'
  BY DEF procVars, CheckedParentStable
<1>6. Reparented'
  BY DEF procVars, Reparented
<1>7. Locks'
  BY SlotFacts DEF ParentLock, procVars, Locks
<1>8. Watched'
  BY SlotFacts DEF procVars, Watched
<1>9. OffStack'
  BY DEF procVars, OffStack
<1>10. WaitersNotified'
  BY DEF procVars, WaitersNotified
<1> QED
  BY <1>1, <1>2, <1>3, <1>4, <1>5, <1>6, <1>7, <1>8, <1>9, <1>10

\* wait() skips slots that are not children
LEMMA Keeps_wait_scan ==
  ASSUME Inv, NEW p \in Slots, wait_scan(p)
  PROVE  Inv'
<1> USE DEF Inv, TypeOK, wait_scan, At
<1>1. TypeOK'
  BY SlotFacts, ScanChild DEF PC, WaitPC, procVars
<1>2. PidsBounded'
  <2>1. Allocating' \in SUBSET Allocating
    BY DEF Allocating
  <2> QED
    BY <2>1, PidsBoundedLess
<1>3. Placed'
  BY DEF procVars, Placed
<1>4. Family'
  BY DEF ExitPC, procVars, Family
<1>5. CheckedParentStable'
  BY ScanChild DEF procVars, CheckedParentStable
<1>6. Reparented'
  BY DEF procVars, Reparented
<1>7. Locks'
  BY DEF OwnLock, ParentLock, procVars, Locks
<1>8. Watched'
  BY ScanChild DEF procVars, Watched
<1>9. OffStack'
  BY DEF procVars, OffStack
<1>10. WaitersNotified'
  BY DEF procVars, WaitersNotified
<1> QED
  BY <1>1, <1>2, <1>3, <1>4, <1>5, <1>6, <1>7, <1>8, <1>9, <1>10

\* init passes a slot that is not a child's
LEMMA Keeps_init_scan ==
  ASSUME Inv, NEW p \in Slots, init_scan(p)
  PROVE  Inv'
<1> USE DEF Inv, TypeOK, init_scan, At
<1>1. TypeOK'
  BY SlotFacts DEF PC, WaitPC, procVars
<1>2. PidsBounded'
  <2>1. Allocating' \in SUBSET Allocating
    BY DEF Allocating
  <2> QED
    BY <2>1, PidsBoundedLess
<1>3. Placed'
  BY DEF procVars, Placed
<1>4. Family'
  BY DEF ExitPC, procVars, Family
<1>5. CheckedParentStable'
  BY DEF procVars, CheckedParentStable
<1>6. Reparented'
  BY DEF procVars, Reparented
<1>7. Locks'
  BY DEF OwnLock, ParentLock, procVars, Locks
<1>8. Watched'
  BY SlotFacts DEF procVars, Watched
<1>9. OffStack'
  BY DEF procVars, OffStack
<1>10. WaitersNotified'
  BY DEF procVars, WaitersNotified
<1> QED
  BY <1>1, <1>2, <1>3, <1>4, <1>5, <1>6, <1>7, <1>8, <1>9, <1>10

\* wait() passes a child that is no zombie
LEMMA Keeps_wait_next ==
  ASSUME Inv, NEW p \in Slots, wait_next(p)
  PROVE  Inv'
<1> USE DEF Inv, TypeOK, wait_next, At
<1>1. TypeOK'
  BY SlotFacts DEF PC, WaitPC, procVars
<1>2. PidsBounded'
  <2>1. Allocating' \in SUBSET Allocating
    BY DEF Allocating
  <2> QED
    BY <2>1, PidsBoundedLess
<1>3. Placed'
  BY DEF procVars, Placed
<1>4. Family'
  BY DEF ExitPC, procVars, Family
<1>5. CheckedParentStable'
  BY DEF procVars, CheckedParentStable
<1>6. Reparented'
  BY DEF procVars, Reparented
<1>7. Locks'
  BY DEF OwnLock, ParentLock, procVars, Locks
<1>8. Watched'
  BY SlotFacts DEF procVars, Watched
<1>9. OffStack'
  BY DEF procVars, OffStack
<1>10. WaitersNotified'
  BY DEF procVars, WaitersNotified
<1> QED
  BY <1>1, <1>2, <1>3, <1>4, <1>5, <1>6, <1>7, <1>8, <1>9, <1>10

\* wait() frees a zombie that no CPU runs and that has no children
LEMMA Keeps_wait_reap ==
  ASSUME Inv, NEW p \in Slots, wait_reap(p)
  PROVE  Inv'
<1> USE DEF Inv, TypeOK, wait_reap, At
<1>1. TypeOK'
  BY SlotFacts, ProcAssumption DEF PC, States
<1>2. PidsBounded'
  <2>1. Allocating' \in SUBSET Allocating
    BY DEF Allocating
  <2> QED
    BY <2>1, PidsBoundedLess
<1>3. Placed'
  BY SlotFacts DEF OwnLock, Placed, Locks
<1>4. Family'
  BY SlotFacts DEF ExitPC, Family
<1>5. CheckedParentStable'
  BY DEF CheckedParentStable
<1>6. Reparented'
  BY SlotFacts DEF Reparented
<1>7. Locks'
  BY DEF OwnLock, ParentLock, Placed, Locks
<1>8. Watched'
  BY DEF Watched
<1>9. OffStack'
  BY SlotFacts DEF OwnLock, Locks, OffStack
<1>10. WaitersNotified'
  BY DEF WaitersNotified
<1> QED
  BY <1>1, <1>2, <1>3, <1>4, <1>5, <1>6, <1>7, <1>8, <1>9, <1>10

\* wait() gives up and leaves the zombie
LEMMA Keeps_wait_bad_address ==
  ASSUME Inv, NEW p \in Slots, wait_bad_address(p)
  PROVE  Inv'
<1> USE DEF Inv, TypeOK, wait_bad_address, At
<1>1. TypeOK'
  BY SlotFacts DEF PC, procVars
<1>2. PidsBounded'
  <2>1. Allocating' \in SUBSET Allocating
    BY DEF Allocating
  <2> QED
    BY <2>1, PidsBoundedLess
<1>3. Placed'
  BY DEF procVars, Placed
<1>4. Family'
  BY DEF ExitPC, procVars, Family
<1>5. CheckedParentStable'
  BY DEF procVars, CheckedParentStable
<1>6. Reparented'
  BY DEF procVars, Reparented
<1>7. Locks'
  BY DEF OwnLock, ParentLock, procVars, Locks
<1>8. Watched'
  BY DEF procVars, Watched
<1>9. OffStack'
  BY DEF procVars, OffStack
<1>10. WaitersNotified'
  BY DEF procVars, WaitersNotified
<1> QED
  BY <1>1, <1>2, <1>3, <1>4, <1>5, <1>6, <1>7, <1>8, <1>9, <1>10

\* wait() returns without a child
LEMMA Keeps_wait_none ==
  ASSUME Inv, NEW p \in Slots, wait_none(p)
  PROVE  Inv'
<1> USE DEF Inv, TypeOK, wait_none, At
<1>1. TypeOK'
  BY DEF PC, procVars
<1>2. PidsBounded'
  <2>1. Allocating' \in SUBSET Allocating
    BY DEF Allocating
  <2> QED
    BY <2>1, PidsBoundedLess
<1>3. Placed'
  BY DEF procVars, Placed
<1>4. Family'
  BY DEF ExitPC, procVars, Family
<1>5. CheckedParentStable'
  BY DEF procVars, CheckedParentStable
<1>6. Reparented'
  BY DEF procVars, Reparented
<1>7. Locks'
  BY DEF OwnLock, ParentLock, procVars, Locks
<1>8. Watched'
  BY DEF procVars, Watched
<1>9. OffStack'
  BY DEF procVars, OffStack
<1>10. WaitersNotified'
  BY DEF procVars, WaitersNotified
<1> QED
  BY <1>1, <1>2, <1>3, <1>4, <1>5, <1>6, <1>7, <1>8, <1>9, <1>10

\* wait() sleeps when the scan has found no zombie
LEMMA Keeps_wait_sleep ==
  ASSUME Inv, NEW p \in Slots, wait_sleep(p)
  PROVE  Inv'
<1> USE DEF Inv, TypeOK, wait_sleep, At
<1>1. TypeOK'
  BY DEF PC, WaitPC, States
<1>2. PidsBounded'
  <2>1. Allocating' \in SUBSET Allocating
    BY DEF Allocating
  <2> QED
    BY <2>1, PidsBoundedLess
<1>3. Placed'
  BY DEF Placed
<1>4. Family'
  BY DEF ExitPC, Family
<1>5. CheckedParentStable'
  BY DEF CheckedParentStable
<1>6. Reparented'
  BY DEF Reparented
<1>7. Locks'
  BY DEF OwnLock, ParentLock, Locks
<1>8. Watched'
  BY DEF Watched
<1>9. OffStack'
  BY DEF OffStack
<1>10. WaitersNotified'
  BY DEF Watched, WaitersNotified
<1> QED
  BY <1>1, <1>2, <1>3, <1>4, <1>5, <1>6, <1>7, <1>8, <1>9, <1>10

\* a process in user space enters the kernel
LEMMA Keeps_usertrap ==
  ASSUME Inv, NEW p \in Slots, NEW call \in {"allocproc", "wait", "exit"}, usertrap(p, call)
  PROVE  Inv'
<1> USE DEF Inv, TypeOK, usertrap, At
<1>1. TypeOK'
  BY SlotFacts DEF PC, WaitPC, ExitPC, procVars
<1>2. PidsBounded'
  <2>1. Cardinality(Allocating') \in Nat /\ Cardinality(Allocating') <= NPROC
    BY SlotsFinite DEF Allocating
  <2>2. call # "allocproc" => Allocating' = Allocating
    BY DEF Allocating
  <2> QED
    BY <2>1, <2>2, ProcAssumption DEF PidsBounded
<1>3. Placed'
  BY DEF procVars, Placed
<1>4. Family'
  BY DEF ExitPC, procVars, Family
<1>5. CheckedParentStable'
  BY DEF procVars, CheckedParentStable
<1>6. Reparented'
  BY DEF procVars, Reparented
<1>7. Locks'
  BY DEF OwnLock, ParentLock, procVars, Locks
<1>8. Watched'
  BY DEF procVars, Watched
<1>9. OffStack'
  BY DEF procVars, OffStack
<1>10. WaitersNotified'
  BY DEF procVars, WaitersNotified
<1> QED
  BY <1>1, <1>2, <1>3, <1>4, <1>5, <1>6, <1>7, <1>8, <1>9, <1>10

\* kill() rouses its victim if it sleeps
LEMMA Keeps_kill ==
  ASSUME Inv, NEW p \in Slots, NEW n \in KillPids, kill(p, n)
  PROVE  Inv'
<1> USE DEF Inv, TypeOK, kill, At
<1>1. TypeOK'
  BY DEF States
<1>2. PidsBounded'
  <2>1. Allocating' \in SUBSET Allocating
    BY DEF Allocating
  <2> QED
    BY <2>1, PidsBoundedLess
<1>3. Placed'
  BY DEF Placed
<1>4. Family'
  BY DEF Family
<1>5. Watched'
  BY DEF Watched
<1>6. OffStack'
  BY DEF OffStack
<1>7. WaitersNotified'
  BY DEF WaitersNotified
<1>8. CheckedParentStable' /\ Reparented' /\ Locks'
  BY DEF CheckedParentStable, Reparented, Locks
<1> QED
  BY <1>1, <1>2, <1>3, <1>4, <1>5, <1>6, <1>7, <1>8

-----------------------------------------------------------------------------
(***************************************************************************)
(* The order of the locks.  Pids grow from parent to child, so they order  *)
(* the locks by parenthood as long as the slot an exit() took for its      *)
(* parent's is not a younger process by now.                               *)
(***************************************************************************)
\* a process is younger than its parent, and init is the oldest
Ages ==
  /\ nextpid >= 2 /\ pid[initproc] = 1
  /\ \A q \in Slots : state[q] # "UNUSED" =>
       /\ pid[q] < nextpid
       /\ q # initproc => pid[q] > 1
       /\ parent[q] \in Slots => pid[parent[q]] < pid[q]

\* a lock is held by the process itself or by one that exits and takes it for its parent
Owners ==
  \A q \in Slots : lock[q] \in Slots =>
    \/ lock[q] = q /\ pc[q] \in OwnLock
    \/ q = original_parent[lock[q]] /\ pc[lock[q]] \in ParentLock

\* a step that hands out no pid and no parent keeps the ages
LEMMA AgesKept ==
  ASSUME Inv, Ages, UNCHANGED <<nextpid, pid, parent>>,
         \A q \in Slots : state'[q] # "UNUSED" => state[q] # "UNUSED"
  PROVE  Ages'
BY DEF Ages

\* the steps that create, free or give away a process keep the ages
LEMMA AgesFamily ==
  ASSUME Inv, Ages, NEW p \in Slots,
         \/ fork(p) \/ fork_no_trapframe(p) \/ fork_no_memory(p) \/ reparent(p) \/ wait_reap(p)
  PROVE  Ages'
<1> USE SlotFacts DEF Inv, TypeOK
<1>1. CASE fork(p)
  <2>1. state[i[p]] = "UNUSED" /\ state[p] = "RUNNING" /\ i[p] # initproc
    BY <1>1 DEF fork, found, At, Family
  <2>2. \A q \in Slots : parent[q] # i[p]
    BY <2>1 DEF Family
  <2> QED
    BY <1>1, <2>1, <2>2 DEF fork, found, Ages
<1>2. CASE fork_no_trapframe(p) \/ fork_no_memory(p)
  <2>1. state[i[p]] = "UNUSED" /\ i[p] # initproc /\ state' = state
    BY <1>2 DEF fork_no_trapframe, fork_no_memory, found, Family
  <2>2. \A q \in Slots : parent[q] # i[p]
    BY <2>1 DEF Family
  <2>3. CASE fork_no_trapframe(p)
    BY <2>1, <2>2, <2>3 DEF fork_no_trapframe, found, Ages
  <2>4. CASE fork_no_memory(p)
    BY <2>1, <2>2, <2>4 DEF fork_no_memory, found, Ages
  <2> QED
    BY <1>2, <2>3, <2>4
<1>3. CASE reparent(p)
  <2>1. state[i[p]] # "UNUSED" /\ i[p] # initproc
    BY <1>3 DEF reparent, At, Family, CheckedParentStable
  <2> QED
    BY <1>3, <2>1 DEF reparent, Ages
<1>4. CASE wait_reap(p)
  <2>1. state[i[p]] = "ZOMBIE" /\ i[p] # initproc
    BY <1>4 DEF wait_reap, Family
  <2>2. \A q \in Slots : parent[q] # i[p]
    BY <2>1 DEF Family
  <2> QED
    BY <1>4, <2>1, <2>2 DEF wait_reap, Ages
<1> QED
  BY <1>1, <1>2, <1>3, <1>4

\* every step keeps the ages
LEMMA NextAges ==
  ASSUME Inv, Ages, [Next]_vars
  PROVE  Ages'
<1> USE DEF Inv, TypeOK
<1>1. ASSUME NEW p \in Slots, Kernel(p) PROVE Ages'
  <2>1. CASE \/ alloc_skip(p) \/ sched(p) \/ exit_parent(p) \/ exit_lock_parent(p)
             \/ exit_lock_self(p) \/ reparent_scan(p) \/ wait(p) \/ init_scan(p)
             \/ wait_scan(p) \/ wait_next(p) \/ wait_bad_address(p) \/ wait_none(p)
    BY <2>1, AgesKept DEF procVars, alloc_skip, sched, exit_parent, exit_lock_parent,
       exit_lock_self, reparent_scan, wait, init_scan, wait_scan, wait_next, wait_bad_address, wait_none
  <2>2. CASE scheduler(p) \/ wait_sleep(p)
    BY <2>2, AgesKept DEF scheduler, wait_sleep, At
  <2>3. CASE exit_wakes_init(p)
    BY <2>3, AgesKept DEF exit_wakes_init, wakeup1
  <2>4. CASE exit_zombie(p)
    BY <2>4, AgesKept DEF exit_zombie, wakeup1, At
  <2> QED
    BY <1>1, <2>1, <2>2, <2>3, <2>4, AgesFamily DEF Kernel
<1>2. ASSUME NEW p \in Slots, NEW call \in {"allocproc", "wait", "exit"}, usertrap(p, call)
      PROVE  Ages'
  BY <1>2, AgesKept DEF usertrap, procVars
<1>3. ASSUME NEW p \in Slots, NEW n \in KillPids, kill(p, n) PROVE Ages'
  BY <1>3, AgesKept DEF kill
<1>4. CASE UNCHANGED vars
  BY <1>4, AgesKept DEF vars
<1> QED
  BY <1>1, <1>2, <1>3, <1>4 DEF Next

\* a step that moves p only from one place without locks to another keeps the owners
LEMMA OwnersKept ==
  ASSUME Inv, Owners, NEW p \in Slots, UNCHANGED <<lock, original_parent>>,
         \A r \in Slots \ {p} : pc'[r] = pc[r],
         pc[p] \in OwnLock => pc'[p] \in OwnLock,
         pc[p] \in ParentLock => pc'[p] \in ParentLock
  PROVE  Owners'
BY DEF Owners

\* every step keeps the owners
LEMMA NextOwners ==
  ASSUME Inv, Owners, [Next]_vars
  PROVE  Owners'
<1> USE SlotFacts DEF Inv, TypeOK
<1>1. ASSUME NEW p \in Slots, Kernel(p) PROVE Owners'
  <2>1. CASE alloc_skip(p)
    BY <2>1, OwnersKept DEF alloc_skip, At, OwnLock, ParentLock
  <2>2. CASE fork(p) \/ fork_no_trapframe(p) \/ fork_no_memory(p)
    <3>1. found(p)
      BY <2>2 DEF fork, fork_no_trapframe, fork_no_memory
    <3> QED
      BY <3>1, OwnersKept DEF found, At, OwnLock, ParentLock
  <2>3. CASE scheduler(p)
    BY <2>3 DEF scheduler, Placed, Owners, OwnLock, ParentLock
  <2>4. CASE sched(p)
    BY <2>4 DEF sched, Owners, OwnLock, ParentLock
  <2>5. CASE exit_wakes_init(p)
    BY <2>5, OwnersKept DEF exit_wakes_init, At, OwnLock, ParentLock
  <2>6. CASE exit_parent(p)
    BY <2>6 DEF exit_parent, At, Owners, OwnLock, ParentLock
  <2>7. CASE exit_lock_parent(p)
    BY <2>7 DEF exit_lock_parent, At, Owners, Locks, OwnLock, ParentLock
  <2>8. CASE exit_lock_self(p)
    BY <2>8 DEF exit_lock_self, At, Owners, OwnLock, ParentLock
  <2>9. CASE reparent_scan(p)
    BY <2>9, OwnersKept DEF reparent_scan, At, OwnLock, ParentLock
  <2>10. CASE reparent(p)
    BY <2>10, OwnersKept DEF reparent, At, OwnLock, ParentLock
  <2>11. CASE exit_zombie(p)
    BY <2>11 DEF exit_zombie, At, Owners, Locks, OwnLock, ParentLock
  <2>12. CASE wait(p)
    BY <2>12 DEF wait, At, Owners, OwnLock, ParentLock
  <2>13. CASE wait_scan(p)
    BY <2>13, OwnersKept DEF wait_scan, At, OwnLock, ParentLock
  <2>14. CASE init_scan(p)
    BY <2>14, OwnersKept DEF init_scan, At, OwnLock, ParentLock
  <2>15. CASE wait_next(p)
    BY <2>15, OwnersKept DEF wait_next, At, OwnLock, ParentLock
  <2>16. CASE wait_reap(p) \/ wait_bad_address(p)
    BY <2>16 DEF wait_reap, wait_bad_address, At, Owners, OwnLock, ParentLock
  <2>17. CASE wait_none(p)
    BY <2>17 DEF wait_none, At, Owners, OwnLock, ParentLock
  <2>18. CASE wait_sleep(p)
    BY <2>18 DEF wait_sleep, At, Owners, OwnLock, ParentLock
  <2> QED
    BY <1>1, <2>1, <2>2, <2>3, <2>4, <2>5, <2>6, <2>7, <2>8, <2>9, <2>10, <2>11, <2>12,
       <2>13, <2>14, <2>15, <2>16, <2>17, <2>18 DEF Kernel
<1>2. ASSUME NEW p \in Slots, NEW call \in {"allocproc", "wait", "exit"}, usertrap(p, call)
      PROVE  Owners'
  BY <1>2, OwnersKept DEF usertrap, At, OwnLock, ParentLock
<1>3. ASSUME NEW p \in Slots, NEW n \in KillPids, kill(p, n) PROVE Owners'
  BY <1>3, OwnersKept DEF kill
<1>4. CASE UNCHANGED vars
  BY <1>4 DEF vars, Owners
<1> QED
  BY <1>1, <1>2, <1>3, <1>4 DEF Next

\* a process that spins does so on the lock of a slot, and it is running
LEMMA WantsSlot ==
  ASSUME Inv, NEW p \in Slots, Wants(p) # None
  PROVE  Wants(p) \in Slots /\ state[p] = "RUNNING"
<1>1. state[p] = "RUNNING" /\ (pc[p] \in {"exit", "exit_lock_parent", "exit_parent",
        "exit_lock_self", "wait", "allocproc", "reparent_lock", "wait_lock"})
  BY DEF Wants
<1>2. original_parent[p] \in Slots \/ pc[p] # "exit_lock_parent"
  BY DEF Inv, Locks
<1>3. i[p] \in Slots
  BY DEF Inv, TypeOK
<1> QED
  BY <1>1, <1>2, <1>3, SlotFacts DEF Wants

\* who holds a lock and spins on another one waits for a younger process
LEMMA WaitsForYounger ==
  ASSUME Inv, Ages, Owners, ParentNotReused,
         NEW q \in Slots, NEW r \in Slots, r = lock[q],
         Wants(r) # None, lock[Wants(r)] \in Slots
  PROVE  pid[r] < pid[lock[Wants(r)]]
<1> DEFINE s == lock[Wants(r)]
<1>0. s \in Slots /\ Wants(r) \in Slots /\ state[r] = "RUNNING"
  BY WantsSlot
<1>1. pc[r] \in {"exit_lock_self", "reparent_lock", "wait_lock"}
  BY <1>0 DEF Owners, OwnLock, ParentLock, Wants
<1>2. CASE pc[r] = "exit_lock_self"
  <2>1. Wants(r) = r
    BY <1>0, <1>2 DEF Wants
  <2>2. r = original_parent[s] /\ pc[s] \in ParentLock
    BY <1>0, <1>2, <2>1 DEF Owners, OwnLock
  <2> QED
    BY <1>0, <2>2 DEF ParentNotReused, ParentLock
<1>3. CASE pc[r] \in {"reparent_lock", "wait_lock"}
  <2>1. Wants(r) = i[r] /\ parent[i[r]] = r
    BY <1>0, <1>3 DEF Wants, Inv, CheckedParentStable
  <2>2. i[r] \in Slots /\ state[i[r]] # "UNUSED"
    BY <1>0, <2>1, SlotFacts DEF Inv, Family
  <2>3. pid[r] < pid[i[r]]
    BY <2>1, <2>2 DEF Ages
  <2>4. CASE s = i[r]
    BY <2>3, <2>4
  <2>5. CASE s # i[r]
    <3>1. i[r] = original_parent[s] /\ pc[s] \in ParentLock
      BY <1>0, <2>1, <2>2, <2>5 DEF Owners
    <3>2. pid[i[r]] < pid[s]
      BY <1>0, <2>2, <3>1 DEF ParentNotReused, ParentLock
    <3>3. pid[r] \in Nat /\ pid[i[r]] \in Nat /\ pid[s] \in Nat
      BY <1>0, <2>2, ProcAssumption DEF Inv, TypeOK
    <3> QED
      BY <2>3, <3>2, <3>3
  <2> QED
    BY <2>4, <2>5
<1> QED
  BY <1>1, <1>2, <1>3

\* so there is no set of processes that all wait for each other: one of them is the youngest
LEMMA NoCycle ==
  ASSUME Inv, Ages, Owners, ParentNotReused
  PROVE  NoDeadlock
<1> SUFFICES ASSUME NEW S \in SUBSET Slots, S # {},
                    \A p \in S : Wants(p) # None /\ lock[Wants(p)] \in S
             PROVE  FALSE
  BY DEF NoDeadlock, Spinning
<1> DEFINE T == {lock[Wants(p)] : p \in S}
           B == MaxPid + NPROC
           M == {B - pid[r] : r \in T}
<1>1. T \in SUBSET S /\ T # {}
  OBVIOUS
<1>2. \A r \in T : pid[r] \in 0..B
  BY <1>1 DEF Inv, TypeOK
<1>3. M \in SUBSET Nat /\ M # {}
  BY <1>1, <1>2, ProcAssumption
<1>4. PICK r \in T : \A y \in M : B - pid[r] <= y
  <2>1. Min(M) \in M /\ \A y \in M : Min(M) <= y
    BY <1>3, MinNat
  <2> QED
    BY <2>1
<1>5. PICK p \in S : r = lock[Wants(p)]
  BY <1>4
<1>6. Wants(p) \in Slots /\ r \in Slots
  BY <1>1, <1>4, WantsSlot
<1>7. lock[Wants(r)] \in T /\ Wants(r) # None /\ lock[Wants(r)] \in Slots
  BY <1>1, <1>4
<1>8. pid[r] < pid[lock[Wants(r)]]
  BY <1>5, <1>6, <1>7, WaitsForYounger
<1>9. B - pid[r] <= B - pid[lock[Wants(r)]]
  BY <1>4, <1>7
<1> QED
  BY <1>2, <1>4, <1>7, <1>8, <1>9, ProcAssumption

-----------------------------------------------------------------------------
(***************************************************************************)
(* The theorems.                                                           *)
(***************************************************************************)
\* init is the only process, in user space, and every other slot is free
LEMMA InitInv == Init => Inv
<1> SUFFICES ASSUME Init PROVE Inv
  OBVIOUS
<1> USE SlotFacts DEF Init
<1>1. TypeOK
  <2>1. pid \in [Slots -> 0..(MaxPid + NPROC)] /\ nextpid \in Nat
    BY ProcAssumption
  <2>2. pc \in [Slots -> PC] /\ state \in [Slots -> States] /\ i \in [Slots -> Slots]
    BY DEF PC, States
  <2> QED
    BY <2>1, <2>2 DEF TypeOK
<1>2. PidsBounded
  <2>1. Allocating = {}
    BY DEF Allocating
  <2> QED
    BY <2>1, FS_EmptySet, ProcAssumption DEF PidsBounded
<1>3. Placed /\ Family
  BY DEF Placed, Family, ExitPC
<1>4. CheckedParentStable /\ Reparented /\ Locks /\ Watched
  BY DEF CheckedParentStable, Reparented, Locks, OwnLock, ParentLock, Watched
<1>5. OffStack /\ WaitersNotified
  BY DEF OffStack, WaitersNotified
<1> QED
  BY <1>1, <1>2, <1>3, <1>4, <1>5 DEF Inv

\* every step of every process preserves the invariant
LEMMA NextInv == Inv /\ [Next]_vars => Inv'
<1> SUFFICES ASSUME Inv, [Next]_vars PROVE Inv'
  OBVIOUS
<1>1. ASSUME NEW p \in Slots, Kernel(p) PROVE Inv'
  BY <1>1, Keeps_alloc_skip, Keeps_fork, Keeps_fork_no_trapframe, Keeps_fork_no_memory,
     Keeps_scheduler, Keeps_sched, Keeps_exit_wakes_init, Keeps_exit_parent,
     Keeps_exit_lock_parent, Keeps_exit_lock_self, Keeps_reparent_scan, Keeps_reparent,
     Keeps_exit_zombie, Keeps_wait, Keeps_init_scan, Keeps_wait_scan, Keeps_wait_next, Keeps_wait_reap,
     Keeps_wait_bad_address, Keeps_wait_none, Keeps_wait_sleep DEF Kernel
<1>2. CASE UNCHANGED vars
  <2> USE <1>2 DEF vars, Inv
  <2>1. TypeOK' /\ PidsBounded'
    BY DEF TypeOK, PidsBounded, Allocating
  <2>2. Placed' /\ Family' /\ CheckedParentStable' /\ Reparented'
    BY DEF Placed, Family, CheckedParentStable, Reparented
  <2>3. Locks' /\ Watched' /\ OffStack' /\ WaitersNotified'
    BY DEF Locks, Watched, OffStack, WaitersNotified
  <2> QED
    BY <2>1, <2>2, <2>3
<1> QED
  BY <1>1, <1>2, Keeps_usertrap, Keeps_kill DEF Next

\* the inductive invariant holds in every behaviour of the process table
THEOREM Invariance == Spec => []Inv
<1> QED
  BY InitInv, NextInv, PTL DEF Spec

\* exit() and reparent() (proc.c): every process but init has a parent that is neither free
\* nor a zombie, and what the two scans tested without a lock still holds when they use it
THEOREM ProcParentAlive == Spec => []ParentAlive
<1>1. Inv => ParentAlive
  BY SlotFacts DEF Inv, Family, ParentAlive
<1> QED
  BY <1>1, Invariance, PTL

\* sched() and wait() (proc.c): no slot is free while a CPU executes on its kernel stack
THEOREM ProcStackNotFreed == Spec => []StackNotFreed
<1>1. Inv => StackNotFreed
  BY DEF Inv, OffStack, StackNotFreed
<1> QED
  BY <1>1, Invariance, PTL

\* exit(), wait() and kill() (proc.c): nobody sleeps in wait() with a kill or, init aside, a
\* zombie child pending
THEOREM ProcWaitersNotified == Spec => []WaitersNotified
<1>1. Inv => WaitersNotified
  BY DEF Inv
<1> QED
  BY <1>1, Invariance, PTL

\* exit() and wait() (proc.c): "the parent-then-child rule" keeps the process locks free of
\* deadlock for every size of the table, as long as no slot is allocated again between the
\* moment an exit() reads p->parent and the moment it releases that parent's lock
THEOREM ProcLocksOrdered == Spec => []LocksOrdered
<1>1. Init => Ages /\ Owners
  BY SlotFacts DEF Init, Ages, Owners
<1>2. Inv /\ Ages /\ Owners /\ [Next]_vars => (Ages /\ Owners)'
  BY NextAges, NextOwners
<1>3. Inv /\ Ages /\ Owners => LocksOrdered
  BY NoCycle DEF LocksOrdered
<1> QED
  BY <1>1, <1>2, <1>3, Invariance, PTL DEF Spec

=============================================================================
