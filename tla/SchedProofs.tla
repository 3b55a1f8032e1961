---------------------------- MODULE SchedProofs ----------------------------
(***************************************************************************)
(* The hand-over of p->lock between scheduler() and the kernel threads,    *)
(* and the sleep/wakeup protocol of kernel/proc.c, for every number of     *)
(* harts and processes:                                                    *)
(*   OneCPUHolds        no process runs on two harts, and a process whose  *)
(*                      lock is free and that does not run is off them all *)
(*   NoLostWakeupHolds  nobody sleeps on a condition that holds unless a   *)
(*                      wakeup() that will still reach the sleeper runs    *)
(***************************************************************************)
EXTENDS Sched, TLAPS

-----------------------------------------------------------------------------
(***************************************************************************)
(* The inductive invariant.                                                *)
(***************************************************************************)
\* where a thread executes with p->lock held, or resumes with it held
Locked == {"forkret", "yield", "sleep_release", "sleep", "slept"}

\* where a thread holds lk
Critical == {"test", "sleep_release", "wakeup"}

\* where sched() leaves a thread
Parked == {"forkret", "yield", "slept"}

\* no two harts have the same process
Injective == \A c, d \in CPUs : cpu[c] # None /\ cpu[c] = cpu[d] => c = d

\* a RUNNING process is on a hart, and a process that is on a hart and has stopped
\* RUNNING, or is at a place where the lock is held, is locked by that hart
Hosted ==
  \A p \in Procs :
    /\ state[p] = "RUNNING" => \E c \in CPUs : cpu[c] = p
    /\ \A c \in CPUs :
         cpu[c] = p => plock[p] = IF state[p] # "RUNNING" \/ pc[p] \in Locked THEN c ELSE None

\* p->lock is held only by the hart that has the process
Owned == \A p \in Procs : \A c \in CPUs : plock[p] = c => cpu[c] = p

\* a process that does not run is where sched() left it, a sleeper in sleep()
Stopped ==
  \A p \in Procs :
    /\ state[p] # "RUNNING" => pc[p] \in Parked
    /\ state[p] = "SLEEPING" => pc[p] = "slept"

\* lk excludes: whoever is between acquire(lk) and release(lk) is on the hart that holds it
Exclusive == \A p \in Procs : pc[p] \in Critical => lk \in CPUs /\ cpu[lk] = p

\* a wakeup() that will still look at process p is under way
Coming(p) == \E q \in Procs : pc[q] = "wakeup" /\ wi[q] <= p

\* the condition is false where sleep() has found it so with lk still held; once lk is
\* released it may become true, but only together with a wakeup() that waits for p->lock
Noticed ==
  \A p \in Procs :
    /\ pc[p] = "sleep_release" => ~cond
    /\ (pc[p] = "sleep" \/ state[p] = "SLEEPING") /\ cond => Coming(p)

Inv == TypeOK /\ Injective /\ Hosted /\ Owned /\ Stopped /\ Exclusive /\ Noticed

-----------------------------------------------------------------------------
\* the loops over proc[] start at its first slot, stay inside it, and have passed a slot
\* only when they are beyond it
LEMMA Slots ==
  /\ 1 \in Procs
  /\ \A i \in Procs : i # NPROC => i + 1 \in Procs
  /\ \A i, j \in Procs : i <= j /\ i # j => i + 1 <= j
  /\ \A i \in Procs : 1 <= i /\ (NPROC <= i => i = NPROC)
  BY SchedAssumption DEF Procs

(***************************************************************************)
(* One lemma per action.                                                   *)
(***************************************************************************)
\* scheduler() picks a RUNNABLE process whose lock is free, so no hart has it
LEMMA Keeps_scheduler ==
  ASSUME Inv, NEW c \in CPUs, scheduler(c), UNCHANGED online
  PROVE  Inv'
<1> USE SchedAssumption DEF Inv, TypeOK, scheduler, NextScan
<1>1. TypeOK'
  BY Slots
<1>2. Injective'
  BY DEF Injective, Hosted
<1>3. Hosted'
  BY DEF Hosted, Stopped, Locked, Parked
<1>4. Owned'
  BY DEF Owned
<1>5. Stopped'
  BY DEF Stopped
<1>6. Exclusive'
  BY DEF Exclusive
<1>7. Noticed'
  BY DEF Noticed, Coming
<1> QED
  BY <1>1, <1>2, <1>3, <1>4, <1>5, <1>6, <1>7

\* the scheduler leaves the process it ran and releases its lock
LEMMA Keeps_swtch_back ==
  ASSUME Inv, NEW c \in CPUs, NEW p \in Procs, swtch_back(c, p), UNCHANGED online
  PROVE  Inv'
<1> USE SchedAssumption DEF Inv, TypeOK, swtch_back, NextScan
<1>1. TypeOK'
  BY Slots
<1>2. Injective'
  BY DEF Injective
<1>3. Hosted'
  BY DEF Hosted
<1>4. Owned'
  BY DEF Owned
<1>5. Stopped'
  BY DEF Stopped
<1>6. Exclusive'
  BY DEF Stopped, Exclusive, Critical, Parked
<1>7. Noticed'
  BY DEF Noticed, Coming
<1> QED
  BY <1>1, <1>2, <1>3, <1>4, <1>5, <1>6, <1>7

\* forkret() and yield() release the lock that the scheduler took
LEMMA Keeps_resume ==
  ASSUME Inv, NEW c \in CPUs, NEW p \in Procs, resume(c, p), UNCHANGED online
  PROVE  Inv'
<1> USE SchedAssumption DEF Inv, TypeOK, resume, On, Goto
<1>1. TypeOK'
  OBVIOUS
<1>2. Injective'
  BY DEF Injective
<1>3. Hosted'
  BY DEF Hosted, Locked
<1>4. Owned'
  BY DEF Owned
<1>5. Stopped'
  BY DEF Stopped
<1>6. Exclusive'
  BY DEF Exclusive, Critical
<1>7. Noticed'
  BY DEF Noticed, Coming
<1> QED
  BY <1>2, <1>3, <1>4, <1>5, <1>6, <1>7

\* yield() gives the process away with its lock held
LEMMA Keeps_yield ==
  ASSUME Inv, NEW c \in CPUs, NEW p \in Procs, yield(c, p), UNCHANGED online
  PROVE  Inv'
<1> USE SchedAssumption DEF Inv, TypeOK, yield, On, Goto
<1>1. TypeOK'
  OBVIOUS
<1>2. Injective'
  BY DEF Injective
<1>3. Hosted'
  BY DEF Injective, Hosted
<1>4. Owned'
  BY DEF Owned
<1>5. Stopped'
  BY DEF Stopped, Parked
<1>6. Exclusive'
  BY DEF Exclusive, Critical
<1>7. Noticed'
  BY DEF Noticed, Coming
<1> QED
  BY <1>2, <1>3, <1>4, <1>5, <1>6, <1>7

\* a waiter acquires lk
LEMMA Keeps_wait_acquire ==
  ASSUME Inv, NEW c \in CPUs, NEW p \in Procs, wait_acquire(c, p), UNCHANGED online
  PROVE  Inv'
<1> USE SchedAssumption DEF Inv, TypeOK, wait_acquire, On, Goto
<1>1. TypeOK'
  OBVIOUS
<1>2. Injective'
  BY DEF Injective
<1>3. Hosted'
  BY DEF Hosted, Locked
<1>4. Owned'
  BY DEF Owned
<1>5. Stopped'
  BY DEF Stopped
<1>6. Exclusive'
  BY DEF Exclusive
<1>7. Noticed'
  BY DEF Noticed, Coming
<1> QED
  BY <1>2, <1>3, <1>4, <1>5, <1>6, <1>7

\* a waiter uses the condition up
LEMMA Keeps_wait_done ==
  ASSUME Inv, NEW c \in CPUs, NEW p \in Procs, wait_done(c, p), UNCHANGED online
  PROVE  Inv'
<1> USE SchedAssumption DEF Inv, TypeOK, wait_done, On, Goto
<1>1. TypeOK'
  OBVIOUS
<1>2. Injective'
  BY DEF Injective
<1>3. Hosted'
  BY DEF Hosted, Locked
<1>4. Owned'
  BY DEF Owned
<1>5. Stopped'
  BY DEF Stopped
<1>6. Exclusive'
  BY DEF Exclusive, Critical
<1>7. Noticed'
  BY DEF Noticed
<1> QED
  BY <1>2, <1>3, <1>4, <1>5, <1>6, <1>7

\* sleep() takes p->lock while lk keeps the condition false
LEMMA Keeps_sleep_lock ==
  ASSUME Inv, NEW c \in CPUs, NEW p \in Procs, sleep_lock(c, p), UNCHANGED online
  PROVE  Inv'
<1> USE SchedAssumption DEF Inv, TypeOK, sleep_lock, On, Goto
<1>1. TypeOK'
  OBVIOUS
<1>2. Injective'
  BY DEF Injective
<1>3. Hosted'
  BY DEF Injective, Hosted, Locked
<1>4. Owned'
  BY DEF Owned
<1>5. Stopped'
  BY DEF Stopped
<1>6. Exclusive'
  BY DEF Exclusive, Critical
<1>7. Noticed'
  BY DEF Noticed
<1> QED
  BY <1>2, <1>3, <1>4, <1>5, <1>6, <1>7

\* sleep() releases lk
LEMMA Keeps_sleep_release ==
  ASSUME Inv, NEW c \in CPUs, NEW p \in Procs, sleep_release(c, p), UNCHANGED online
  PROVE  Inv'
<1> USE SchedAssumption DEF Inv, TypeOK, sleep_release, On, Goto
<1>1. TypeOK'
  OBVIOUS
<1>2. Injective'
  BY DEF Injective
<1>3. Hosted'
  BY DEF Hosted, Locked
<1>4. Owned'
  BY DEF Owned
<1>5. Stopped'
  BY DEF Stopped
<1>6. Exclusive'
  BY DEF Exclusive, Critical
<1>7. Noticed'
  BY DEF Noticed
<1> QED
  BY <1>2, <1>3, <1>4, <1>5, <1>6, <1>7

\* sleep() goes to sleep; a wakeup() under way has not passed it
LEMMA Keeps_sleep ==
  ASSUME Inv, NEW c \in CPUs, NEW p \in Procs, sleep(c, p), UNCHANGED online
  PROVE  Inv'
<1> USE SchedAssumption DEF Inv, TypeOK, sleep, On, Goto
<1>1. TypeOK'
  OBVIOUS
<1>2. Injective'
  BY DEF Injective
<1>3. Hosted'
  BY DEF Hosted, Locked
<1>4. Owned'
  BY DEF Owned
<1>5. Stopped'
  BY DEF Stopped, Parked
<1>6. Exclusive'
  BY DEF Exclusive, Critical
<1>7. Noticed'
  BY DEF Noticed, Coming
<1> QED
  BY <1>2, <1>3, <1>4, <1>5, <1>6, <1>7

\* the end of sleep() releases p->lock
LEMMA Keeps_sleep_return ==
  ASSUME Inv, NEW c \in CPUs, NEW p \in Procs, sleep_return(c, p), UNCHANGED online
  PROVE  Inv'
<1> USE SchedAssumption DEF Inv, TypeOK, sleep_return, On, Goto
<1>1. TypeOK'
  OBVIOUS
<1>2. Injective'
  BY DEF Injective
<1>3. Hosted'
  BY DEF Hosted, Locked
<1>4. Owned'
  BY DEF Owned
<1>5. Stopped'
  BY DEF Stopped
<1>6. Exclusive'
  BY DEF Exclusive, Critical
<1>7. Noticed'
  BY DEF Noticed, Coming
<1> QED
  BY <1>2, <1>3, <1>4, <1>5, <1>6, <1>7

\* the condition becomes true with a wakeup() that starts at the first process
LEMMA Keeps_signal ==
  ASSUME Inv, NEW c \in CPUs, NEW p \in Procs, signal(c, p), UNCHANGED online
  PROVE  Inv'
<1> USE SchedAssumption DEF Inv, TypeOK, signal, On, Goto
<1>1. TypeOK'
  BY Slots
<1>2. Injective'
  BY DEF Injective
<1>3. Hosted'
  BY DEF Hosted, Locked
<1>4. Owned'
  BY DEF Owned
<1>5. Stopped'
  BY DEF Stopped
<1>6. Exclusive'
  BY DEF Exclusive
<1>7. Noticed'
  BY Slots DEF Exclusive, Noticed, Coming, Critical
<1> QED
  BY <1>1, <1>2, <1>3, <1>4, <1>5, <1>6, <1>7

\* wakeup() passes a process only when the lock of the process is free
LEMMA Keeps_wakeup ==
  ASSUME Inv, NEW c \in CPUs, NEW p \in Procs, wakeup(c, p), UNCHANGED online
  PROVE  Inv'
<1> USE SchedAssumption DEF Inv, TypeOK, wakeup, On, Goto, Rouse
<1>1. TypeOK'
  BY Slots
<1>2. Injective'
  BY DEF Injective
<1>3. Hosted'
  BY DEF Hosted, Locked
<1>4. Owned'
  BY DEF Owned
<1>5. Stopped'
  BY DEF Stopped
<1>6. Exclusive'
  BY DEF Exclusive, Critical
<1>7. Noticed'
  BY Slots DEF Hosted, Stopped, Noticed, Coming, Parked, Locked
<1> QED
  BY <1>1, <1>2, <1>3, <1>4, <1>5, <1>6, <1>7

\* kill() rouses a process whose lock is free
LEMMA Keeps_kill ==
  ASSUME Inv, NEW c \in CPUs, NEW p \in Procs, NEW q \in Procs, kill(c, p, q), UNCHANGED online
  PROVE  Inv'
<1> USE SchedAssumption DEF Inv, TypeOK, kill, On, Rouse
<1>1. TypeOK'
  OBVIOUS
<1>2. Injective'
  BY DEF Injective
<1>3. Hosted'
  BY DEF Hosted
<1>4. Owned'
  BY DEF Owned
<1>5. Stopped'
  BY DEF Stopped
<1>6. Exclusive'
  BY DEF Exclusive
<1>7. Noticed'
  BY DEF Noticed, Coming
<1> QED
  BY <1>2, <1>3, <1>4, <1>5, <1>6, <1>7

-----------------------------------------------------------------------------
(***************************************************************************)
(* The theorems.                                                           *)
(***************************************************************************)
\* every process starts RUNNABLE, parked at forkret(), off every hart
LEMMA InitInv == Init => Inv
<1> SUFFICES ASSUME Init PROVE Inv
  OBVIOUS
<1> USE SchedAssumption DEF Init
<1>1. TypeOK
  BY Slots DEF TypeOK
<1>2. Injective /\ Hosted /\ Owned
  BY DEF Injective, Hosted, Owned
<1>3. Stopped /\ Exclusive /\ Noticed
  BY DEF Stopped, Parked, Exclusive, Critical, Noticed
<1> QED
  BY <1>1, <1>2, <1>3 DEF Inv

\* a hart that comes online has touched nothing the invariant speaks of
LEMMA Keeps_main ==
  ASSUME Inv, NEW c \in CPUs, main(c)
  PROVE  Inv'
<1> USE DEF main, Inv
<1>1. TypeOK'
  BY DEF TypeOK
<1>2. Injective' /\ Hosted' /\ Owned' /\ Stopped' /\ Exclusive'
  BY DEF Injective, Hosted, Owned, Stopped, Exclusive
<1>3. Noticed'
  BY DEF Noticed, Coming
<1> QED
  BY <1>1, <1>2, <1>3

\* every step of every hart preserves the invariant
LEMMA NextInv == Inv /\ [Next]_vars => Inv'
<1> SUFFICES ASSUME Inv, [Next]_vars PROVE Inv'
  OBVIOUS
<1>1. ASSUME NEW c \in CPUs, main(c) PROVE Inv'
  BY <1>1, Keeps_main
<1>2. ASSUME NEW c \in online, Step(c), UNCHANGED online PROVE Inv'
  <2>1. c \in CPUs
    BY DEF Inv, TypeOK
  <2>2. CASE scheduler(c)
    BY <1>2, <2>1, <2>2, Keeps_scheduler
  <2>3. ASSUME NEW p \in Procs, Thread(c, p) PROVE Inv'
    BY <1>2, <2>1, <2>3, Keeps_swtch_back, Keeps_resume, Keeps_wait_done, Keeps_sleep_lock,
       Keeps_sleep_release, Keeps_sleep, Keeps_sleep_return, Keeps_wakeup, Keeps_wait_acquire
       DEF Thread
  <2>4. ASSUME NEW p \in Procs, yield(c, p) \/ wait_acquire(c, p) \/ signal(c, p) PROVE Inv'
    BY <1>2, <2>1, <2>4, Keeps_yield, Keeps_wait_acquire, Keeps_signal
  <2>5. ASSUME NEW p \in Procs, NEW q \in Procs, kill(c, p, q) PROVE Inv'
    BY <1>2, <2>1, <2>5, Keeps_kill
  <2> QED
    BY <1>2, <2>2, <2>3, <2>4, <2>5 DEF Step
<1>3. CASE UNCHANGED vars
  <2> USE <1>3 DEF vars, Inv
  <2>1. TypeOK'
    BY DEF TypeOK
  <2>2. Injective' /\ Hosted' /\ Owned' /\ Stopped' /\ Exclusive'
    BY DEF Injective, Hosted, Owned, Stopped, Exclusive
  <2>3. Noticed'
    BY DEF Noticed, Coming
  <2> QED
    BY <2>1, <2>2, <2>3
<1> QED
  BY <1>1, <1>2, <1>3 DEF Next

\* the inductive invariant holds in every behaviour of the scheduler
THEOREM Invariance == Spec => []Inv
<1> QED
  BY InitInv, NextInv, PTL DEF Spec

\* scheduler(), sched() and swtch() (proc.c): whatever the number of harts, no process is
\* executed by two of them, and a process whose lock is free has been left by its hart
THEOREM OneCPUHolds == Spec => []OneCPU
<1>1. Inv => OneCPU
  <2> SUFFICES ASSUME Inv PROVE OneCPU
    OBVIOUS
  <2>1. SavedBeforeUnlocked
    BY SchedAssumption DEF Inv, Hosted, SavedBeforeUnlocked
  <2> QED
    BY <2>1 DEF Inv, Injective, OneCPU
<1> QED
  BY <1>1, Invariance, PTL

\* sleep() and wakeup() (proc.c:508): nobody sleeps on a condition that holds, unless a
\* wakeup() that will still reach the sleeper is under way
THEOREM NoLostWakeupHolds == Spec => []NoLostWakeup
<1>1. Inv => NoLostWakeup
  BY DEF Inv, Stopped, Parked, Noticed, Coming, NoLostWakeup
<1> QED
  BY <1>1, Invariance, PTL

=============================================================================
