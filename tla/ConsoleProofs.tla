--------------------------- MODULE ConsoleProofs ---------------------------
(***************************************************************************)
(* The console, the UART and the clock (kernel/console.c, kernel/uart.c,   *)
(* kernel/trap.c, sys_sleep() of kernel/sysproc.c) for any number of harts *)
(* and any sizes of the buffers and of an unsigned int:                    *)
(*   ConsoleDevicesSafe   push_off() and pop_off() match, THR is written   *)
(*                        only when it is empty but for races with kernel  *)
(*                        printf(), nobody sleeps with a line or its time  *)
(*                        at hand                                          *)
(*   ConsoleSleptEnough   sleep(n) lasts n ticks, across the wrap of ticks *)
(*   ConsoleLines         the ring with its three indices is an editable   *)
(*                        line and a queue of ended lines                  *)
(***************************************************************************)
EXTENDS Console, FiniteSetTheorems, SequenceTheorems, TLAPS

-----------------------------------------------------------------------------
(***************************************************************************)
(* The inductive invariant.                                                *)
(***************************************************************************)
\* the locks, the keys, what cons.buf may hold, where a process may be
Locks == {"cons", "tx", "ticks", "pr"}
Keys  == {"a", "cr", "nl", "^D", "^H", "^U", "^P"}
Texts == {"none", "a", "nl", "^D"}
PCs   == {"user", "read", "write", "put", "start", "thr", "sleep", "printf", "printf_thr"}

\* the handler between plic_claim() and plic_complete(), and all of them
Served == {"getc", "char", "echo", "echo_thr", "printf", "printf_thr", "start", "thr", "complete"}
Traps  == Served \cup {"none", "claim", "tick", "sip"}

\* a hart and a process
HartType == [noff : {0, 1, 2}, intena : BOOLEAN, sie : BOOLEAN, want : Locks \cup {"none"},
             trap : Traps, c : Keys \cup {"none"}, echo : {0, 1}]
ProcType == [pc : PCs, state : {"run", "asleep", "woken"}, chan : {"none", "cons", "ticks"},
             intena : BOOLEAN, n : Nat, got : Nat, t0 : 0..(UINT - 1), since : Nat,
             killed : BOOLEAN]

\* the UART
UartType == [rx : Keys \cup {"none"}, thr : Nat, pr : BOOLEAN]

\* the types of the variables
Typed ==
  /\ work \in Workloads
  /\ cons \in [buf : [BufSlots -> Texts], r : 0..(UINT - 1), w : 0..(UINT - 1), e : 0..(UINT - 1)]
  /\ tx \in [r : Slots, w : Slots]
  /\ lock \in [Locks -> Harts \cup {0}]
  /\ ticks \in 0..(UINT - 1)
  /\ hart \in [Harts -> HartType]
  /\ proc \in [Harts -> ProcType]
  /\ uart \in UartType
  /\ plic \in [pending : BOOLEAN, claimed : Harts \cup {0}]
  /\ sip \in BOOLEAN
  /\ panicked \in {"none", "sched locks"}

\* the locks that the code a hart executes holds or spins for; x is the hart, q its process
Runs(x, q, pcs) == x.trap = "none" /\ q.state = "run" /\ q.pc \in pcs
UsesCons(x, q) == \/ x.trap \in {"char", "echo", "echo_thr", "printf", "printf_thr"}
                  \/ Runs(x, q, {"read", "write", "put", "start", "thr"})
UsesTx(x, q) == x.trap \in {"start", "thr"} \/ Runs(x, q, {"put", "start", "thr"})
UsesTicks(x, q) == x.trap = "tick" \/ Runs(x, q, {"sleep"})
UsesPr(x, q) == x.trap \in {"printf", "printf_thr"} \/ Runs(x, q, {"printf", "printf_thr"})

\* an interrupt comes only when the process holds no lock, and sleep() is called with one
\* lock; noff counts the locks, intena is what the interrupts were before the first
Balanced(x, q) ==
  /\ x.trap # "none" => q.pc = "user" \/ q.state # "run"
  /\ q.state # "run" => /\ q.intena
                        /\ \/ q.pc = "read" /\ q.chan = "cons"
                           \/ q.pc = "sleep" /\ q.chan = "ticks" /\ q.got = 1
  /\ x.noff = 0 <=> ~UsesCons(x, q) /\ ~UsesTx(x, q) /\ ~UsesTicks(x, q) /\ ~UsesPr(x, q)
  /\ x.noff = 2 <=> UsesCons(x, q) /\ (UsesTx(x, q) \/ UsesPr(x, q))
  /\ x.want = "cons" => x.trap = "char" \/ Runs(x, q, {"read", "write"})
  /\ x.want = "tx" => x.trap = "start" \/ Runs(x, q, {"put"})
  /\ x.want = "ticks" => UsesTicks(x, q)
  /\ x.want = "pr" => x.trap = "printf" \/ Runs(x, q, {"printf"})
  /\ x.sie <=> x.noff = 0 /\ x.trap = "none"
  /\ x.noff # 0 => (x.intena <=> x.trap = "none")
  /\ x.trap = "char" => x.c # "none"

\* a hart has the locks it uses but for the one it spins for
Holds(h, l, x, q) ==
  /\ l["cons"] = h <=> UsesCons(x, q) /\ x.want # "cons"
  /\ l["tx"] = h <=> UsesTx(x, q) /\ x.want # "tx"
  /\ l["ticks"] = h <=> UsesTicks(x, q) /\ x.want # "ticks"
  /\ l["pr"] = h <=> UsesPr(x, q) /\ x.want # "pr"

\* the PLIC d has one hart in the handler, and the clock is the first hart's; s is sip
Claims(h, x, d, s) ==
  /\ x.trap \in Served => d.claimed = h
  /\ x.trap \in {"tick", "sip"} => h = 1
  /\ x.trap = "tick" => s

\* THR of the UART u is empty when a hart is about to write it, but for what printf() wrote
Sends(x, q) == x.trap \in {"thr", "echo_thr"} \/ Runs(x, q, {"thr"})
Sending(x, q, u) == Sends(x, q) => u.thr = 0 \/ u.pr

\* since counts the ticks since t0; t is ticks
Dozing(q) == q.pc = "sleep" /\ q.got = 1
Clocked(q, t) ==
  /\ Dozing(q) => q.since = (t - q.t0) % UINT
  /\ ~Dozing(q) => q.since = 0
  /\ q.pc = "sleep" => q.got \in {0, 1}
  /\ q.pc = "user" => q.got = 0

\* whoever sleeps has a reason; c is cons
Reason(q, c) ==
  q.state = "asleep" => /\ q.chan = "cons" => c.r = c.w
                        /\ q.chan = "ticks" => q.since < q.n

\* all that holds of one hart
HartInv(h, x, q) ==
  /\ Balanced(x, q) /\ Holds(h, lock, x, q)
  /\ Claims(h, x, plic, sip) /\ Sending(x, q, uart) /\ Clocked(q, ticks) /\ Reason(q, cons)

\* the next tick makes nobody 2^w ticks late
NextTick == sip /\ hart[1].trap # "sip" => \A h \in Harts : proc[h].since < UINT - 1

\* the inductive invariant
Inv ==
  /\ Typed
  /\ \A h \in Harts : HartInv(h, hart[h], proc[h])
  /\ uart.thr <= 1 \/ uart.pr
  /\ NextTick

\* what SleptEnough says of a step
Slept ==
  \A h \in Harts : (Dozing(proc[h]) /\ ~proc[h].killed /\ proc'[h].pc = "user")
    => proc[h].since >= proc[h].n

-----------------------------------------------------------------------------
(***************************************************************************)
(* Lemmas about the steps of a hart.                                       *)
(***************************************************************************)
\* what the assumptions say of the sizes
LEMMA Sizes ==
  /\ 0 \notin Harts /\ 1 \in Harts
  /\ INPUT_BUF \in Nat \ {0} /\ UART_TX_BUF_SIZE \in Nat \ {0, 1}
  /\ UINT \in Nat \ {0} /\ INPUT_BUF < UINT
  /\ \A x \in Int : /\ x % UINT \in 0..(UINT - 1)
                    /\ x % UART_TX_BUF_SIZE \in Slots
                    /\ x % INPUT_BUF \in BufSlots
<1>1. /\ 0 \notin Harts /\ 1 \in Harts
      /\ INPUT_BUF \in Nat \ {0} /\ UART_TX_BUF_SIZE \in Nat \ {0, 1}
      /\ UINT \in Nat \ {0} /\ INPUT_BUF < UINT
  BY ConsoleAssumption
<1> QED
  BY <1>1 DEF Slots, BufSlots

\* the fields of a hart
LEMMA HartFields ==
  ASSUME NEW x \in HartType
  PROVE  /\ x.noff \in {0, 1, 2} /\ x.intena \in BOOLEAN /\ x.sie \in BOOLEAN /\ x.want \in Locks \cup {"none"}
         /\ x.trap \in Traps /\ x.c \in Keys \cup {"none"} /\ x.echo \in {0, 1}
         /\ x = [noff |-> x.noff, intena |-> x.intena, sie |-> x.sie, want |-> x.want, trap |-> x.trap,
                 c |-> x.c, echo |-> x.echo]
BY DEF HartType

\* the fields of a process
LEMMA ProcFields ==
  ASSUME NEW p \in ProcType
  PROVE  /\ p.pc \in PCs /\ p.state \in {"run", "asleep", "woken"} /\ p.chan \in {"none", "cons", "ticks"}
         /\ p.intena \in BOOLEAN /\ p.n \in Nat /\ p.got \in Nat /\ p.t0 \in 0..(UINT - 1)
         /\ p.since \in Nat /\ p.killed \in BOOLEAN
         /\ p = [pc |-> p.pc, state |-> p.state, chan |-> p.chan, intena |-> p.intena, n |-> p.n,
                 got |-> p.got, t0 |-> p.t0, since |-> p.since, killed |-> p.killed]
BY DEF ProcType

\* push_off() and pop_off(), for no lock, one lock and two locks
Pushed(x, k) == [push_off(x) EXCEPT !.want = k]

Pushes(x, k, y) ==
  /\ x.noff = 0 => y.noff = 1 /\ (y.intena <=> x.sie)
  /\ x.noff = 1 => y.noff = 2 /\ (y.intena <=> x.intena)
  /\ ~y.sie /\ y.want = k /\ y.trap = x.trap /\ y.c = x.c /\ y.echo = x.echo

Pops(x, y) ==
  /\ x.noff = 1 => y.noff = 0 /\ (y.sie <=> x.intena)
  /\ x.noff = 2 => y.noff = 1 /\ ~y.sie
  /\ y.intena = x.intena /\ y.want = x.want /\ y.trap = x.trap /\ y.c = x.c /\ y.echo = x.echo

\* push_off() keeps the type
LEMMA PushFields ==
  ASSUME NEW x \in HartType, x.noff = 0 \/ x.noff = 1, NEW k \in Locks
  PROVE  Pushed(x, k) \in HartType /\ Pushes(x, k, Pushed(x, k))
<1> DEFINE y == Pushed(x, k)
           n == x.noff + 1
           i == IF x.noff = 0 THEN x.sie ELSE x.intena
<1>1. /\ x.noff = 0 => n = 1 /\ i = x.sie
      /\ x.noff = 1 => n = 2 /\ i = x.intena
  OBVIOUS
<1>2. y = [x EXCEPT !.noff = n, !.intena = i, !.sie = FALSE, !.want = k]
  BY DEF push_off, Pushed
<1> HIDE DEF y, n, i
<1>3. CASE x.noff = 0
  <2>1. y \in HartType
    BY <1>1, <1>2, <1>3 DEF HartType
  <2>2. y.noff = 1 /\ (y.intena <=> x.sie)
    BY <1>1, <1>2, <1>3 DEF HartType
  <2>3. ~y.sie /\ y.want = k /\ y.trap = x.trap /\ y.c = x.c /\ y.echo = x.echo
    BY <1>1, <1>2, <1>3 DEF HartType
  <2>4. Pushes(x, k, y)
    BY <1>3, <2>2, <2>3 DEF Pushes
  <2> QED
    BY <2>1, <2>4 DEF y
<1>4. CASE x.noff = 1
  <2>1. y \in HartType
    BY <1>1, <1>2, <1>4 DEF HartType
  <2>2. y.noff = 2 /\ (y.intena <=> x.intena)
    BY <1>1, <1>2, <1>4 DEF HartType
  <2>3. ~y.sie /\ y.want = k /\ y.trap = x.trap /\ y.c = x.c /\ y.echo = x.echo
    BY <1>1, <1>2, <1>4 DEF HartType
  <2>4. Pushes(x, k, y)
    BY <1>4, <2>2, <2>3 DEF Pushes
  <2> QED
    BY <2>1, <2>4 DEF y
<1> QED
  BY <1>3, <1>4

\* pop_off() keeps the type
LEMMA PopFields ==
  ASSUME NEW x \in HartType, x.noff = 1 \/ x.noff = 2
  PROVE  pop_off(x) \in HartType /\ Pops(x, pop_off(x))
<1> DEFINE y == pop_off(x)
           n == x.noff - 1
           s == x.noff = 1 /\ x.intena
<1>1. /\ x.noff = 1 => n = 0 /\ (s <=> x.intena)
      /\ x.noff = 2 => n = 1 /\ ~s
      /\ s \in BOOLEAN
  OBVIOUS
<1>2. y = [x EXCEPT !.noff = n, !.sie = s]
  BY DEF pop_off
<1> HIDE DEF y, n, s
<1>3. CASE x.noff = 1
  <2>1. y \in HartType
    BY <1>1, <1>2, <1>3 DEF HartType
  <2>2. y.noff = 0 /\ (y.sie <=> s)
    BY <1>1, <1>2, <1>3 DEF HartType
  <2>3. y.intena = x.intena /\ y.want = x.want /\ y.trap = x.trap /\ y.c = x.c /\ y.echo = x.echo
    BY <1>1, <1>2, <1>3 DEF HartType
  <2>4. Pops(x, y)
    BY <1>3, <1>1, <2>2, <2>3 DEF Pops
  <2> QED
    BY <2>1, <2>4 DEF y
<1>4. CASE x.noff = 2
  <2>1. y \in HartType
    BY <1>1, <1>2, <1>4 DEF HartType
  <2>2. y.noff = 1 /\ (y.sie <=> s)
    BY <1>1, <1>2, <1>4 DEF HartType
  <2>3. y.intena = x.intena /\ y.want = x.want /\ y.trap = x.trap /\ y.c = x.c /\ y.echo = x.echo
    BY <1>1, <1>2, <1>4 DEF HartType
  <2>4. Pops(x, y)
    BY <1>4, <1>1, <2>2, <2>3 DEF Pops
  <2> QED
    BY <2>1, <2>4 DEF y
<1> QED
  BY <1>3, <1>4

\* two states of a process that differ in nothing that the locking depends on
Alike(p, q) ==
  /\ p.pc = q.pc /\ p.chan = q.chan /\ p.intena = q.intena /\ p.got = q.got
  /\ p.state = "run" <=> q.state = "run"

\* a step of hart h leaves the locks of the other harts alone ...
LockMoves(h) ==
  \/ lock' = lock
  \/ \E k \in Locks, v \in {0, h} : lock[k] \in {0, h} /\ lock' = [lock EXCEPT ![k] = v]

\* what LockMoves leaves to the other harts
LEMMA LocksMove ==
  ASSUME Inv, NEW h \in Harts, LockMoves(h)
  PROVE  /\ lock' \in [Locks -> Harts \cup {0}]
         /\ \A g \in Harts \ {h}, k \in Locks : lock'[k] = g <=> lock[k] = g
<1>1. lock \in [Locks -> Harts \cup {0}]
  BY DEF Inv, Typed
<1>2. ASSUME NEW k \in Locks, NEW v \in {0, h}, lock[k] \in {0, h}, lock' = [lock EXCEPT ![k] = v]
      PROVE  /\ lock' \in [Locks -> Harts \cup {0}]
             /\ \A g \in Harts \ {h}, j \in Locks : lock'[j] = g <=> lock[j] = g
  BY <1>1, <1>2, Sizes
<1> QED
  BY <1>1, <1>2 DEF LockMoves

\* ... and what the other harts and their processes rely on: the claim of the PLIC, the clock,
\* an empty THR and a wait for input
Frame(h) ==
  /\ plic'.claimed = plic.claimed \/ \A g \in Harts \ {h} : hart[g].trap \notin Served
  /\ (sip' <=> sip) \/ h = 1
  /\ (uart'.thr = uart.thr /\ uart'.pr = uart.pr) \/ uart'.thr = 0 \/ uart'.pr \/ \A g \in Harts \ {h} : ~Sends(hart[g], proc[g])

\* another hart, whose process was at most woken
LEMMA OtherHart ==
  ASSUME Inv, NEW h \in Harts, LockMoves(h), Frame(h), NEW g \in Harts \ {h},
         NEW q \in ProcType, Alike(q, proc[g]),
         Clocked(q, ticks'), Reason(q, cons')
  PROVE  Balanced(hart[g], q) /\ Holds(g, lock', hart[g], q) /\ Claims(g, hart[g], plic', sip')
           /\ Sending(hart[g], q, uart')
<1> DEFINE x == hart[g]
           p == proc[g]
<1>1. /\ Balanced(x, p) /\ Holds(g, lock, x, p) /\ Claims(g, x, plic, sip) /\ Sending(x, p, uart)
  BY DEF Inv, HartInv
<1>2. \A k \in Locks : lock'[k] = g <=> lock[k] = g
  BY LocksMove
<1>3. Claims(g, x, plic', sip')
  BY <1>1 DEF Claims, Frame
<1>4. Sends(x, q) <=> Sends(x, p)
  BY DEF Sends, Runs, Alike
<1>5. Sending(x, q, uart')
  BY <1>1, <1>4 DEF Sending, Frame
<1> HIDE DEF x, p
<1>6. Alike(q, p)
  BY DEF p
<1>7. /\ UsesCons(x, q) <=> UsesCons(x, p)
      /\ UsesTx(x, q) <=> UsesTx(x, p)
      /\ UsesTicks(x, q) <=> UsesTicks(x, p)
      /\ UsesPr(x, q) <=> UsesPr(x, p)
  BY <1>6 DEF Alike, UsesCons, UsesTx, UsesTicks, UsesPr, Runs
<1>8. Balanced(x, q)
  BY <1>1, <1>6, <1>7 DEF Alike, Balanced, Runs
<1>9. Holds(g, lock', x, q)
  BY <1>1, <1>2, <1>7 DEF Holds, Locks
<1> QED
  BY <1>3, <1>5, <1>8, <1>9 DEF x

\* what the variables that are not of one hart must keep
Rest ==
  /\ work' \in Workloads
  /\ cons' \in [buf : [BufSlots -> Texts], r : 0..(UINT - 1), w : 0..(UINT - 1), e : 0..(UINT - 1)]
  /\ tx' \in [r : Slots, w : Slots]
  /\ uart' \in UartType /\ (uart'.thr <= 1 \/ uart'.pr)
  /\ plic' \in [pending : BOOLEAN, claimed : Harts \cup {0}]
  /\ sip' \in BOOLEAN
  /\ panicked' \in {"none", "sched locks"}

\* it is enough to look at the hart that takes the step
LEMMA Step ==
  ASSUME Inv, NEW h \in Harts, NEW y \in HartType, NEW q \in ProcType,
         hart' = [hart EXCEPT ![h] = y], proc' = [proc EXCEPT ![h] = q], ticks' = ticks,
         LockMoves(h), Frame(h), Rest,
         cons.r = cons.w => cons'.r = cons'.w,
         Balanced(y, q), Holds(h, lock', y, q), Claims(h, y, plic', sip'),
         Sending(y, q, uart'), Clocked(q, ticks), Reason(q, cons'),
         q.since <= proc[h].since,
         sip' /\ (h = 1 => y.trap # "sip") => sip /\ (h = 1 => hart[h].trap # "sip"),
         Dozing(proc[h]) /\ ~proc[h].killed /\ q.pc = "user" => proc[h].since >= proc[h].n
  PROVE  Inv' /\ Slept
<1>1. hart \in [Harts -> HartType] /\ proc \in [Harts -> ProcType] /\ ticks \in 0..(UINT - 1)
  BY DEF Inv, Typed
<1>2. /\ hart' \in [Harts -> HartType] /\ hart'[h] = y
      /\ proc' \in [Harts -> ProcType] /\ proc'[h] = q
      /\ \A g \in Harts \ {h} : hart'[g] = hart[g] /\ proc'[g] = proc[g]
  BY <1>1
<1>3. Typed' /\ (uart'.thr <= 1 \/ uart'.pr)
  BY <1>1, <1>2, LocksMove DEF Typed, Rest
<1>4. ASSUME NEW g \in Harts PROVE HartInv(g, hart[g], proc[g])'
  <2>1. CASE g = h
    BY <1>2, <2>1 DEF HartInv
  <2>2. CASE g # h
    <3>1. Clocked(proc[g], ticks) /\ Reason(proc[g], cons) /\ proc[g] \in ProcType
      BY <1>1 DEF Inv, HartInv
    <3>2. Clocked(proc[g], ticks') /\ Reason(proc[g], cons') /\ Alike(proc[g], proc[g])
      BY <3>1 DEF Reason, Alike
    <3>3. Balanced(hart[g], proc[g]) /\ Holds(g, lock', hart[g], proc[g])
            /\ Claims(g, hart[g], plic', sip') /\ Sending(hart[g], proc[g], uart')
      BY <2>2, <3>1, <3>2, OtherHart
    <3> QED
      BY <1>2, <2>2, <3>2, <3>3 DEF HartInv
  <2> QED
    BY <2>1, <2>2
<1>5. NextTick'
  <2> SUFFICES ASSUME sip', hart'[1].trap # "sip", NEW g \in Harts PROVE proc'[g].since < UINT - 1
    BY DEF NextTick
  <2>1. sip /\ hart[1].trap # "sip"
    BY <1>2, Sizes
  <2>2. proc[g].since < UINT - 1 /\ proc[h].since < UINT - 1
    BY <2>1 DEF Inv, NextTick
  <2>3. q.since \in Nat /\ proc[h].since \in Nat
    BY <1>1, ProcFields
  <2>4. CASE g = h
    <3> DEFINE a == q.since
               b == proc[h].since
               c == UINT - 1
    <3>1. a \in Nat /\ b \in Nat /\ c \in Int /\ a <= b /\ b < c
      BY <2>2, <2>3, Sizes
    <3> HIDE DEF a, b, c
    <3>2. a < c
      BY <3>1
    <3> QED
      BY <1>2, <2>4, <3>2 DEF a, c
  <2>5. CASE g # h
    BY <1>2, <2>2, <2>5
  <2> QED
    BY <2>4, <2>5
<1>6. Slept
  <2>1. ASSUME NEW g \in Harts, Dozing(proc[g]), proc'[g].pc = "user" PROVE g = h
    BY <1>2, <2>1 DEF Dozing
  <2> QED
    BY <1>2, <2>1 DEF Slept
<1> QED
  BY <1>3, <1>4, <1>5, <1>6 DEF Inv

\* what the invariant says of a hart
LEMMA HartIs ==
  ASSUME Inv, NEW h \in Harts
  PROVE  /\ hart[h] \in HartType /\ proc[h] \in ProcType
         /\ Balanced(hart[h], proc[h]) /\ Holds(h, lock, hart[h], proc[h])
         /\ Claims(h, hart[h], plic, sip) /\ Sending(hart[h], proc[h], uart)
         /\ Clocked(proc[h], ticks) /\ Reason(proc[h], cons)
         /\ hart \in [Harts -> HartType] /\ proc \in [Harts -> ProcType]
         /\ lock \in [Locks -> Harts \cup {0}]
BY DEF Inv, Typed, HartInv

\* the type of cons
ConsType == [buf : [BufSlots -> Texts], r : 0..(UINT - 1), w : 0..(UINT - 1), e : 0..(UINT - 1)]

\* the step of a hart that leaves the devices and the clock alone
LEMMA ReadStep ==
  ASSUME Inv, NEW h \in Harts, NEW y \in HartType, NEW q \in ProcType,
         hart' = [hart EXCEPT ![h] = y], proc' = [proc EXCEPT ![h] = q],
         UNCHANGED <<work, ticks, uart, plic, sip, panicked>>, tx' \in [r : Slots, w : Slots],
         cons' \in ConsType, cons.r = cons.w => cons'.r = cons'.w,
         LockMoves(h),
         Balanced(y, q), Holds(h, lock', y, q), Claims(h, y, plic, sip),
         Sending(y, q, uart), Clocked(q, ticks), Reason(q, cons'),
         q.since <= proc[h].since, y.trap # "sip" => hart[h].trap # "sip",
         Dozing(proc[h]) /\ ~proc[h].killed /\ q.pc = "user" => proc[h].since >= proc[h].n
  PROVE  Inv' /\ Slept
<1>1. Rest
  BY DEF Inv, Typed, Rest, ConsType
<1>2. Frame(h)
  BY DEF Frame
<1>3. Claims(h, y, plic', sip') /\ Sending(y, q, uart') /\ ticks' = ticks
  OBVIOUS
<1>5. sip' /\ (h = 1 => y.trap # "sip") => sip /\ (h = 1 => hart[h].trap # "sip")
  OBVIOUS
<1> QED
  BY <1>1, <1>2, <1>3, <1>5, Step

\* ... and the console
LEMMA QuietStep ==
  ASSUME Inv, NEW h \in Harts, NEW y \in HartType, NEW q \in ProcType,
         hart' = [hart EXCEPT ![h] = y], proc' = [proc EXCEPT ![h] = q],
         UNCHANGED <<work, cons, ticks, uart, plic, sip, panicked>>, tx' \in [r : Slots, w : Slots],
         LockMoves(h),
         Balanced(y, q), Holds(h, lock', y, q), Claims(h, y, plic, sip),
         Sending(y, q, uart), Clocked(q, ticks), Reason(q, cons),
         q.since <= proc[h].since, y.trap # "sip" => hart[h].trap # "sip",
         Dozing(proc[h]) /\ ~proc[h].killed /\ q.pc = "user" => proc[h].since >= proc[h].n
  PROVE  Inv' /\ Slept
<1>1. /\ cons' \in ConsType /\ (cons.r = cons.w => cons'.r = cons'.w) /\ Reason(q, cons')
      /\ UNCHANGED <<work, ticks, uart, plic, sip, panicked>>
  BY DEF Inv, Typed, ConsType
<1> QED
  BY <1>1, ReadStep

-----------------------------------------------------------------------------
(***************************************************************************)
(* The steps of a process.                                                 *)
(***************************************************************************)
\* where the hart is
LEMMA AtCall ==
  ASSUME Inv, NEW h \in Harts, NEW l \in {"user", "read", "write", "put", "sleep"}, At(h, l)
  PROVE  /\ panicked = "none" /\ hart[h].want = "none" /\ hart[h].trap = "none"
         /\ proc[h].pc = l /\ proc[h].state = "run"
<1>1. hart[h].trap \in Traps
  BY HartIs, HartFields
<1> QED
  BY <1>1 DEF At, Here, Traps, Served

\* a hart in a handler
LEMMA AtHandler ==
  ASSUME Inv, NEW h \in Harts,
         NEW l \in {"claim", "getc", "char", "echo", "echo_thr", "complete", "tick", "sip"}, At(h, l)
  PROVE  panicked = "none" /\ hart[h].want = "none" /\ hart[h].trap = l
<1>1. proc[h].pc \in PCs
  BY HartIs, ProcFields
<1> QED
  BY <1>1 DEF At, Here, PCs

\* a hart in uartstart() or in printf(), called by a process or by the handler
LEMMA AtStart ==
  ASSUME Inv, NEW h \in Harts, NEW l \in {"start", "thr", "printf", "printf_thr"}, At(h, l)
  PROVE  /\ panicked = "none" /\ hart[h].want = "none"
         /\ hart[h].trap = l \/ (hart[h].trap = "none" /\ proc[h].pc = l /\ proc[h].state = "run")
BY DEF At, Here

\* the locks of a hart, by what it executes
LEMMA Idles ==
  ASSUME Inv, NEW h \in Harts,
         hart[h].trap \in {"claim", "getc", "complete", "sip"}
           \/ (hart[h].trap = "none" /\ (proc[h].pc = "user" \/ proc[h].state # "run"))
  PROVE  hart[h].noff = 0 /\ hart[h].want = "none" /\ \A k \in Locks : lock[k] # h
<1> DEFINE x == hart[h]
           p == proc[h]
<1>1. x \in HartType /\ Balanced(x, p) /\ Holds(h, lock, x, p)
  BY HartIs
<1>2. x.want \in Locks \cup {"none"}
  BY <1>1, HartFields
<1>3. ~UsesCons(x, p) /\ ~UsesTx(x, p) /\ ~UsesTicks(x, p) /\ ~UsesPr(x, p) /\ ~Runs(x, p, {"put"}) /\ ~Runs(x, p, {"read", "write"})
  BY DEF UsesCons, UsesTx, UsesTicks, UsesPr, Runs
<1> HIDE DEF x, p
<1>4. x.noff = 0 /\ \A k \in Locks : lock[k] # h
  BY <1>1, <1>3 DEF Balanced, Holds, Locks
<1>5. x.want = "none"
  BY <1>1, <1>2, <1>3 DEF Balanced, Locks, UsesTx, UsesCons, UsesTicks, UsesPr, Runs
<1> QED
  BY <1>4, <1>5 DEF x

\* a system call begins: acquire() of k
LEMMA EnterStep ==
  ASSUME Inv, NEW h \in Harts, NEW k \in {"cons", "ticks", "pr"}, NEW n \in Nat,
         NEW l \in {"read", "write", "sleep", "printf"}, k = "ticks" <=> l = "sleep",
         k = "pr" <=> l = "printf", At(h, "user"), Enter(h, k, l, n)
  PROVE  Inv' /\ Slept
<1> DEFINE x == hart[h]
           p == proc[h]
           y == Pushed(x, k)
           q == [p EXCEPT !.n = n, !.pc = l]
<1>1. /\ x \in HartType /\ p \in ProcType /\ Balanced(x, p) /\ Holds(h, lock, x, p)
      /\ Clocked(p, ticks) /\ hart \in [Harts -> HartType] /\ proc \in [Harts -> ProcType]
  BY HartIs
<1>2. x.want = "none" /\ x.trap = "none" /\ p.pc = "user" /\ p.state = "run"
  BY AtCall
<1>3. x.noff = 0 /\ lock[k] # h
  BY <1>2, Idles DEF Locks
<1>4. /\ hart' = [hart EXCEPT ![h] = y] /\ proc' = [proc EXCEPT ![h] = q] /\ LockMoves(h) /\ lock' = lock
      /\ UNCHANGED <<work, cons, ticks, uart, plic, sip, panicked>> /\ tx' \in [r : Slots, w : Slots]
  BY <1>1, <1>2, <1>3 DEF Enter, acquire, Go, Pushed, LockMoves, Inv, Typed
<1>5. /\ q \in ProcType /\ q.pc = l /\ q.state = "run" /\ q.got = p.got /\ q.since = p.since
      /\ p.since \in Nat
  BY <1>1, <1>2 DEF ProcType, PCs
<1> HIDE DEF x, p, y, q
<1>6. x.sie
  BY <1>1, <1>2, <1>3 DEF Balanced
<1>7. y \in HartType /\ Pushes(x, k, y)
  BY <1>1, <1>3, PushFields DEF Locks, y
<1>8. Balanced(y, q)
  BY <1>2, <1>3, <1>5, <1>6, <1>7 DEF Pushes, Balanced, UsesCons, UsesTx, UsesTicks, UsesPr, Runs
<1>9. Holds(h, lock', y, q)
  BY <1>1, <1>2, <1>3, <1>4, <1>5, <1>7 DEF Pushes, Holds, UsesCons, UsesTx, UsesTicks, UsesPr, Runs
<1>10. Claims(h, y, plic, sip) /\ Sending(y, q, uart) /\ Reason(q, cons)
  BY <1>2, <1>5, <1>7 DEF Pushes, Claims, Served, Sending, Sends, Runs, Reason
<1>11. Clocked(q, ticks) /\ q.since <= p.since
  BY <1>1, <1>2, <1>5 DEF Clocked, Dozing
<1>12. (y.trap # "sip" => x.trap # "sip") /\ ~Dozing(p)
  BY <1>2 DEF Dozing
<1> QED
  BY <1>4, <1>5, <1>7, <1>8, <1>9, <1>10, <1>11, <1>12, QuietStep DEF x, p

\* sleep() with the one lock k
LEMMA SleepStep ==
  ASSUME Inv, NEW h \in Harts, NEW k \in {"cons", "ticks"}, NEW l \in {"read", "sleep"},
         k = "ticks" <=> l = "sleep", At(h, l), sleep(h, k),
         k = "cons" => cons.r = cons.w,
         k = "ticks" => proc[h].got = 1 /\ proc[h].since < proc[h].n
  PROVE  Inv' /\ Slept
<1> DEFINE x == hart[h]
           p == proc[h]
           y == [x EXCEPT !.noff = 0, !.sie = TRUE]
           q == [p EXCEPT !.state = "asleep", !.chan = k, !.intena = x.intena]
<1>1. /\ x \in HartType /\ p \in ProcType /\ Balanced(x, p) /\ Holds(h, lock, x, p)
      /\ Clocked(p, ticks) /\ hart \in [Harts -> HartType] /\ proc \in [Harts -> ProcType]
      /\ lock \in [Locks -> Harts \cup {0}]
  BY HartIs
<1>2. x.want = "none" /\ x.trap = "none" /\ p.pc = l /\ p.state = "run"
  BY AtCall
<1>3. x.noff = 1 /\ x.intena /\ lock[k] = h /\ \A j \in Locks \ {k} : lock[j] # h
  <2>1. x.noff \in {0, 1, 2}
    BY <1>1, HartFields
  <2> HIDE DEF x, p
  <2> QED
    BY <1>1, <1>2, <2>1 DEF Balanced, Holds, UsesCons, UsesTx, UsesTicks, UsesPr, Runs, Locks
<1>4. /\ hart' = [hart EXCEPT ![h] = y] /\ proc' = [proc EXCEPT ![h] = q]
      /\ lock' = [lock EXCEPT ![k] = 0]
      /\ UNCHANGED <<work, cons, tx, ticks, uart, plic, sip, panicked>>
  BY <1>1, <1>3 DEF sleep
<1>5. LockMoves(h) /\ tx' \in [r : Slots, w : Slots]
  BY <1>3, <1>4 DEF LockMoves, Inv, Typed, Locks
<1>6. /\ q \in ProcType /\ q.pc = l /\ q.state = "asleep" /\ q.chan = k /\ q.got = p.got /\ q.since = p.since
      /\ q.n = p.n /\ p.since \in Nat
  BY <1>1, <1>2 DEF ProcType, HartType
<1>7. q.intena
  BY <1>1, <1>3 DEF ProcType
<1>8. /\ y \in HartType /\ y.noff = 0 /\ y.sie /\ y.want = "none" /\ y.trap = "none"
  BY <1>1, <1>2 DEF HartType
<1> HIDE DEF x, p, y, q
<1>9. Balanced(y, q)
  BY <1>6, <1>7, <1>8 DEF Balanced, UsesCons, UsesTx, UsesTicks, UsesPr, Runs, p
<1>10. Holds(h, lock', y, q)
  BY <1>1, <1>3, <1>4, <1>6, <1>8, Sizes DEF Holds, UsesCons, UsesTx, UsesTicks, UsesPr, Runs, Locks
<1>11. Claims(h, y, plic, sip) /\ Sending(y, q, uart) /\ Reason(q, cons)
  BY <1>6, <1>8 DEF Claims, Served, Sending, Sends, Runs, Reason, p
<1>12. Clocked(q, ticks) /\ q.since <= p.since
  <2>1. q.t0 = p.t0
    BY <1>1 DEF ProcType, q
  <2>2. Clocked(q, ticks)
    BY <1>1, <1>2, <1>6, <2>1 DEF Clocked, Dozing
  <2> QED
    BY <1>6, <2>2
<1>13. (y.trap # "sip" => x.trap # "sip") /\ q.pc # "user"
  BY <1>2, <1>6
<1> QED
  BY <1>4, <1>5, <1>6, <1>8, <1>9, <1>10, <1>11, <1>12, <1>13, QuietStep DEF x, p

\* the end of a call that holds k: release()
LEMMA ReturnStep ==
  ASSUME Inv, NEW h \in Harts, NEW k \in {"cons", "ticks", "pr"},
         NEW l \in {"read", "write", "sleep", "printf_thr"},
         k = "ticks" <=> l = "sleep", k = "pr" <=> l = "printf_thr",
         hart[h].want = "none", hart[h].trap = "none", proc[h].pc = l, proc[h].state = "run",
         release(h, k, "user", User(h)), UNCHANGED <<work, tx, ticks, plic, sip>>,
         uart' \in UartType, uart'.thr <= 1 \/ uart'.pr,
         (uart'.thr = uart.thr /\ uart'.pr = uart.pr) \/ uart'.pr,
         cons' \in ConsType, cons.r = cons.w => cons'.r = cons'.w,
         Dozing(proc[h]) /\ ~proc[h].killed => proc[h].since >= proc[h].n
  PROVE  Inv' /\ Slept
<1> DEFINE x == hart[h]
           p == proc[h]
           y == pop_off(x)
           q == InUser
<1>1. /\ x \in HartType /\ p \in ProcType /\ Balanced(x, p) /\ Holds(h, lock, x, p)
      /\ Clocked(p, ticks) /\ hart \in [Harts -> HartType] /\ proc \in [Harts -> ProcType]
      /\ lock \in [Locks -> Harts \cup {0}]
  BY HartIs
<1>2. x.want = "none" /\ x.trap = "none" /\ p.pc = l /\ p.state = "run"
  OBVIOUS
<1>3. x.noff = 1 /\ x.intena /\ ~x.sie /\ lock[k] = h /\ \A j \in Locks \ {k} : lock[j] # h
  <2>1. x.noff \in {0, 1, 2}
    BY <1>1, HartFields
  <2> HIDE DEF x, p
  <2> QED
    BY <1>1, <1>2, <2>1 DEF Balanced, Holds, UsesCons, UsesTx, UsesTicks, UsesPr, Runs, Locks
<1>4. [User(h) EXCEPT ![h].pc = "user"] = [proc EXCEPT ![h] = q]
  <2>1. [q EXCEPT !.pc = "user"] = q
    BY DEF InUser
  <2> HIDE DEF q
  <2>2. User(h) = [proc EXCEPT ![h] = q] /\ User(h)[h] = q
    BY <1>1 DEF User, q
  <2>3. [[proc EXCEPT ![h] = q] EXCEPT ![h].pc = "user"] = [proc EXCEPT ![h] = [q EXCEPT !.pc = "user"]]
    BY <1>1
  <2> QED
    BY <2>1, <2>2, <2>3
<1>5. pop_off_panics(x) = "none"
  BY <1>3 DEF pop_off_panics
<1>6. /\ hart' = [hart EXCEPT ![h] = y] /\ proc' = [proc EXCEPT ![h] = q]
      /\ lock' = [lock EXCEPT ![k] = 0] /\ UNCHANGED panicked
  <2> HIDE DEF y, q
  <2> QED
    BY <1>2, <1>3, <1>4, <1>5 DEF release, Go, y
<1>7. LockMoves(h) /\ Rest /\ Frame(h)
  BY <1>3, <1>6 DEF LockMoves, Inv, Typed, Locks, Rest, Frame, ConsType
<1>8. /\ q \in ProcType /\ q.pc = "user" /\ q.state = "run" /\ q.got = 0 /\ q.since = 0
  BY Sizes DEF ProcType, InUser, PCs
<1>9. p.since \in Nat
  BY <1>1, ProcFields
<1> HIDE DEF x, p, y, q
<1>10. y \in HartType /\ Pops(x, y)
  BY <1>1, <1>3, PopFields DEF y
<1>11. Balanced(y, q)
  BY <1>2, <1>3, <1>8, <1>10 DEF Pops, Balanced, UsesCons, UsesTx, UsesTicks, UsesPr, Runs
<1>12. Holds(h, lock', y, q)
  BY <1>1, <1>2, <1>3, <1>6, <1>8, <1>10, Sizes DEF Pops, Holds, UsesCons, UsesTx, UsesTicks, UsesPr, Runs, Locks
<1>13. Claims(h, y, plic', sip') /\ Sending(y, q, uart') /\ Reason(q, cons')
  BY <1>2, <1>8, <1>10 DEF Pops, Claims, Served, Sending, Sends, Runs, Reason
<1>14. Clocked(q, ticks) /\ q.since <= p.since
  BY <1>8, <1>9 DEF Clocked, Dozing
<1>15. sip' /\ (h = 1 => y.trap # "sip") => sip /\ (h = 1 => x.trap # "sip")
  BY <1>2
<1> QED
  BY <1>6, <1>7, <1>8, <1>10, <1>11, <1>12, <1>13, <1>14, <1>15, Step DEF x, p

\* consolewrite(): acquire() of uart_tx_lock
LEMMA PutStep ==
  ASSUME Inv, NEW h \in Harts, consolewrite(h)
  PROVE  Inv' /\ Slept
<1> DEFINE x == hart[h]
           p == proc[h]
           y == Pushed(x, "tx")
           q == [p EXCEPT !.n = p.n - 1, !.pc = "put"]
<1>1. /\ x \in HartType /\ p \in ProcType /\ Balanced(x, p) /\ Holds(h, lock, x, p)
      /\ Clocked(p, ticks) /\ hart \in [Harts -> HartType] /\ proc \in [Harts -> ProcType]
  BY HartIs
<1>2. x.want = "none" /\ x.trap = "none" /\ p.pc = "write" /\ p.state = "run" /\ p.n > 0
  BY AtCall DEF consolewrite
<1>3. x.noff = 1 /\ x.intena /\ lock["tx"] # h /\ lock["cons"] = h /\ lock["ticks"] # h
  <2>1. x.noff \in {0, 1, 2}
    BY <1>1, HartFields
  <2> HIDE DEF x, p
  <2> QED
    BY <1>1, <1>2, <2>1 DEF Balanced, Holds, UsesCons, UsesTx, UsesTicks, UsesPr, Runs, Locks
<1>4. /\ hart' = [hart EXCEPT ![h] = y] /\ proc' = [proc EXCEPT ![h] = q] /\ LockMoves(h) /\ lock' = lock
      /\ UNCHANGED <<work, cons, ticks, uart, plic, sip, panicked>> /\ tx' \in [r : Slots, w : Slots]
  BY <1>1, <1>2, <1>3 DEF consolewrite, acquire, Go, Pushed, LockMoves, Inv, Typed
<1>5. /\ q \in ProcType /\ q.pc = "put" /\ q.state = "run" /\ q.got = p.got /\ q.since = p.since
      /\ p.since \in Nat
  <2>1. p.n - 1 \in Nat
    BY <1>1, <1>2, ProcFields
  <2> QED
    BY <1>1, <1>2, <2>1 DEF ProcType, PCs
<1> HIDE DEF x, p, y, q
<1>7. y \in HartType /\ Pushes(x, "tx", y)
  BY <1>1, <1>3, PushFields DEF Locks, y
<1>8. Balanced(y, q)
  BY <1>2, <1>3, <1>5, <1>7 DEF Pushes, Balanced, UsesCons, UsesTx, UsesTicks, UsesPr, Runs
<1>9. Holds(h, lock', y, q)
  BY <1>1, <1>2, <1>3, <1>4, <1>5, <1>7 DEF Pushes, Holds, UsesCons, UsesTx, UsesTicks, UsesPr, Runs
<1>10. Claims(h, y, plic, sip) /\ Sending(y, q, uart) /\ Reason(q, cons)
  BY <1>2, <1>5, <1>7 DEF Pushes, Claims, Served, Sending, Sends, Runs, Reason
<1>11. Clocked(q, ticks) /\ q.since <= p.since
  BY <1>1, <1>2, <1>5 DEF Clocked, Dozing
<1>12. (y.trap # "sip" => x.trap # "sip") /\ ~Dozing(p)
  BY <1>2 DEF Dozing
<1> QED
  BY <1>4, <1>5, <1>7, <1>8, <1>9, <1>10, <1>11, <1>12, QuietStep DEF x, p

\* nobody sleeps on the transmit buffer: sched() would panic, for cons.lock is held as well
LEMMA NobodyOnTx == Inv => wakeup(proc, "tx") = proc
<1> SUFFICES ASSUME Inv PROVE wakeup(proc, "tx") = proc
  OBVIOUS
<1>1. proc \in [Harts -> ProcType]
  BY DEF Inv, Typed
<1>2. ASSUME NEW g \in Harts PROVE proc[g].chan # "tx"
  BY <1>1, ProcFields
<1>3. wakeup(proc, "tx") = [g \in Harts |-> proc[g]]
  BY <1>2 DEF wakeup
<1> QED
  BY <1>1, <1>3

\* uartputc() and uartstart(), by a process or by the handler, go on with the locks they have
Turns(h, l, y, q) ==
  /\ y \in HartType /\ q \in ProcType
  /\ hart' = [hart EXCEPT ![h] = y] /\ proc' = [proc EXCEPT ![h] = q]
  /\ Balanced(y, q) /\ Holds(h, lock, y, q) /\ Claims(h, y, plic, sip)
  /\ Clocked(q, ticks) /\ Reason(q, cons)
  /\ q.since <= proc[h].since /\ y.trap # "sip" /\ hart[h].trap # "sip"
  /\ ~Dozing(proc[h]) \/ q.pc # "user"
  /\ l = "start" => ~Sends(y, q)

\* a step within uartputc() and uartstart() is such a turn
LEMMA TurnsAre ==
  ASSUME Inv, NEW h \in Harts, NEW l \in {"start", "thr"}, Go(h, hart[h], l, proc), hart[h].want = "none",
         \/ hart[h].trap \in {"start", "thr"}
         \/ hart[h].trap = "none" /\ proc[h].pc \in {"put", "start", "thr"} /\ proc[h].state = "run"
  PROVE  \E y, q : Turns(h, l, y, q)
<1> DEFINE x == hart[h]
           p == proc[h]
<1>1. /\ x \in HartType /\ p \in ProcType /\ Balanced(x, p) /\ Holds(h, lock, x, p)
      /\ Claims(h, x, plic, sip) /\ Clocked(p, ticks) /\ Reason(p, cons)
      /\ hart \in [Harts -> HartType] /\ proc \in [Harts -> ProcType]
  BY HartIs
<1>2. p.since \in Nat
  BY <1>1, ProcFields
<1>3. CASE x.trap = "none"
  <2> DEFINE q == [p EXCEPT !.pc = l]
  <2>1. /\ q \in ProcType /\ q.pc = l /\ q.state = "run" /\ q.since = p.since
    BY <1>1, <1>3 DEF ProcType, PCs
  <2>2. hart' = [hart EXCEPT ![h] = x] /\ proc' = [proc EXCEPT ![h] = q]
    BY <1>1, <1>3 DEF Go
  <2>3. p.pc \in {"put", "start", "thr"} /\ p.state = "run" /\ x.want = "none"
    BY <1>3
  <2> HIDE DEF x, p, q
  <2>4. Balanced(x, q) /\ Holds(h, lock, x, q)
    BY <1>1, <1>3, <2>1, <2>3 DEF Balanced, Holds, UsesCons, UsesTx, UsesTicks, UsesPr, Runs
  <2>5. Clocked(q, ticks) /\ q.since <= p.since
    BY <1>1, <1>2, <2>1, <2>3 DEF Clocked, Dozing
  <2>6. (l = "start" => ~Sends(x, q)) /\ Reason(q, cons)
    BY <1>3, <2>1 DEF Sends, Runs, Reason
  <2>7. Turns(h, l, x, q)
    BY <1>1, <1>3, <2>1, <2>2, <2>4, <2>5, <2>6 DEF Turns, x, p
  <2> QED
    BY <2>7
<1>4. CASE x.trap \in {"start", "thr"}
  <2> DEFINE y == [x EXCEPT !.trap = l]
  <2>1. /\ y \in HartType /\ y.trap = l /\ y.noff = x.noff /\ y.intena = x.intena /\ y.sie = x.sie
        /\ y.want = x.want
    BY <1>1 DEF HartType, Traps, Served
  <2>2. hart' = [hart EXCEPT ![h] = y] /\ proc' = [proc EXCEPT ![h] = p]
    BY <1>1, <1>4 DEF Go
  <2>3. x.want = "none"
    OBVIOUS
  <2> HIDE DEF x, p, y
  <2>4. Balanced(y, p) /\ Holds(h, lock, y, p)
    BY <1>1, <1>4, <2>1, <2>3 DEF Balanced, Holds, UsesCons, UsesTx, UsesTicks, UsesPr, Runs
  <2>5. Claims(h, y, plic, sip)
    BY <1>1, <1>4, <2>1 DEF Claims, Served
  <2>6. l = "start" => ~Sends(y, p)
    BY <2>1 DEF Sends, Runs
  <2>7. p.pc # "user" \/ ~Dozing(p)
    BY DEF Dozing
  <2>8. Turns(h, l, y, p)
    BY <1>1, <1>2, <1>4, <2>1, <2>2, <2>4, <2>5, <2>6, <2>7 DEF Turns, x, p
  <2> QED
    BY <2>8
<1> QED
  BY <1>3, <1>4

\* ... and keeps the invariant
LEMMA TurnsQuiet ==
  ASSUME Inv, NEW h \in Harts, NEW l, NEW y, NEW q, Turns(h, l, y, q), l = "start" \/ uart.thr = 0,
         tx' \in [r : Slots, w : Slots], lock' = lock, LockMoves(h),
         UNCHANGED <<work, cons, ticks, uart, plic, sip, panicked>>
  PROVE  Inv' /\ Slept
<1>1. Sending(y, q, uart)
  BY DEF Turns, Sending
<1>2. /\ y \in HartType /\ q \in ProcType
      /\ hart' = [hart EXCEPT ![h] = y] /\ proc' = [proc EXCEPT ![h] = q]
      /\ Balanced(y, q) /\ Holds(h, lock', y, q) /\ Claims(h, y, plic, sip)
      /\ Clocked(q, ticks) /\ Reason(q, cons)
      /\ q.since <= proc[h].since /\ (y.trap # "sip" => hart[h].trap # "sip")
      /\ (~Dozing(proc[h]) \/ q.pc # "user")
  BY DEF Turns
<1> QED
  BY <1>1, <1>2, QuietStep

\* uartputc() puts the character, uartstart() takes one for the idle UART
LEMMA RingStep ==
  ASSUME Inv, NEW h \in Harts, uartputc(h) \/ uartstart(h)
  PROVE  Inv' /\ Slept
<1>1. /\ tx' \in [r : Slots, w : Slots] /\ lock' = lock /\ LockMoves(h)
      /\ UNCHANGED <<work, cons, ticks, uart, plic, sip, panicked>>
  <2>0. tx \in [r : Slots, w : Slots] /\ tx.r \in Slots /\ tx.w \in Slots
    BY DEF Inv, Typed
  <2>1. tx.r + 1 \in Int /\ tx.w + 1 \in Int
    BY <2>0 DEF Slots
  <2>2. (tx.r + 1) % UART_TX_BUF_SIZE \in Slots /\ (tx.w + 1) % UART_TX_BUF_SIZE \in Slots
    BY <2>1, Sizes
  <2> QED
    BY <2>0, <2>2 DEF uartputc, uartstart, LockMoves
<1>2. CASE uartputc(h)
  <2>1. hart[h].want = "none" /\ hart[h].trap = "none" /\ proc[h].pc = "put" /\ proc[h].state = "run"
    BY <1>2, AtCall DEF uartputc
  <2>2. Go(h, hart[h], "start", proc)
    BY <1>2 DEF uartputc
  <2>3. PICK y, q : Turns(h, "start", y, q)
    BY <2>1, <2>2, TurnsAre
  <2> QED
    BY <1>1, <2>3, TurnsQuiet
<1>3. CASE uartstart(h)
  <2>1. /\ hart[h].want = "none"
        /\ hart[h].trap = "start" \/ (hart[h].trap = "none" /\ proc[h].pc = "start" /\ proc[h].state = "run")
    BY <1>3, AtStart DEF uartstart
  <2>2. Go(h, hart[h], "thr", proc) /\ uart.thr = 0
    BY <1>3, NobodyOnTx DEF uartstart, Idle
  <2>3. PICK y, q : Turns(h, "thr", y, q)
    BY <2>1, <2>2, TurnsAre
  <2> QED
    BY <1>1, <2>2, <2>3, TurnsQuiet
<1> QED
  BY <1>2, <1>3

\* two harts do not write THR at once: cons.lock, uart_tx_lock and the claim of the PLIC
LEMMA SendsAlone ==
  ASSUME Inv, NEW h \in Harts, NEW g \in Harts, Sends(hart[h], proc[h]), Sends(hart[g], proc[g])
  PROVE  g = h
<1>1. ASSUME NEW f \in Harts, Sends(hart[f], proc[f])
      PROVE  \/ lock["cons"] = f /\ lock["tx"] = f
             \/ lock["tx"] = f /\ plic.claimed = f
             \/ lock["cons"] = f /\ plic.claimed = f
  <2> DEFINE x == hart[f]
             p == proc[f]
  <2>1. x \in HartType /\ Balanced(x, p) /\ Holds(f, lock, x, p) /\ Claims(f, x, plic, sip) /\ Sends(x, p)
    BY <1>1, HartIs
  <2>2. x.want \in Locks \cup {"none"}
    BY <2>1, HartFields
  <2> HIDE DEF x, p
  <2>3. x.want # "cons" /\ x.want # "tx"
    BY <2>1 DEF Balanced, Sends, Runs
  <2> QED
    BY <2>1, <2>3 DEF Holds, Claims, Sends, UsesCons, UsesTx, Runs, Served
<1> QED
  BY <1>1

\* a character in THR, when it was empty or held one of printf()'s
LEMMA ThrWritten ==
  ASSUME Inv, uart.thr = 0 \/ uart.pr, uart' = [uart EXCEPT !.thr = uart.thr + 1]
  PROVE  uart' \in UartType /\ (uart'.thr <= 1 \/ uart'.pr)
<1>1. uart \in UartType /\ uart.thr \in Nat
  BY DEF Inv, Typed, UartType
<1>2. uart.thr + 1 \in Nat /\ (uart.thr = 0 => uart.thr + 1 = 1)
  BY <1>1
<1> DEFINE n == uart.thr + 1
<1> HIDE DEF n
<1>3. n \in Nat /\ (uart.thr = 0 => n = 1) /\ uart' = [uart EXCEPT !.thr = n]
  BY <1>2 DEF n
<1>4. uart' \in UartType /\ uart'.thr = n /\ uart'.pr = uart.pr
  BY <1>1, <1>3 DEF UartType
<1>5. uart.thr = 0 => uart'.thr <= 1
  BY <1>3, <1>4
<1> QED
  BY <1>4, <1>5

\* uartstart() writes THR
LEMMA ThrStep ==
  ASSUME Inv, NEW h \in Harts, uartstart_thr(h)
  PROVE  Inv' /\ Slept
<1>1. /\ hart[h].want = "none"
      /\ hart[h].trap = "thr" \/ (hart[h].trap = "none" /\ proc[h].pc = "thr" /\ proc[h].state = "run")
  BY AtStart DEF uartstart_thr
<1>2. Sends(hart[h], proc[h])
  BY <1>1 DEF Sends, Runs
<1>3. uart.thr = 0 \/ uart.pr
  BY <1>2, HartIs DEF Sending
<1>4. PICK y, q : Turns(h, "start", y, q)
  BY <1>1, TurnsAre DEF uartstart_thr
<1>5. /\ y \in HartType /\ q \in ProcType
      /\ hart' = [hart EXCEPT ![h] = y] /\ proc' = [proc EXCEPT ![h] = q]
      /\ Balanced(y, q) /\ Holds(h, lock, y, q) /\ Claims(h, y, plic, sip)
      /\ Clocked(q, ticks) /\ Reason(q, cons)
      /\ q.since <= proc[h].since /\ (y.trap # "sip" => hart[h].trap # "sip")
      /\ (~Dozing(proc[h]) \/ q.pc # "user") /\ ~Sends(y, q)
  BY <1>4 DEF Turns
<1>6. /\ uart' = [uart EXCEPT !.thr = uart.thr + 1]
      /\ UNCHANGED <<work, cons, tx, lock, ticks, plic, sip, panicked>>
  BY DEF uartstart_thr
<1>7. Rest
  <2>2. uart' \in UartType /\ (uart'.thr <= 1 \/ uart'.pr)
    BY <1>3, <1>6, ThrWritten
  <2>4. /\ work \in Workloads /\ cons \in ConsType /\ tx \in [r : Slots, w : Slots]
        /\ plic \in [pending : BOOLEAN, claimed : Harts \cup {0}] /\ sip \in BOOLEAN
        /\ panicked \in {"none", "sched locks"}
    BY DEF Inv, Typed, ConsType
  <2> QED
    BY <1>6, <2>2, <2>4 DEF Rest, ConsType
<1>8. Frame(h) /\ LockMoves(h) /\ Sending(y, q, uart')
  BY <1>2, <1>5, <1>6, SendsAlone DEF Frame, LockMoves, Sending
<1>9. /\ Holds(h, lock', y, q) /\ Claims(h, y, plic', sip') /\ Reason(q, cons') /\ ticks' = ticks
      /\ (cons.r = cons.w => cons'.r = cons'.w)
      /\ (sip' /\ (h = 1 => y.trap # "sip") => sip /\ (h = 1 => hart[h].trap # "sip"))
  BY <1>5, <1>6
<1> QED
  BY <1>5, <1>7, <1>8, <1>9, Step

\* uartstart() releases uart_tx_lock
LEMMA StartEndStep ==
  ASSUME Inv, NEW h \in Harts, uartstart_end(h)
  PROVE  Inv' /\ Slept
<1> DEFINE x == hart[h]
           p == proc[h]
           z == pop_off(x)
<1>1. /\ x \in HartType /\ p \in ProcType /\ Balanced(x, p) /\ Holds(h, lock, x, p)
      /\ Clocked(p, ticks) /\ Reason(p, cons) /\ Claims(h, x, plic, sip)
      /\ hart \in [Harts -> HartType] /\ proc \in [Harts -> ProcType]
      /\ lock \in [Locks -> Harts \cup {0}]
  BY HartIs
<1>2. /\ x.want = "none"
      /\ x.trap = "start" \/ (x.trap = "none" /\ p.pc = "start" /\ p.state = "run")
  BY AtStart DEF uartstart_end
<1>3. /\ x.trap = "start" => x.noff = 1 /\ ~x.intena /\ lock["cons"] # h
      /\ x.trap = "none" => x.noff = 2 /\ x.intena /\ lock["cons"] = h
      /\ ~x.sie /\ lock["tx"] = h /\ lock["ticks"] # h
  <2>1. x.noff \in {0, 1, 2}
    BY <1>1, HartFields
  <2> HIDE DEF x, p
  <2> QED
    BY <1>1, <1>2, <2>1 DEF Balanced, Holds, UsesCons, UsesTx, UsesTicks, UsesPr, Runs
<1>4. pop_off_panics(x) = "none"
  BY <1>2, <1>3 DEF pop_off_panics
<1>5. /\ lock' = [lock EXCEPT !["tx"] = 0]
      /\ UNCHANGED <<work, cons, tx, ticks, uart, plic, sip, panicked>>
      /\ Go(h, z, IF x.trap = "none" THEN "write" ELSE "complete", proc)
  BY <1>3, <1>4 DEF uartstart_end, release
<1>6. LockMoves(h) /\ tx' \in [r : Slots, w : Slots]
  BY <1>3, <1>5 DEF LockMoves, Inv, Typed, Locks
<1>7. z \in HartType /\ Pops(x, z) /\ p.since \in Nat
  BY <1>1, <1>2, <1>3, PopFields, ProcFields
<1>8. CASE x.trap = "none"
  <2> DEFINE q == [p EXCEPT !.pc = "write"]
  <2>1. /\ q \in ProcType /\ q.pc = "write" /\ q.state = "run" /\ q.since = p.since
    BY <1>1, <1>2, <1>8 DEF ProcType, PCs
  <2>2. hart' = [hart EXCEPT ![h] = z] /\ proc' = [proc EXCEPT ![h] = q]
    <3> HIDE DEF z
    <3> QED
      BY <1>1, <1>5, <1>8 DEF Go
  <2> HIDE DEF x, p, z, q
  <2>3. Balanced(z, q)
    BY <1>2, <1>3, <1>7, <1>8, <2>1 DEF Pops, Balanced, UsesCons, UsesTx, UsesTicks, UsesPr, Runs
  <2>4. Holds(h, lock', z, q)
    BY <1>1, <1>2, <1>3, <1>5, <1>7, <1>8, <2>1, Sizes DEF Pops, Holds, UsesCons, UsesTx, UsesTicks, UsesPr, Runs, Locks
  <2>5. Claims(h, z, plic, sip) /\ Sending(z, q, uart) /\ Reason(q, cons)
    BY <1>7, <1>8, <2>1 DEF Pops, Claims, Served, Sending, Sends, Runs, Reason
  <2>6. Clocked(q, ticks) /\ q.since <= p.since /\ q.pc # "user" /\ (z.trap # "sip" => x.trap # "sip")
    BY <1>1, <1>2, <1>7, <1>8, <2>1 DEF Clocked, Dozing
  <2> QED
    BY <1>5, <1>6, <1>7, <2>1, <2>2, <2>3, <2>4, <2>5, <2>6, QuietStep DEF x, p
<1>9. CASE x.trap = "start"
  <2> DEFINE y == [z EXCEPT !.trap = "complete"]
  <2>0. z.noff = 0 /\ ~z.sie /\ z.want = "none"
    <3> HIDE DEF x, z
    <3> QED
      BY <1>2, <1>3, <1>7, <1>9 DEF Pops
  <2>1. y \in HartType /\ y.trap = "complete" /\ y.noff = 0 /\ y.want = "none"
    <3> HIDE DEF z
    <3> QED
      BY <1>7, <2>0 DEF HartType, Traps, Served
  <2>2. ~y.sie
    <3> HIDE DEF z
    <3> QED
      BY <1>7, <2>0 DEF HartType
  <2>3. hart' = [hart EXCEPT ![h] = y] /\ proc' = [proc EXCEPT ![h] = p]
    <3> HIDE DEF z
    <3> QED
      BY <1>1, <1>5, <1>9 DEF Go
  <2> HIDE DEF x, p, z, y
  <2>4. Balanced(y, p)
    BY <1>1, <1>9, <2>1, <2>2 DEF Balanced, UsesCons, UsesTx, UsesTicks, UsesPr, Runs
  <2>5. Holds(h, lock', y, p)
    BY <1>1, <1>3, <1>5, <1>9, <2>1, Sizes DEF Holds, UsesCons, UsesTx, UsesTicks, UsesPr, Runs, Locks
  <2>6. Claims(h, y, plic, sip) /\ Sending(y, p, uart)
    BY <1>1, <1>9, <2>1 DEF Claims, Served, Sending, Sends, Runs
  <2>7. p.since <= p.since /\ (y.trap # "sip" => x.trap # "sip") /\ (~Dozing(p) \/ p.pc # "user")
    BY <1>7, <1>9 DEF Dozing
  <2> QED
    BY <1>1, <1>5, <1>6, <2>1, <2>3, <2>4, <2>5, <2>6, <2>7, QuietStep DEF x, p
<1> QED
  BY <1>2, <1>8, <1>9

\* acquire() gets the lock
LEMMA SpinStep ==
  ASSUME Inv, NEW h \in Harts, spin(h)
  PROVE  Inv' /\ Slept
<1> DEFINE x == hart[h]
           p == proc[h]
           k == x.want
           y == [x EXCEPT !.want = "none"]
<1>1. /\ x \in HartType /\ p \in ProcType /\ Balanced(x, p) /\ Holds(h, lock, x, p)
      /\ Claims(h, x, plic, sip) /\ Sending(x, p, uart) /\ Clocked(p, ticks) /\ Reason(p, cons)
      /\ hart \in [Harts -> HartType] /\ proc \in [Harts -> ProcType]
      /\ lock \in [Locks -> Harts \cup {0}]
  BY HartIs
<1>2. k \in Locks /\ lock[k] = 0 /\ p.since \in Nat
  BY <1>1, HartFields, ProcFields DEF spin
<1>3. /\ hart' = [hart EXCEPT ![h] = y] /\ proc' = [proc EXCEPT ![h] = p]
      /\ lock' = [lock EXCEPT ![k] = h]
      /\ UNCHANGED <<work, cons, tx, ticks, uart, plic, sip, panicked>>
  BY <1>1 DEF spin
<1>4. LockMoves(h) /\ tx' \in [r : Slots, w : Slots]
  BY <1>2, <1>3 DEF LockMoves, Inv, Typed
<1>5. /\ y \in HartType /\ y.noff = x.noff /\ y.intena = x.intena /\ y.sie = x.sie /\ y.want = "none"
      /\ y.trap = x.trap /\ y.c = x.c
  BY <1>1 DEF HartType
<1> HIDE DEF x, p, y
<1>6. /\ UsesCons(y, p) <=> UsesCons(x, p)
      /\ UsesTx(y, p) <=> UsesTx(x, p)
      /\ UsesTicks(y, p) <=> UsesTicks(x, p)
      /\ UsesPr(y, p) <=> UsesPr(x, p)
      /\ Sends(y, p) <=> Sends(x, p)
  BY <1>5 DEF UsesCons, UsesTx, UsesTicks, UsesPr, Sends, Runs
<1>7. Balanced(y, p)
  BY <1>1, <1>5, <1>6 DEF Balanced
<1>8. /\ x.want = "cons" => UsesCons(x, p)
      /\ x.want = "tx" => UsesTx(x, p)
      /\ x.want = "ticks" => UsesTicks(x, p)
      /\ x.want = "pr" => UsesPr(x, p)
  BY <1>1 DEF Balanced, UsesCons, UsesTx, UsesPr, Runs
<1>9. Holds(h, lock', y, p)
  BY <1>1, <1>2, <1>3, <1>5, <1>6, <1>8 DEF Holds, Locks
<1>10. Claims(h, y, plic, sip) /\ Sending(y, p, uart)
  BY <1>1, <1>5, <1>6 DEF Claims, Sending
<1>11. p.since <= p.since /\ (y.trap # "sip" => x.trap # "sip") /\ (~Dozing(p) \/ p.pc # "user")
  BY <1>2, <1>5 DEF Dozing
<1> QED
  BY <1>1, <1>3, <1>4, <1>5, <1>7, <1>9, <1>10, <1>11, QuietStep DEF x, p

\* sys_sleep() reads ticks
LEMMA BeginStep ==
  ASSUME Inv, NEW h \in Harts, sleep_begin(h)
  PROVE  Inv' /\ Slept
<1> DEFINE x == hart[h]
           p == proc[h]
           q == [p EXCEPT !.t0 = ticks, !.got = 1]
<1>1. /\ x \in HartType /\ p \in ProcType /\ Balanced(x, p) /\ Holds(h, lock, x, p)
      /\ Claims(h, x, plic, sip) /\ Clocked(p, ticks)
      /\ hart \in [Harts -> HartType] /\ proc \in [Harts -> ProcType]
  BY HartIs
<1>2. x.want = "none" /\ x.trap = "none" /\ p.pc = "sleep" /\ p.state = "run" /\ p.got = 0
  BY AtCall DEF sleep_begin
<1>3. /\ hart' = [hart EXCEPT ![h] = x] /\ proc' = [proc EXCEPT ![h] = q]
      /\ UNCHANGED <<work, cons, tx, lock, ticks, uart, plic, sip, panicked>>
  BY <1>1 DEF sleep_begin
<1>4. LockMoves(h) /\ tx' \in [r : Slots, w : Slots] /\ ticks \in 0..(UINT - 1)
  BY <1>3 DEF LockMoves, Inv, Typed
<1>5. /\ q \in ProcType /\ q.pc = "sleep" /\ q.state = "run" /\ q.got = 1 /\ q.t0 = ticks /\ q.since = p.since
  BY <1>1, <1>2, <1>4 DEF ProcType
<1> HIDE DEF x, p, q
<1>6. Balanced(x, q) /\ Holds(h, lock', x, q)
  BY <1>1, <1>2, <1>3, <1>5 DEF Balanced, Holds, UsesCons, UsesTx, UsesTicks, UsesPr, Runs
<1>7. Sending(x, q, uart) /\ Reason(q, cons)
  BY <1>2, <1>5 DEF Sending, Sends, Runs, Reason
<1>8. Clocked(q, ticks) /\ p.since = 0
  <2>1. p.since = 0
    BY <1>1, <1>2 DEF Clocked, Dozing
  <2>2. (ticks - q.t0) % UINT = 0
    <3> DEFINE d == ticks - q.t0
    <3>1. d = 0
      BY <1>4, <1>5, Sizes
    <3> HIDE DEF d
    <3>2. d % UINT = 0
      BY <3>1, Sizes
    <3> QED
      BY <3>2 DEF d
  <2> QED
    BY <1>5, <2>1, <2>2 DEF Clocked, Dozing
<1>9. q.since <= p.since /\ q.pc # "user"
  BY <1>5, <1>8
<1> QED
  BY <1>1, <1>3, <1>4, <1>5, <1>6, <1>7, <1>8, <1>9, QuietStep DEF x, p

\* kill() wakes the process
LEMMA KillStep ==
  ASSUME Inv, NEW h \in Harts, kill(h)
  PROVE  Inv' /\ Slept
<1> DEFINE x == hart[h]
           p == proc[h]
           q == [p EXCEPT !.killed = TRUE, !.state = IF p.state = "asleep" THEN "woken" ELSE p.state]
<1>1. /\ x \in HartType /\ p \in ProcType /\ Balanced(x, p) /\ Holds(h, lock, x, p)
      /\ Claims(h, x, plic, sip) /\ Sending(x, p, uart) /\ Clocked(p, ticks)
      /\ hart \in [Harts -> HartType] /\ proc \in [Harts -> ProcType]
  BY HartIs
<1>2. p.state \in {"run", "asleep", "woken"} /\ p.since \in Nat
  BY <1>1, ProcFields
<1>3. /\ hart' = [hart EXCEPT ![h] = x] /\ proc' = [proc EXCEPT ![h] = q]
      /\ UNCHANGED <<work, cons, tx, lock, ticks, uart, plic, sip, panicked>> /\ p.pc # "user"
  BY <1>1 DEF kill
<1>4. LockMoves(h) /\ tx' \in [r : Slots, w : Slots]
  BY <1>3 DEF LockMoves, Inv, Typed
<1>5. /\ q \in ProcType /\ q.pc = p.pc /\ (q.state = "run" <=> p.state = "run") /\ q.state # "asleep"
      /\ q.chan = p.chan /\ q.intena = p.intena /\ q.got = p.got /\ q.t0 = p.t0 /\ q.since = p.since
  BY <1>1, <1>2 DEF ProcType
<1> HIDE DEF x, p, q
<1>6. /\ UsesCons(x, q) <=> UsesCons(x, p)
      /\ UsesTx(x, q) <=> UsesTx(x, p)
      /\ UsesTicks(x, q) <=> UsesTicks(x, p)
      /\ UsesPr(x, q) <=> UsesPr(x, p)
      /\ Sends(x, q) <=> Sends(x, p)
  BY <1>5 DEF UsesCons, UsesTx, UsesTicks, UsesPr, Sends, Runs
<1>7. Balanced(x, q)
  BY <1>1, <1>5, <1>6 DEF Balanced, Runs
<1>8. Holds(h, lock', x, q) /\ Sending(x, q, uart) /\ Reason(q, cons)
  BY <1>1, <1>3, <1>5, <1>6 DEF Holds, Sending, Reason
<1>9. Clocked(q, ticks)
  BY <1>1, <1>5 DEF Clocked, Dozing
<1>10. q.since <= p.since /\ q.pc # "user"
  BY <1>2, <1>3, <1>5
<1> QED
  BY <1>1, <1>3, <1>4, <1>5, <1>7, <1>8, <1>9, <1>10, QuietStep DEF x, p

\* sleep() returns: sched() restores intena, the lock is taken again
LEMMA ResumeStep ==
  ASSUME Inv, NEW h \in Harts, resume(h)
  PROVE  Inv' /\ Slept
<1> DEFINE x == hart[h]
           p == proc[h]
           w == [x EXCEPT !.sie = p.intena]
           k == p.chan
           y == Pushed(w, k)
           q == [p EXCEPT !.state = "run", !.chan = "none"]
<1>1. /\ x \in HartType /\ p \in ProcType /\ Balanced(x, p) /\ Holds(h, lock, x, p)
      /\ Clocked(p, ticks) /\ hart \in [Harts -> HartType] /\ proc \in [Harts -> ProcType]
  BY HartIs
<1>2. x.trap = "none" /\ p.state = "woken"
  BY DEF resume
<1>3. x.noff = 0 /\ x.want = "none" /\ \A j \in Locks : lock[j] # h
  BY <1>2, Idles
<1>4. /\ hart' = [hart EXCEPT ![h] = y] /\ proc' = [proc EXCEPT ![h] = q]
      /\ UNCHANGED <<work, cons, tx, lock, ticks, uart, plic, sip, panicked>>
  BY <1>1 DEF resume, Pushed
<1>5. LockMoves(h) /\ tx' \in [r : Slots, w : Slots]
  BY <1>4 DEF LockMoves, Inv, Typed
<1>6. /\ q \in ProcType /\ q.pc = p.pc /\ q.state = "run"
      /\ q.got = p.got /\ q.t0 = p.t0 /\ q.since = p.since /\ p.since \in Nat
  BY <1>1 DEF ProcType
<1>7. w \in HartType /\ w.noff = 0 /\ w.trap = "none" /\ w.c = x.c
  BY <1>1, <1>2, <1>3 DEF HartType, ProcType
<1>8. p.intena /\ ((p.pc = "read" /\ k = "cons") \/ (p.pc = "sleep" /\ k = "ticks" /\ p.got = 1))
  BY <1>1, <1>2 DEF Balanced
<1>9. w.sie
  BY <1>1, <1>8 DEF HartType
<1> HIDE DEF x, p, w, k, y, q
<1>10. y \in HartType /\ Pushes(w, k, y)
  BY <1>7, <1>8, PushFields DEF Locks, y
<1>11. Balanced(y, q)
  BY <1>6, <1>7, <1>8, <1>9, <1>10 DEF Pushes, Balanced, UsesCons, UsesTx, UsesTicks, UsesPr, Runs
<1>12. Holds(h, lock', y, q)
  BY <1>3, <1>4, <1>6, <1>7, <1>8, <1>10 DEF Pushes, Holds, UsesCons, UsesTx, UsesTicks, UsesPr, Runs, Locks
<1>13. Claims(h, y, plic, sip) /\ Sending(y, q, uart) /\ Reason(q, cons)
  BY <1>6, <1>7, <1>8, <1>10 DEF Pushes, Claims, Served, Sending, Sends, Runs, Reason
<1>14. Clocked(q, ticks)
  BY <1>1, <1>6 DEF Clocked, Dozing
<1>15. q.since <= p.since /\ q.pc # "user" /\ (y.trap # "sip" => x.trap # "sip")
  BY <1>2, <1>6, <1>8
<1> QED
  BY <1>4, <1>5, <1>6, <1>10, <1>11, <1>12, <1>13, <1>14, <1>15, QuietStep DEF x, p

-----------------------------------------------------------------------------
(***************************************************************************)
(* The steps of the handlers and of the devices.                           *)
(***************************************************************************)
\* a step of a handler, which leaves the processes and the console alone
LEMMA HandlerStep ==
  ASSUME Inv, NEW h \in Harts, NEW y \in HartType,
         hart' = [hart EXCEPT ![h] = y], proc' = proc,
         UNCHANGED <<work, cons, tx, ticks, panicked>>,
         uart' \in UartType, uart'.thr <= 1 \/ uart'.pr,
         plic' \in [pending : BOOLEAN, claimed : Harts \cup {0}], sip' \in BOOLEAN,
         LockMoves(h), Frame(h),
         Balanced(y, proc[h]), Holds(h, lock', y, proc[h]), Claims(h, y, plic', sip'),
         Sending(y, proc[h], uart'),
         sip' /\ (h = 1 => y.trap # "sip") => sip /\ (h = 1 => hart[h].trap # "sip")
  PROVE  Inv' /\ Slept
<1> DEFINE p == proc[h]
<1>1. /\ p \in ProcType /\ Clocked(p, ticks) /\ Reason(p, cons) /\ proc \in [Harts -> ProcType]
  BY HartIs
<1>2. proc' = [proc EXCEPT ![h] = p] /\ p.since <= p.since
  BY <1>1, ProcFields
<1>3. Rest
  BY DEF Rest, Inv, Typed
<1>4. /\ Reason(p, cons') /\ ticks' = ticks /\ (cons.r = cons.w => cons'.r = cons'.w)
      /\ (Dozing(p) => p.pc # "user")
  BY <1>1 DEF Dozing
<1>5. /\ Balanced(y, p) /\ Holds(h, lock', y, p) /\ Sending(y, p, uart')
  OBVIOUS
<1> HIDE DEF p
<1> QED
  BY <1>1, <1>2, <1>3, <1>4, <1>5, Step DEF p

\* the same, when the devices are left alone too
LEMMA HandlerGoes ==
  ASSUME Inv, NEW h \in Harts, NEW y \in HartType,
         hart' = [hart EXCEPT ![h] = y], proc' = proc,
         UNCHANGED <<work, cons, tx, ticks, panicked, plic, sip>>,
         uart' \in UartType, uart'.thr = uart.thr /\ uart'.pr = uart.pr,
         LockMoves(h),
         Balanced(y, proc[h]), Holds(h, lock', y, proc[h]), Claims(h, y, plic, sip),
         Sending(y, proc[h], uart),
         y.trap # "sip" => hart[h].trap # "sip"
  PROVE  Inv' /\ Slept
<1>1. Frame(h)
  BY DEF Frame
<1>2. /\ uart'.thr <= 1 \/ uart'.pr
      /\ sip' \in BOOLEAN
      /\ plic' \in [pending : BOOLEAN, claimed : Harts \cup {0}]
  BY DEF Inv, Typed
<1>3. Claims(h, y, plic', sip') /\ Sending(y, proc[h], uart')
  BY DEF Sending
<1>4. sip' /\ (h = 1 => y.trap # "sip") => sip /\ (h = 1 => hart[h].trap # "sip")
  OBVIOUS
<1> QED
  BY <1>1, <1>2, <1>3, <1>4, HandlerStep

\* an external interrupt comes
LEMMA DevintrStep ==
  ASSUME Inv, NEW h \in Harts, devintr(h)
  PROVE  Inv' /\ Slept
<1> DEFINE x == hart[h]
           p == proc[h]
           y == [x EXCEPT !.sie = FALSE, !.trap = "claim"]
<1>1. /\ x \in HartType /\ p \in ProcType /\ Balanced(x, p) /\ Holds(h, lock, x, p)
      /\ hart \in [Harts -> HartType]
  BY HartIs
<1>2. x.sie /\ x.trap = "none"
  BY DEF devintr
<1>3. x.noff = 0
  BY <1>1, <1>2 DEF Balanced
<1>4. p.pc \in PCs /\ x.want \in Locks \cup {"none"}
  BY <1>1, HartFields, ProcFields
<1>5. p.pc = "user" \/ p.state # "run"
  <2> HIDE DEF x, p
  <2> QED
    BY <1>1, <1>2, <1>3, <1>4 DEF Balanced, UsesCons, UsesTx, UsesTicks, UsesPr, Runs, PCs
<1>6. x.want = "none" /\ \A k \in Locks : lock[k] # h
  BY <1>2, <1>5, Idles
<1>7. /\ hart' = [hart EXCEPT ![h] = y] /\ proc' = proc /\ lock' = lock /\ LockMoves(h)
      /\ UNCHANGED <<work, cons, tx, ticks, panicked, plic, sip, uart>>
  BY DEF devintr, Trap, LockMoves
<1>8. /\ y \in HartType /\ y.noff = 0 /\ y.want = "none" /\ y.trap = "claim"
  BY <1>1, <1>3, <1>6 DEF HartType, Traps, Served
<1>9. ~y.sie
  BY <1>1 DEF HartType
<1> HIDE DEF x, p, y
<1>10. Balanced(y, p)
  BY <1>1, <1>5, <1>8, <1>9 DEF Balanced, UsesCons, UsesTx, UsesTicks, UsesPr, Runs
<1>11. Holds(h, lock', y, p)
  BY <1>6, <1>7, <1>8 DEF Holds, UsesCons, UsesTx, UsesTicks, UsesPr, Runs, Locks
<1>12. Claims(h, y, plic, sip) /\ Sending(y, p, uart) /\ (y.trap # "sip" => x.trap # "sip")
  BY <1>2, <1>8 DEF Claims, Served, Sending, Sends, Runs
<1>13. uart' \in UartType /\ uart'.thr = uart.thr /\ uart'.pr = uart.pr
  BY <1>7 DEF Inv, Typed
<1> QED
  BY <1>7, <1>8, <1>10, <1>11, <1>12, <1>13, HandlerGoes DEF x, p

\* sret: the hart goes on with what was interrupted
Returns(h, y) ==
  /\ y \in HartType /\ hart' = [hart EXCEPT ![h] = y] /\ y.trap = "none"
  /\ Balanced(y, proc[h]) /\ Holds(h, lock, y, proc[h])
  /\ \A d, s : Claims(h, y, d, s)
  /\ ~Sends(y, proc[h])

\* sret leaves the handler, without locks
LEMMA SretIs ==
  ASSUME Inv, NEW h \in Harts, NEW l \in {"claim", "complete", "sip"}, At(h, l), sret(h)
  PROVE  \E y : Returns(h, y)
<1> DEFINE x == hart[h]
           p == proc[h]
           y == [x EXCEPT !.sie = TRUE, !.trap = "none", !.c = "none"]
<1>1. /\ x \in HartType /\ p \in ProcType /\ Balanced(x, p) /\ Holds(h, lock, x, p)
      /\ hart \in [Harts -> HartType]
  BY HartIs
<1>2. x.trap = l
  BY AtHandler
<1>3. x.noff = 0 /\ x.want = "none" /\ \A k \in Locks : lock[k] # h
  BY <1>2, Idles
<1>4. p.pc = "user" \/ p.state # "run"
  BY <1>1, <1>2 DEF Balanced
<1>5. hart' = [hart EXCEPT ![h] = y]
  BY <1>1 DEF sret
<1>6. /\ y \in HartType /\ y.noff = 0 /\ y.want = "none" /\ y.trap = "none" /\ y.sie
  BY <1>1, <1>3 DEF HartType, Traps, Served
<1> HIDE DEF x, p, y
<1>7. Balanced(y, p)
  BY <1>1, <1>4, <1>6 DEF Balanced, UsesCons, UsesTx, UsesTicks, UsesPr, Runs
<1>8. Holds(h, lock, y, p) /\ ~Sends(y, p)
  BY <1>3, <1>4, <1>6 DEF Holds, UsesCons, UsesTx, UsesTicks, UsesPr, Runs, Locks, Sends
<1>9. ASSUME NEW d, NEW s PROVE Claims(h, y, d, s)
  BY <1>6 DEF Claims, Served
<1> QED
  BY <1>5, <1>6, <1>7, <1>8, <1>9 DEF Returns, p

\* the end of an interrupt that was another hart's, or is served
LEMMA SretStep ==
  ASSUME Inv, NEW h \in Harts, NEW l \in {"claim", "complete"}, At(h, l), sret(h),
         plic' = plic \/ (l = "complete" /\ plic' = [plic EXCEPT !.claimed = 0]),
         UNCHANGED <<work, cons, tx, lock, ticks, proc, uart, sip, panicked>>
  PROVE  Inv' /\ Slept
<1>1. PICK y : Returns(h, y)
  BY SretIs
<1>2. hart[h].trap = l
  BY AtHandler
<1>3. Frame(h)
  <2>1. CASE plic' = plic
    BY <2>1 DEF Frame
  <2>2. CASE l = "complete"
    <3>1. plic.claimed = h
      BY <1>2, <2>2, HartIs DEF Claims, Served
    <3>2. ASSUME NEW g \in Harts \ {h} PROVE hart[g].trap \notin Served
      BY <3>1, HartIs DEF Claims
    <3> QED
      BY <3>2 DEF Frame
  <2> QED
    BY <2>1, <2>2
<1>4. /\ uart' \in UartType /\ (uart'.thr <= 1 \/ uart'.pr)
      /\ plic' \in [pending : BOOLEAN, claimed : Harts \cup {0}] /\ sip' \in BOOLEAN /\ LockMoves(h)
  BY DEF Inv, Typed, LockMoves
<1>5. /\ y \in HartType /\ hart' = [hart EXCEPT ![h] = y]
      /\ Balanced(y, proc[h]) /\ Holds(h, lock', y, proc[h]) /\ Claims(h, y, plic', sip')
      /\ Sending(y, proc[h], uart')
  BY <1>1 DEF Returns, Sending
<1>6. sip' /\ (h = 1 => y.trap # "sip") => sip /\ (h = 1 => hart[h].trap # "sip")
  BY <1>2
<1> QED
  BY <1>3, <1>4, <1>5, <1>6, HandlerStep

\* plic_claim(): the interrupt is this hart's, or another one's
LEMMA ClaimStep ==
  ASSUME Inv, NEW h \in Harts, plic_claim(h)
  PROVE  Inv' /\ Slept
<1>1. CASE plic.pending /\ plic.claimed = 0
  <2> DEFINE x == hart[h]
             p == proc[h]
             y == [x EXCEPT !.trap = "getc"]
  <2>1. /\ x \in HartType /\ p \in ProcType /\ Balanced(x, p) /\ Holds(h, lock, x, p)
        /\ hart \in [Harts -> HartType]
    BY HartIs
  <2>2. x.trap = "claim"
    BY AtHandler DEF plic_claim
  <2>3. x.noff = 0 /\ x.want = "none" /\ \A k \in Locks : lock[k] # h
    BY <2>2, Idles
  <2>4. /\ hart' = [hart EXCEPT ![h] = y] /\ plic' = [pending |-> FALSE, claimed |-> h]
        /\ UNCHANGED <<work, cons, tx, lock, ticks, proc, uart, sip, panicked>>
    BY <1>1, <2>1 DEF plic_claim
  <2>5. /\ y \in HartType /\ y.noff = 0 /\ y.want = "none" /\ y.trap = "getc" /\ y.sie = x.sie
    BY <2>1, <2>3 DEF HartType, Traps, Served
  <2> HIDE DEF x, p, y
  <2>6. Balanced(y, p)
    BY <2>1, <2>2, <2>5 DEF Balanced, UsesCons, UsesTx, UsesTicks, UsesPr, Runs
  <2>7. Holds(h, lock', y, p)
    BY <2>3, <2>4, <2>5 DEF Holds, UsesCons, UsesTx, UsesTicks, UsesPr, Runs, Locks
  <2>8. Claims(h, y, plic', sip') /\ Sending(y, p, uart')
    BY <2>4, <2>5 DEF Claims, Sending, Sends, Runs
  <2>9. Frame(h)
    <3>1. ASSUME NEW g \in Harts \ {h} PROVE hart[g].trap \notin Served
      BY <1>1, HartIs, Sizes DEF Claims
    <3> QED
      BY <2>4, <3>1 DEF Frame
  <2>10. /\ uart' \in UartType /\ (uart'.thr <= 1 \/ uart'.pr)
         /\ plic' \in [pending : BOOLEAN, claimed : Harts \cup {0}] /\ sip' \in BOOLEAN /\ LockMoves(h)
    BY <2>4 DEF Inv, Typed, LockMoves
  <2>11. sip' /\ (h = 1 => y.trap # "sip") => sip /\ (h = 1 => x.trap # "sip")
    BY <2>2, <2>4
  <2> QED
    BY <2>4, <2>5, <2>6, <2>7, <2>8, <2>9, <2>10, <2>11, HandlerStep DEF x, p
<1>2. CASE ~(plic.pending /\ plic.claimed = 0)
  <2>1. /\ At(h, "claim") /\ sret(h) /\ plic' = plic
        /\ UNCHANGED <<work, cons, tx, lock, ticks, proc, uart, sip, panicked>>
    BY <1>2 DEF plic_claim
  <2> QED
    BY <2>1, SretStep
<1> QED
  BY <1>1, <1>2

\* plic_complete()
LEMMA CompleteStep ==
  ASSUME Inv, NEW h \in Harts, plic_complete(h)
  PROVE  Inv' /\ Slept
<1>1. /\ At(h, "complete") /\ sret(h) /\ plic' = [plic EXCEPT !.claimed = 0]
      /\ UNCHANGED <<work, cons, tx, lock, ticks, proc, uart, sip, panicked>>
  BY DEF plic_complete
<1> QED
  BY <1>1, SretStep

\* the clock interrupt is acknowledged
LEMMA SipStep ==
  ASSUME Inv, NEW h \in Harts, w_sip(h)
  PROVE  Inv' /\ Slept
<1>0. /\ At(h, "sip") /\ sret(h) /\ sip' = FALSE
      /\ UNCHANGED <<work, cons, tx, lock, ticks, proc, uart, plic, panicked>>
  BY DEF w_sip
<1>1. PICK y : Returns(h, y)
  BY <1>0, SretIs
<1>2. hart[h].trap = "sip"
  BY <1>0, AtHandler
<1>3. h = 1
  BY <1>2, HartIs DEF Claims
<1>4. Frame(h) /\ LockMoves(h)
  BY <1>0, <1>3 DEF Frame, LockMoves
<1>5. /\ uart' \in UartType /\ (uart'.thr <= 1 \/ uart'.pr)
      /\ plic' \in [pending : BOOLEAN, claimed : Harts \cup {0}]
  BY <1>0 DEF Inv, Typed
<1>6. /\ y \in HartType /\ hart' = [hart EXCEPT ![h] = y]
      /\ Balanced(y, proc[h]) /\ Holds(h, lock', y, proc[h]) /\ Claims(h, y, plic', sip')
      /\ Sending(y, proc[h], uart')
  BY <1>0, <1>1 DEF Returns, Sending
<1>7. sip' \in BOOLEAN /\ ~sip'
  BY <1>0
<1> QED
  BY <1>0, <1>4, <1>5, <1>6, <1>7, HandlerStep

\* uartgetc(): a character for consoleintr(), or none
LEMMA GetcStep ==
  ASSUME Inv, NEW h \in Harts, uartgetc(h)
  PROVE  Inv' /\ Slept
<1> DEFINE x == hart[h]
           p == proc[h]
           e == uart.rx = "none"
           w == IF e THEN x ELSE [x EXCEPT !.c = uart.rx]
           k == IF e THEN "tx" ELSE "cons"
           l == IF e THEN "start" ELSE "char"
           z == Pushed(w, k)
           y == [z EXCEPT !.trap = l]
<1>1. /\ x \in HartType /\ p \in ProcType /\ Balanced(x, p) /\ Holds(h, lock, x, p)
      /\ Claims(h, x, plic, sip) /\ hart \in [Harts -> HartType]
  BY HartIs
<1>2. x.trap = "getc"
  BY AtHandler DEF uartgetc
<1>3. x.noff = 0 /\ x.want = "none" /\ \A j \in Locks : lock[j] # h
  BY <1>2, Idles
<1>4. k \in Locks /\ lock[k] # h
  BY <1>3 DEF Locks
<1>5. /\ uart' = [uart EXCEPT !.rx = "none"] /\ acquire(h, k, w, l, proc)
      /\ UNCHANGED <<work, cons, tx, lock, ticks, plic, sip>>
  BY DEF uartgetc
<1>6. uart \in UartType /\ uart.rx \in Keys \cup {"none"}
  BY DEF Inv, Typed, UartType
<1>7. w \in HartType /\ w.noff = 0 /\ w.trap = "getc" /\ (~e => w.c = uart.rx)
  BY <1>1, <1>2, <1>3, <1>6 DEF HartType
<1>8. w.sie = x.sie
  BY <1>1 DEF HartType
<1>9. ~x.sie
  BY <1>1, <1>2 DEF Balanced
<1>10. z \in HartType /\ Pushes(w, k, z)
  <2> HIDE DEF w, k
  <2> QED
    BY <1>4, <1>7, PushFields
<1>11. z.noff = 1 /\ ~z.intena /\ ~z.sie /\ z.want = k /\ z.c = w.c
  <2> HIDE DEF w, k, z, x
  <2> QED
    BY <1>7, <1>8, <1>9, <1>10 DEF Pushes
<1>12. /\ hart' = [hart EXCEPT ![h] = y] /\ proc' = proc /\ UNCHANGED panicked
  <2> HIDE DEF w, k, l
  <2> QED
    BY <1>2, <1>4, <1>5 DEF acquire, Go, Pushed
<1>13. /\ y \in HartType /\ y.noff = 1 /\ y.want = k /\ y.trap = l /\ y.c = w.c
       /\ y.intena = z.intena /\ y.sie = z.sie
  <2> HIDE DEF z, w, k
  <2> QED
    BY <1>10, <1>11 DEF HartType, Traps, Served
<1>14. (k = "tx" /\ l = "start") \/ (k = "cons" /\ l = "char" /\ w.c # "none")
  BY <1>7
<1> HIDE DEF x, p, e, w, k, l, z, y
<1>15. Balanced(y, p)
  BY <1>1, <1>2, <1>11, <1>13, <1>14 DEF Balanced, UsesCons, UsesTx, UsesTicks, UsesPr, Runs
<1>16. Holds(h, lock', y, p)
  BY <1>3, <1>5, <1>13, <1>14 DEF Holds, UsesCons, UsesTx, UsesTicks, UsesPr, Runs, Locks
<1>17. Claims(h, y, plic, sip) /\ Sending(y, p, uart) /\ (y.trap # "sip" => x.trap # "sip")
  BY <1>1, <1>2, <1>13, <1>14 DEF Claims, Served, Sending, Sends, Runs
<1>18. uart' \in UartType /\ uart'.thr = uart.thr /\ uart'.pr = uart.pr /\ LockMoves(h)
  BY <1>5, <1>6 DEF LockMoves, UartType
<1> QED
  BY <1>5, <1>12, <1>13, <1>15, <1>16, <1>17, <1>18, HandlerGoes DEF x, p

\* a step of a handler that wakes processes
LEMMA WakeStep ==
  ASSUME Inv, NEW h \in Harts, NEW y \in HartType, hart' = [hart EXCEPT ![h] = y],
         proc' \in [Harts -> ProcType], ticks' \in 0..(UINT - 1), LockMoves(h), Frame(h), Rest,
         \A g \in Harts : /\ Alike(proc'[g], proc[g])
                          /\ Clocked(proc'[g], ticks') /\ Reason(proc'[g], cons'),
         Balanced(y, proc'[h]), Holds(h, lock', y, proc'[h]), Claims(h, y, plic', sip'),
         Sending(y, proc'[h], uart'), NextTick'
  PROVE  Inv' /\ Slept
<1>1. hart \in [Harts -> HartType]
  BY DEF Inv, Typed
<1>2. /\ hart' \in [Harts -> HartType] /\ hart'[h] = y
      /\ \A g \in Harts \ {h} : hart'[g] = hart[g]
  BY <1>1
<1>3. Typed' /\ (uart'.thr <= 1 \/ uart'.pr)
  BY <1>1, <1>2, LocksMove DEF Typed, Rest
<1>4. ASSUME NEW g \in Harts PROVE HartInv(g, hart[g], proc[g])'
  <2>1. CASE g = h
    BY <1>2, <2>1 DEF HartInv
  <2>2. CASE g # h
    <3>1. PICK q \in ProcType : q = proc'[g]
      OBVIOUS
    <3>2. Clocked(q, ticks') /\ Reason(q, cons') /\ Alike(q, proc[g])
      BY <3>1
    <3>3. Balanced(hart[g], q) /\ Holds(g, lock', hart[g], q)
            /\ Claims(g, hart[g], plic', sip') /\ Sending(hart[g], q, uart')
      BY <2>2, <3>2, OtherHart
    <3> QED
      BY <1>2, <2>2, <3>1, <3>2, <3>3 DEF HartInv
  <2> QED
    BY <2>1, <2>2
<1>5. Slept
  BY DEF Slept, Dozing, Alike
<1> QED
  BY <1>3, <1>4, <1>5 DEF Inv

\* uartputc_sync(): the UART is idle; THR is written; the echo is done
LEMMA SyncStep ==
  ASSUME Inv, NEW h \in Harts, uartputc_sync(h)
  PROVE  Inv' /\ Slept
<1> DEFINE x == hart[h]
           p == proc[h]
           y == [x EXCEPT !.echo = x.echo - 1, !.trap = "echo_thr"]
<1>1. /\ x \in HartType /\ p \in ProcType /\ Balanced(x, p) /\ Holds(h, lock, x, p)
      /\ Claims(h, x, plic, sip) /\ hart \in [Harts -> HartType]
  BY HartIs
<1>2. x.trap = "echo" /\ x.want = "none" /\ x.echo > 0
  BY AtHandler DEF uartputc_sync
<1>3. x.echo - 1 = 0
  BY <1>1, <1>2, HartFields
<1>4. /\ hart' = [hart EXCEPT ![h] = y] /\ proc' = proc /\ uart.thr = 0
      /\ UNCHANGED <<work, cons, tx, lock, ticks, uart, plic, sip, panicked>>
  BY <1>1, <1>2 DEF uartputc_sync, Go, Idle
<1>5. /\ y \in HartType /\ y.trap = "echo_thr" /\ y.noff = x.noff /\ y.intena = x.intena /\ y.sie = x.sie
      /\ y.want = "none"
  BY <1>1, <1>2, <1>3 DEF HartType, Traps, Served
<1> HIDE DEF x, p, y
<1>6. Balanced(y, p) /\ Holds(h, lock', y, p)
  BY <1>1, <1>2, <1>4, <1>5 DEF Balanced, Holds, UsesCons, UsesTx, UsesTicks, UsesPr, Runs
<1>7. Claims(h, y, plic, sip) /\ Sending(y, p, uart) /\ (y.trap # "sip" => x.trap # "sip")
  BY <1>1, <1>2, <1>4, <1>5 DEF Claims, Served, Sending
<1>8. uart' \in UartType /\ uart'.thr = uart.thr /\ uart'.pr = uart.pr /\ LockMoves(h)
  BY <1>4 DEF Inv, Typed, LockMoves
<1> QED
  BY <1>4, <1>5, <1>6, <1>7, <1>8, HandlerGoes DEF x, p

\* uartputc_sync() writes THR
LEMMA EchoStep ==
  ASSUME Inv, NEW h \in Harts, sync_thr(h)
  PROVE  Inv' /\ Slept
<1> DEFINE x == hart[h]
           p == proc[h]
           y == [x EXCEPT !.trap = "echo"]
<1>1. /\ x \in HartType /\ p \in ProcType /\ Balanced(x, p) /\ Holds(h, lock, x, p)
      /\ Claims(h, x, plic, sip) /\ Sending(x, p, uart) /\ hart \in [Harts -> HartType]
  BY HartIs
<1>2. x.trap = "echo_thr" /\ x.want = "none"
  BY AtHandler DEF sync_thr
<1>3. Sends(x, p) /\ (uart.thr = 0 \/ uart.pr)
  BY <1>1, <1>2 DEF Sends, Sending
<1>4. /\ hart' = [hart EXCEPT ![h] = y] /\ proc' = proc /\ uart' = [uart EXCEPT !.thr = uart.thr + 1]
      /\ UNCHANGED <<work, cons, tx, lock, ticks, plic, sip, panicked>>
  BY <1>1, <1>2 DEF sync_thr, Go
<1>5. /\ y \in HartType /\ y.trap = "echo" /\ y.noff = x.noff /\ y.intena = x.intena /\ y.sie = x.sie
      /\ y.want = "none"
  BY <1>1, <1>2 DEF HartType, Traps, Served
<1>6. uart' \in UartType /\ (uart'.thr <= 1 \/ uart'.pr)
  BY <1>3, <1>4, ThrWritten
<1>8. Frame(h) /\ LockMoves(h)
  BY <1>3, <1>4, SendsAlone DEF Frame, LockMoves
<1> HIDE DEF x, p, y
<1>9. Balanced(y, p) /\ Holds(h, lock', y, p)
  BY <1>1, <1>2, <1>4, <1>5 DEF Balanced, Holds, UsesCons, UsesTx, UsesTicks, UsesPr, Runs
<1>10. Claims(h, y, plic', sip') /\ Sending(y, p, uart')
  BY <1>1, <1>2, <1>4, <1>5 DEF Claims, Served, Sending, Sends, Runs
<1>11. sip' /\ (h = 1 => y.trap # "sip") => sip /\ (h = 1 => x.trap # "sip")
  BY <1>2, <1>4
<1>12. plic' \in [pending : BOOLEAN, claimed : Harts \cup {0}] /\ sip' \in BOOLEAN
  BY <1>4 DEF Inv, Typed
<1> QED
  BY <1>4, <1>5, <1>6, <1>8, <1>9, <1>10, <1>11, <1>12, HandlerStep DEF x, p

\* consoleintr() releases cons.lock
LEMMA IntrEndStep ==
  ASSUME Inv, NEW h \in Harts, consoleintr_end(h)
  PROVE  Inv' /\ Slept
<1> DEFINE x == hart[h]
           p == proc[h]
           z == pop_off(x)
           y == [z EXCEPT !.trap = "getc"]
<1>1. /\ x \in HartType /\ p \in ProcType /\ Balanced(x, p) /\ Holds(h, lock, x, p)
      /\ Claims(h, x, plic, sip) /\ hart \in [Harts -> HartType] /\ lock \in [Locks -> Harts \cup {0}]
  BY HartIs
<1>2. x.trap = "echo" /\ x.want = "none"
  BY AtHandler DEF consoleintr_end
<1>3. x.noff = 1 /\ ~x.intena /\ ~x.sie /\ lock["cons"] = h /\ lock["tx"] # h /\ lock["ticks"] # h /\ lock["pr"] # h
  <2>1. x.noff \in {0, 1, 2}
    BY <1>1, HartFields
  <2> HIDE DEF x, p
  <2> QED
    BY <1>1, <1>2, <2>1 DEF Balanced, Holds, UsesCons, UsesTx, UsesTicks, UsesPr, Runs
<1>4. pop_off_panics(x) = "none"
  BY <1>3 DEF pop_off_panics
<1>5. /\ lock' = [lock EXCEPT !["cons"] = 0]
      /\ hart' = [hart EXCEPT ![h] = y] /\ proc' = proc
      /\ UNCHANGED <<work, cons, tx, ticks, uart, plic, sip, panicked>>
  <2> HIDE DEF z
  <2> QED
    BY <1>2, <1>3, <1>4 DEF consoleintr_end, release, Go, z
<1>6. z \in HartType /\ Pops(x, z)
  BY <1>1, <1>3, PopFields
<1>7. z.noff = 0 /\ ~z.sie /\ z.want = "none"
  <2> HIDE DEF x, z
  <2> QED
    BY <1>2, <1>3, <1>6 DEF Pops
<1>8. y \in HartType /\ y.trap = "getc" /\ y.noff = 0 /\ y.want = "none" /\ y.sie = z.sie
  <2> HIDE DEF z
  <2> QED
    BY <1>6, <1>7 DEF HartType, Traps, Served
<1> HIDE DEF x, p, z, y
<1>9. Balanced(y, p)
  BY <1>1, <1>2, <1>7, <1>8 DEF Balanced, UsesCons, UsesTx, UsesTicks, UsesPr, Runs
<1>10. Holds(h, lock', y, p)
  BY <1>1, <1>3, <1>5, <1>8, Sizes DEF Holds, UsesCons, UsesTx, UsesTicks, UsesPr, Runs, Locks
<1>11. Claims(h, y, plic, sip) /\ Sending(y, p, uart) /\ (y.trap # "sip" => x.trap # "sip")
  BY <1>1, <1>2, <1>8 DEF Claims, Served, Sending, Sends, Runs
<1>12. uart' \in UartType /\ uart'.thr = uart.thr /\ uart'.pr = uart.pr
  BY <1>5 DEF Inv, Typed
<1>13. LockMoves(h)
  BY <1>3, <1>5 DEF LockMoves, Locks
<1> QED
  BY <1>5, <1>8, <1>9, <1>10, <1>11, <1>12, <1>13, HandlerGoes DEF x, p

\* control-P: procdump(), acquire() of pr.lock
LEMMA DumpStep ==
  ASSUME Inv, NEW h \in Harts, procdump(h)
  PROVE  Inv' /\ Slept
<1> DEFINE x == hart[h]
           p == proc[h]
           w == [x EXCEPT !.echo = 0, !.c = "none"]
           z == Pushed(w, "pr")
           y == [z EXCEPT !.trap = "printf"]
<1>1. /\ x \in HartType /\ p \in ProcType /\ Balanced(x, p) /\ Holds(h, lock, x, p)
      /\ Claims(h, x, plic, sip) /\ hart \in [Harts -> HartType]
  BY HartIs
<1>2. x.trap = "char" /\ x.want = "none"
  BY AtHandler DEF procdump
<1>3. /\ x.noff = 1 /\ ~x.intena /\ ~x.sie
      /\ lock["cons"] = h /\ lock["tx"] # h /\ lock["ticks"] # h /\ lock["pr"] # h
  <2>1. x.noff \in {0, 1, 2}
    BY <1>1, HartFields
  <2> HIDE DEF x, p
  <2> QED
    BY <1>1, <1>2, <2>1 DEF Balanced, Holds, UsesCons, UsesTx, UsesTicks, UsesPr, Runs
<1>4. acquire(h, "pr", w, "printf", proc) /\ UNCHANGED <<work, cons, tx, lock, ticks, uart, plic, sip>>
  BY DEF procdump
<1>5. w \in HartType /\ w.noff = 1 /\ w.trap = "char" /\ w.intena = x.intena
  BY <1>1, <1>2, <1>3 DEF HartType
<1>6. z \in HartType /\ Pushes(w, "pr", z)
  <2> HIDE DEF w
  <2> QED
    BY <1>5, PushFields DEF Locks
<1>7. z.noff = 2 /\ ~z.intena /\ ~z.sie /\ z.want = "pr"
  <2> HIDE DEF w, z, x
  <2> QED
    BY <1>3, <1>5, <1>6 DEF Pushes
<1>8. /\ hart' = [hart EXCEPT ![h] = y] /\ proc' = proc /\ UNCHANGED panicked
  <2> HIDE DEF w
  <2> QED
    BY <1>2, <1>3, <1>4 DEF acquire, Go, Pushed
<1>9. /\ y \in HartType /\ y.noff = 2 /\ y.want = "pr" /\ y.trap = "printf"
      /\ y.intena = z.intena /\ y.sie = z.sie
  <2> HIDE DEF z, w
  <2> QED
    BY <1>6, <1>7 DEF HartType, Traps, Served
<1> HIDE DEF x, p, w, z, y
<1>10. Balanced(y, p)
  BY <1>1, <1>2, <1>7, <1>9 DEF Balanced, UsesCons, UsesTx, UsesTicks, UsesPr, Runs
<1>11. Holds(h, lock', y, p)
  BY <1>3, <1>4, <1>9 DEF Holds, UsesCons, UsesTx, UsesTicks, UsesPr, Runs
<1>12. Claims(h, y, plic, sip) /\ Sending(y, p, uart) /\ (y.trap # "sip" => x.trap # "sip")
  BY <1>1, <1>2, <1>9 DEF Claims, Served, Sending, Sends, Runs
<1>13. uart' \in UartType /\ uart'.thr = uart.thr /\ uart'.pr = uart.pr /\ LockMoves(h)
  BY <1>4 DEF Inv, Typed, LockMoves
<1> QED
  BY <1>4, <1>8, <1>9, <1>10, <1>11, <1>12, <1>13, HandlerGoes DEF x, p

\* printf() finds the UART idle
LEMMA PrintfStep ==
  ASSUME Inv, NEW h \in Harts, printf(h)
  PROVE  Inv' /\ Slept
<1> DEFINE x == hart[h]
           p == proc[h]
<1>1. /\ x \in HartType /\ p \in ProcType /\ Balanced(x, p) /\ Holds(h, lock, x, p)
      /\ Claims(h, x, plic, sip) /\ Clocked(p, ticks) /\ Reason(p, cons)
      /\ hart \in [Harts -> HartType] /\ proc \in [Harts -> ProcType]
  BY HartIs
<1>2. /\ x.want = "none"
      /\ x.trap = "printf" \/ (x.trap = "none" /\ p.pc = "printf" /\ p.state = "run")
  BY AtStart DEF printf
<1>3. /\ Go(h, x, "printf_thr", proc)
      /\ UNCHANGED <<work, cons, tx, lock, ticks, uart, plic, sip, panicked>>
  BY DEF printf
<1>4. LockMoves(h) /\ tx' \in [r : Slots, w : Slots]
  BY <1>3 DEF LockMoves, Inv, Typed
<1>5. CASE x.trap = "none"
  <2> DEFINE q == [p EXCEPT !.pc = "printf_thr"]
  <2>1. /\ q \in ProcType /\ q.pc = "printf_thr" /\ q.state = "run" /\ q.since = p.since
        /\ p.since \in Nat
    BY <1>1, <1>2, <1>5 DEF ProcType, PCs
  <2>2. hart' = [hart EXCEPT ![h] = x] /\ proc' = [proc EXCEPT ![h] = q]
    BY <1>1, <1>3, <1>5 DEF Go
  <2>3. p.pc = "printf" /\ p.state = "run"
    BY <1>2, <1>5
  <2> HIDE DEF x, p, q
  <2>4. Balanced(x, q) /\ Holds(h, lock', x, q)
    BY <1>1, <1>2, <1>3, <1>5, <2>1, <2>3 DEF Balanced, Holds, UsesCons, UsesTx, UsesTicks, UsesPr, Runs
  <2>5. Clocked(q, ticks) /\ q.since <= p.since /\ ~Dozing(p)
    BY <1>1, <2>1, <2>3 DEF Clocked, Dozing
  <2>6. Sending(x, q, uart) /\ Reason(q, cons) /\ Claims(h, x, plic, sip)
    BY <1>1, <1>5, <2>1 DEF Sending, Sends, Runs, Reason
  <2> QED
    BY <1>1, <1>3, <1>4, <2>1, <2>2, <2>4, <2>5, <2>6, QuietStep DEF x, p
<1>6. CASE x.trap = "printf"
  <2> DEFINE y == [x EXCEPT !.trap = "printf_thr"]
  <2>1. /\ y \in HartType /\ y.trap = "printf_thr" /\ y.noff = x.noff /\ y.intena = x.intena
        /\ y.sie = x.sie /\ y.want = x.want
    BY <1>1 DEF HartType, Traps, Served
  <2>2. hart' = [hart EXCEPT ![h] = y] /\ proc' = proc
    BY <1>3, <1>6 DEF Go
  <2> HIDE DEF x, p, y
  <2>3. Balanced(y, p) /\ Holds(h, lock', y, p)
    BY <1>1, <1>2, <1>3, <1>6, <2>1 DEF Balanced, Holds, UsesCons, UsesTx, UsesTicks, UsesPr, Runs
  <2>4. Claims(h, y, plic, sip) /\ Sending(y, p, uart) /\ (y.trap # "sip" => x.trap # "sip")
    BY <1>1, <1>6, <2>1 DEF Claims, Served, Sending, Sends, Runs
  <2>5. uart' \in UartType /\ uart'.thr = uart.thr /\ uart'.pr = uart.pr
    BY <1>3 DEF Inv, Typed
  <2> QED
    BY <1>3, <1>4, <2>1, <2>2, <2>3, <2>4, <2>5, HandlerGoes DEF x, p
<1> QED
  BY <1>2, <1>5, <1>6

\* printf() writes THR and releases pr.lock
LEMMA PrintedStep ==
  ASSUME Inv, NEW h \in Harts, printf_end(h)
  PROVE  Inv' /\ Slept
<1> DEFINE x == hart[h]
           p == proc[h]
<1>1. /\ x \in HartType /\ p \in ProcType /\ Balanced(x, p) /\ Holds(h, lock, x, p)
      /\ Claims(h, x, plic, sip) /\ hart \in [Harts -> HartType] /\ lock \in [Locks -> Harts \cup {0}]
  BY HartIs
<1>2. /\ x.want = "none"
      /\ x.trap = "printf_thr" \/ (x.trap = "none" /\ p.pc = "printf_thr" /\ p.state = "run")
  BY AtStart DEF printf_end
<1>3. /\ uart' = [uart EXCEPT !.thr = uart.thr + 1, !.pr = TRUE]
      /\ UNCHANGED <<work, cons, tx, ticks, plic, sip>>
  BY DEF printf_end
<1>4. uart' \in UartType /\ uart'.pr
  <2>0. uart \in UartType /\ uart.thr \in Nat
    BY DEF Inv, Typed, UartType
  <2>1. uart \in UartType /\ uart.thr + 1 \in Nat
    BY <2>0
  <2> DEFINE n == uart.thr + 1
  <2> HIDE DEF n
  <2>2. n \in Nat /\ uart' = [uart EXCEPT !.thr = n, !.pr = TRUE]
    BY <1>3, <2>1 DEF n
  <2> QED
    BY <2>1, <2>2 DEF UartType
<1>5. CASE x.trap = "none"
  <2>1. release(h, "pr", "user", User(h)) /\ p.pc = "printf_thr" /\ p.state = "run"
    BY <1>2, <1>5 DEF printf_end
  <2>2. ~Dozing(p) /\ cons' \in ConsType /\ (cons.r = cons.w => cons'.r = cons'.w)
    BY <1>3, <2>1 DEF Dozing, Inv, Typed, ConsType
  <2> QED
    BY <1>2, <1>3, <1>4, <1>5, <2>1, <2>2, ReturnStep
<1>6. CASE x.trap = "printf_thr"
  <2> DEFINE z == pop_off(x)
             y == [z EXCEPT !.trap = "echo"]
  <2>1. /\ x.noff = 2 /\ ~x.intena /\ ~x.sie
        /\ lock["cons"] = h /\ lock["pr"] = h /\ lock["tx"] # h /\ lock["ticks"] # h
    <3>1. x.noff \in {0, 1, 2}
      BY <1>1, HartFields
    <3> HIDE DEF x, p
    <3> QED
      BY <1>1, <1>2, <1>6, <3>1 DEF Balanced, Holds, UsesCons, UsesTx, UsesTicks, UsesPr, Runs
  <2>2. pop_off_panics(x) = "none"
    BY <2>1 DEF pop_off_panics
  <2>3. /\ lock' = [lock EXCEPT !["pr"] = 0]
        /\ hart' = [hart EXCEPT ![h] = y] /\ proc' = proc /\ UNCHANGED panicked
    <3> HIDE DEF z
    <3> QED
      BY <1>6, <2>1, <2>2 DEF printf_end, release, Go, z
  <2>4. z \in HartType /\ Pops(x, z)
    BY <1>1, <2>1, PopFields
  <2>5. z.noff = 1 /\ ~z.sie /\ z.want = "none" /\ ~z.intena
    <3> HIDE DEF x, z
    <3> QED
      BY <1>2, <2>1, <2>4 DEF Pops
  <2>6. y \in HartType /\ y.trap = "echo" /\ y.noff = 1 /\ y.want = "none" /\ y.sie = z.sie /\ y.intena = z.intena
    <3> HIDE DEF z
    <3> QED
      BY <2>4, <2>5 DEF HartType, Traps, Served
  <2>7. LockMoves(h) /\ Frame(h)
    BY <1>3, <1>4, <2>1, <2>3 DEF LockMoves, Locks, Frame
  <2> HIDE DEF x, p, z, y
  <2>8. Balanced(y, p)
    BY <1>1, <1>6, <2>5, <2>6 DEF Balanced, UsesCons, UsesTx, UsesTicks, UsesPr, Runs
  <2>9. Holds(h, lock', y, p)
    BY <1>1, <2>1, <2>3, <2>6, Sizes DEF Holds, UsesCons, UsesTx, UsesTicks, UsesPr, Runs, Locks
  <2>10. Claims(h, y, plic', sip') /\ Sending(y, p, uart')
    BY <1>1, <1>3, <1>6, <2>6 DEF Claims, Served, Sending, Sends, Runs
  <2>11. sip' /\ (h = 1 => y.trap # "sip") => sip /\ (h = 1 => x.trap # "sip")
    BY <1>3, <1>6
  <2>12. plic' \in [pending : BOOLEAN, claimed : Harts \cup {0}] /\ sip' \in BOOLEAN
    BY <1>3 DEF Inv, Typed
  <2> QED
    BY <1>3, <1>4, <2>3, <2>6, <2>7, <2>8, <2>9, <2>10, <2>11, <2>12, HandlerStep DEF x, p
<1> QED
  BY <1>2, <1>5, <1>6

\* a clock interrupt comes: acquire() of tickslock
LEMMA SoftintrStep ==
  ASSUME Inv, NEW h \in Harts, softintr(h)
  PROVE  Inv' /\ Slept
<1> DEFINE x == hart[h]
           p == proc[h]
           w == Trap(x, "tick")
           y == Pushed(w, "ticks")
<1>1. /\ x \in HartType /\ p \in ProcType /\ Balanced(x, p) /\ Holds(h, lock, x, p)
      /\ hart \in [Harts -> HartType]
  BY HartIs
<1>2. x.sie /\ x.trap = "none" /\ h = 1 /\ sip
  BY DEF softintr
<1>3. x.noff = 0
  BY <1>1, <1>2 DEF Balanced
<1>4. p.pc \in PCs
  BY <1>1, ProcFields
<1>5. p.pc = "user" \/ p.state # "run"
  <2> HIDE DEF x, p
  <2> QED
    BY <1>1, <1>2, <1>3, <1>4 DEF Balanced, UsesCons, UsesTx, UsesTicks, UsesPr, Runs, PCs
<1>6. x.want = "none" /\ lock["cons"] # h /\ lock["tx"] # h /\ lock["ticks"] # h /\ lock["pr"] # h
  BY <1>2, <1>5, Idles DEF Locks
<1>7. /\ hart' = [hart EXCEPT ![h] = y] /\ proc' = proc /\ lock' = lock /\ LockMoves(h)
      /\ UNCHANGED <<work, cons, tx, ticks, panicked, plic, sip, uart>>
  BY <1>6 DEF softintr, LockMoves, Pushed
<1>8. w \in HartType /\ w.noff = 0 /\ w.trap = "tick"
  BY <1>1, <1>3 DEF HartType, Traps, Served, Trap
<1>9. ~w.sie
  BY <1>1 DEF HartType, Trap
<1> HIDE DEF x, p, w, y
<1>10. y \in HartType /\ Pushes(w, "ticks", y)
  BY <1>8, PushFields DEF Locks, y
<1>11. Balanced(y, p)
  BY <1>1, <1>5, <1>8, <1>9, <1>10 DEF Pushes, Balanced, UsesCons, UsesTx, UsesTicks, UsesPr, Runs
<1>12. Holds(h, lock', y, p)
  BY <1>6, <1>7, <1>8, <1>10 DEF Pushes, Holds, UsesCons, UsesTx, UsesTicks, UsesPr, Runs
<1>13. Claims(h, y, plic, sip) /\ Sending(y, p, uart) /\ (y.trap # "sip" => x.trap # "sip")
  BY <1>2, <1>8, <1>10 DEF Pushes, Claims, Served, Sending, Sends, Runs
<1>14. uart' \in UartType /\ uart'.thr = uart.thr /\ uart'.pr = uart.pr
  BY <1>7 DEF Inv, Typed
<1> QED
  BY <1>7, <1>10, <1>11, <1>12, <1>13, <1>14, HandlerGoes DEF x, p

\* remainders, when the quotient is -1, 0 or 1
LEMMA ModUnique ==
  ASSUME NEW M \in Nat \ {0}, NEW d \in Int, NEW r \in 0..(M - 1), NEW q \in Int, d = q * M + r
  PROVE  d % M = r
<1>1. /\ d % M \in 0..(M - 1) /\ d \div M \in Int
      /\ d = M * (d \div M) + (d % M)
  OBVIOUS
<1> QED
  BY <1>1

\* a remainder, when the number is at most one modulus off
LEMMA ModIs ==
  ASSUME NEW M \in Nat \ {0}, NEW d \in Int
  PROVE  /\ d % M \in 0..(M - 1)
         /\ d \in 0..(M - 1) => d % M = d
         /\ d \in (-M)..(-1) => d % M = d + M
         /\ d \in M..(2 * M - 1) => d % M = d - M
<1>1. ASSUME d \in 0..(M - 1) PROVE d % M = d
  BY <1>1, d = 0 * M + d, ModUnique
<1>2. ASSUME d \in (-M)..(-1) PROVE d % M = d + M
  <2>1. d + M \in 0..(M - 1) /\ d = (-1) * M + (d + M)
    BY <1>2
  <2> QED
    BY <2>1, ModUnique
<1>3. ASSUME d \in M..(2 * M - 1) PROVE d % M = d - M
  <2>1. d - M \in 0..(M - 1) /\ d = 1 * M + (d - M)
    BY <1>3
  <2> QED
    BY <2>1, ModUnique
<1>4. d % M \in 0..(M - 1)
  OBVIOUS
<1> QED
  BY <1>1, <1>2, <1>3, <1>4

\* the distance from one counter to another, and that it grows with the second
LEMMA GapIs ==
  ASSUME NEW M \in Nat \ {0}, NEW i \in 0..(M - 1), NEW j \in 0..(M - 1)
  PROVE  /\ (j - i) % M \in 0..(M - 1)
         /\ j = i + ((j - i) % M) \/ j + M = i + ((j - i) % M)
<1> DEFINE d == j - i
<1>1. d \in Int /\ (d \in 0..(M - 1) \/ d \in (-M)..(-1))
  OBVIOUS
<1> HIDE DEF d
<1>2. d % M \in 0..(M - 1) /\ (d % M = d \/ d % M = d + M)
  BY <1>1, ModIs
<1> QED
  BY <1>2 DEF d

\* the distance is the only number that leads from one counter to the other
LEMMA GapUnique ==
  ASSUME NEW M \in Nat \ {0}, NEW i \in 0..(M - 1), NEW j \in 0..(M - 1), NEW s \in 0..(M - 1),
         j = i + s \/ j + M = i + s
  PROVE  (j - i) % M = s
<1> DEFINE a == (j - i) % M
<1>1. a \in 0..(M - 1) /\ (j = i + a \/ j + M = i + a)
  BY GapIs
<1> HIDE DEF a
<1>2. a = s
  BY <1>1
<1> QED
  BY <1>2 DEF a

\* a counter that moves by k
LEMMA StepsIs ==
  ASSUME NEW M \in Nat \ {0}, NEW i \in 0..(M - 1), NEW k \in 0..(M - 1)
  PROVE  /\ (i + k) % M \in 0..(M - 1) /\ (((i + k) % M) + M = i + k \/ (i + k) % M = i + k)
         /\ (i - k) % M \in 0..(M - 1) /\ ((i - k) % M = i - k + M \/ (i - k) % M = i - k)
<1> DEFINE d == i + k
           f == i - k
<1>1. /\ d \in Int /\ (d \in 0..(M - 1) \/ d \in M..(2 * M - 1))
      /\ f \in Int /\ (f \in 0..(M - 1) \/ f \in (-M)..(-1))
  OBVIOUS
<1> HIDE DEF d, f
<1>2. d % M \in 0..(M - 1) /\ (d % M = d \/ d % M = d - M)
  BY <1>1, ModIs
<1>3. f % M \in 0..(M - 1) /\ (f % M = f \/ f % M = f + M)
  BY <1>1, ModIs
<1> QED
  BY <1>1, <1>2, <1>3 DEF d, f

\* a tick makes those who wait one tick older
LEMMA TickGap ==
  ASSUME NEW M \in Nat \ {0}, NEW t \in 0..(M - 1), NEW t0 \in 0..(M - 1), NEW s,
         s = (t - t0) % M, s < M - 1
  PROVE  (t + 1) % M \in 0..(M - 1) /\ (((t + 1) % M) - t0) % M = s + 1
<1> DEFINE u == (t + 1) % M
<1>1. s \in 0..(M - 1) /\ (t = t0 + s \/ t + M = t0 + s)
  BY GapIs
<1>2. 1 \in 0..(M - 1)
  BY <1>1
<1>3. u \in 0..(M - 1) /\ (u + M = t + 1 \/ u = t + 1)
  BY <1>2, StepsIs
<1> HIDE DEF u
<1>4. s + 1 \in 0..(M - 1) /\ (u = t0 + (s + 1) \/ u + M = t0 + (s + 1))
  BY <1>1, <1>3
<1>5. (u - t0) % M = s + 1
  BY <1>3, <1>4, GapUnique
<1> QED
  BY <1>3, <1>5 DEF u

\* clockintr()
LEMMA TickStep ==
  ASSUME Inv, NEW h \in Harts, clockintr(h)
  PROVE  Inv' /\ Slept
<1> DEFINE x == hart[h]
           z == pop_off(x)
           y == [z EXCEPT !.trap = "sip"]
           older == [g \in Harts |-> IF Napping(g) THEN [proc[g] EXCEPT !.since = @ + 1] ELSE proc[g]]
<1>1. /\ x \in HartType /\ proc[h] \in ProcType /\ Balanced(x, proc[h]) /\ Holds(h, lock, x, proc[h])
      /\ Claims(h, x, plic, sip) /\ hart \in [Harts -> HartType] /\ proc \in [Harts -> ProcType]
      /\ lock \in [Locks -> Harts \cup {0}]
  BY HartIs
<1>2. x.trap = "tick" /\ x.want = "none"
  BY AtHandler DEF clockintr
<1>3. h = 1 /\ sip
  BY <1>1, <1>2 DEF Claims
<1>4. x.noff = 1 /\ ~x.intena /\ ~x.sie /\ lock["ticks"] = h /\ lock["tx"] # h /\ lock["cons"] # h
  <2>1. x.noff \in {0, 1, 2}
    BY <1>1, HartFields
  <2> DEFINE p == proc[h]
  <2>2. Balanced(x, p) /\ Holds(h, lock, x, p)
    BY <1>1
  <2> HIDE DEF x, p
  <2> QED
    BY <1>2, <2>1, <2>2 DEF Balanced, Holds, UsesCons, UsesTx, UsesTicks, UsesPr, Runs
<1>5. pop_off_panics(x) = "none"
  BY <1>4 DEF pop_off_panics
<1>6. /\ lock' = [lock EXCEPT !["ticks"] = 0] /\ ticks' = (ticks + 1) % UINT
      /\ hart' = [hart EXCEPT ![h] = y] /\ proc' = wakeup(older, "ticks")
      /\ UNCHANGED <<work, cons, tx, uart, plic, sip, panicked>>
  <2> HIDE DEF z, older
  <2> QED
    BY <1>2, <1>4, <1>5 DEF clockintr, release, Go, z, older
<1>7. z \in HartType /\ Pops(x, z)
  BY <1>1, <1>4, PopFields
<1>8. z.noff = 0 /\ ~z.sie /\ z.want = "none"
  <2> HIDE DEF x, z
  <2> QED
    BY <1>2, <1>4, <1>7 DEF Pops
<1>9. y \in HartType /\ y.trap = "sip" /\ y.noff = 0 /\ y.want = "none" /\ y.sie = z.sie
  <2> HIDE DEF z
  <2> QED
    BY <1>7, <1>8 DEF HartType, Traps, Served
<1>10. ticks \in 0..(UINT - 1) /\ ticks' \in 0..(UINT - 1)
  <2>1. ticks \in 0..(UINT - 1)
    BY DEF Inv, Typed
  <2> QED
    BY <1>6, <2>1, Sizes
<1>11. ASSUME NEW g \in Harts
       PROVE  /\ proc'[g] \in ProcType /\ Alike(proc'[g], proc[g])
              /\ Clocked(proc'[g], ticks') /\ Reason(proc'[g], cons')
  <2> DEFINE p == proc[g]
             q == proc'[g]
  <2>1. p \in ProcType /\ Clocked(p, ticks) /\ Reason(p, cons) /\ p.since \in Nat /\ p.since < UINT - 1
    <3>1. p \in ProcType /\ Clocked(p, ticks) /\ Reason(p, cons)
      BY HartIs
    <3> QED
      BY <1>2, <1>3, <3>1, ProcFields DEF Inv, NextTick
  <2>2. older[g] = IF Dozing(p) THEN [p EXCEPT !.since = p.since + 1] ELSE p
    BY DEF Napping, Dozing
  <2>3. q = IF older[g].state = "asleep" /\ older[g].chan = "ticks"
            THEN [older[g] EXCEPT !.state = "woken"] ELSE older[g]
    BY <1>6 DEF wakeup
  <2> DEFINE o == older[g]
  <2> HIDE DEF p, q, o, older
  <2>4. /\ o \in ProcType /\ o.pc = p.pc /\ o.state = p.state /\ o.chan = p.chan /\ o.intena = p.intena
        /\ o.got = p.got /\ o.t0 = p.t0 /\ o.n = p.n
        /\ (Dozing(p) => o.since = p.since + 1) /\ (~Dozing(p) => o.since = p.since)
    <3>1. p.since + 1 \in Nat
      BY <2>1
    <3>2. CASE Dozing(p)
      BY <2>1, <2>2, <3>1, <3>2 DEF ProcType, o
    <3>3. CASE ~Dozing(p)
      BY <2>1, <2>2, <3>3 DEF o
    <3> QED
      BY <3>2, <3>3
  <2>5. /\ q \in ProcType /\ q.pc = o.pc /\ (q.state = "run" <=> o.state = "run")
        /\ (q.state = "asleep" => o.state = "asleep" /\ o.chan # "ticks")
        /\ q.chan = o.chan /\ q.intena = o.intena
        /\ q.got = o.got /\ q.t0 = o.t0 /\ q.n = o.n /\ q.since = o.since
    <3>1. CASE o.state = "asleep" /\ o.chan = "ticks"
      BY <2>3, <2>4, <3>1 DEF ProcType, o
    <3>2. CASE ~(o.state = "asleep" /\ o.chan = "ticks")
      BY <2>3, <2>4, <3>2 DEF o
    <3> QED
      BY <3>1, <3>2
  <2>6. Alike(q, p)
    BY <2>4, <2>5 DEF Alike
  <2>7. Dozing(p) => q.since = (ticks' - q.t0) % UINT
    <3> SUFFICES ASSUME Dozing(p) PROVE q.since = (ticks' - q.t0) % UINT
      OBVIOUS
    <3>1. p.since = (ticks - p.t0) % UINT /\ p.t0 \in 0..(UINT - 1)
      BY <2>1, ProcFields DEF Clocked
    <3> DEFINE s == p.since
               f == p.t0
    <3>2. s = (ticks - f) % UINT /\ s < UINT - 1 /\ f \in 0..(UINT - 1)
      BY <2>1, <3>1
    <3> HIDE DEF s, f
    <3>3. (((ticks + 1) % UINT) - f) % UINT = s + 1
      BY <1>10, <3>2, TickGap, Sizes
    <3> QED
      BY <1>6, <2>4, <2>5, <3>3 DEF s, f
  <2>8. Clocked(q, ticks')
    <3>1. Dozing(q) <=> Dozing(p)
      BY <2>4, <2>5 DEF Dozing
    <3> QED
      BY <2>1, <2>4, <2>5, <2>7, <3>1 DEF Clocked
  <2>9. Reason(q, cons')
    BY <1>6, <2>1, <2>4, <2>5 DEF Reason
  <2> QED
    BY <2>5, <2>6, <2>8, <2>9 DEF p, q
<1>12. proc' \in [Harts -> ProcType]
  <2>1. proc' = [g \in Harts |-> proc'[g]]
    BY <1>6 DEF wakeup
  <2> QED
    BY <1>11, <2>1
<1>13. Rest
  BY <1>6 DEF Inv, Typed, Rest
<1>14. Frame(h) /\ LockMoves(h)
  BY <1>4, <1>6 DEF Frame, LockMoves, Locks
<1>15. PICK q \in ProcType : q = proc'[h] /\ Alike(q, proc[h])
  BY <1>11
<1>16. Balanced(y, q)
  <2> DEFINE p == proc[h]
  <2>1. Balanced(x, p) /\ Alike(q, p)
    BY <1>1, <1>15
  <2> HIDE DEF x, p, y, z
  <2> QED
    BY <1>2, <1>8, <1>9, <2>1 DEF Alike, Balanced, UsesCons, UsesTx, UsesTicks, UsesPr, Runs
<1>17. Holds(h, lock', y, q)
  <2> HIDE DEF x, y, z, older
  <2> QED
    BY <1>1, <1>4, <1>6, <1>9, Sizes DEF Holds, UsesCons, UsesTx, UsesTicks, UsesPr, Runs, Locks
<1>18. Claims(h, y, plic', sip') /\ Sending(y, q, uart')
  <2> HIDE DEF y, older
  <2> QED
    BY <1>3, <1>6, <1>9 DEF Claims, Served, Sending, Sends, Runs
<1>19. NextTick'
  BY <1>1, <1>3, <1>6, <1>9 DEF NextTick
<1> HIDE DEF x, y, z, older
<1> QED
  BY <1>6, <1>9, <1>10, <1>11, <1>12, <1>13, <1>14, <1>15, <1>16, <1>17, <1>18, <1>19, WakeStep

\* what a key does to the buffer, in the cases of consoleintr()
Stored(c) ==
  LET e == (cons.e + 1) % UINT
  IN  /\ c \in {"a", "nl", "^D"} /\ Room
      /\ cons'.buf = [cons.buf EXCEPT ![cons.e % INPUT_BUF] = c]
      /\ cons'.r = cons.r /\ cons'.e = e
      /\ cons'.w = IF c \in Ends \/ e = (cons.r + INPUT_BUF) % UINT THEN e ELSE cons.w

\* ... or to the end of the line
Shortened(k) ==
  /\ cons'.buf = cons.buf /\ cons'.r = cons.r /\ cons'.w = cons.w
  /\ cons'.e = (cons.e - k) % UINT

\* Edit() leaves cons alone, stores a character or shortens the line
LEMMA EditCases ==
  ASSUME cons \in ConsType, NEW c \in {"a", "nl", "^D", "^H", "^U"}, Edit(c)
  PROVE  /\ cons' \in ConsType /\ cons'.r = cons.r
         /\ \/ cons' = cons
            \/ Stored(c)
            \/ c = "^H" /\ cons.e # cons.w /\ Shortened(1)
            \/ c = "^U" /\ \E k \in Erased : (\A j \in Erased : j <= k) /\ Shortened(k)
<1> DEFINE e == (cons.e + 1) % UINT
           s == [cons EXCEPT !.buf[cons.e % INPUT_BUF] = c, !.e = e]
<1>0. /\ cons.buf \in [BufSlots -> Texts] /\ cons.r \in 0..(UINT - 1) /\ cons.w \in 0..(UINT - 1)
      /\ cons.e \in 0..(UINT - 1) /\ cons.e \in Int
  BY DEF ConsType
<1>1. CASE c = "^U"
  <2>1. PICK k \in Erased : (\A j \in Erased : j <= k) /\ cons' = [cons EXCEPT !.e = (cons.e - k) % UINT]
    BY <1>1 DEF Edit
  <2>2. k \in Int
    BY <1>0, Sizes DEF Erased
  <2>3. (cons.e - k) % UINT \in 0..(UINT - 1)
    BY <1>0, <2>2, Sizes
  <2> DEFINE f == (cons.e - k) % UINT
  <2> HIDE DEF f
  <2>4. f \in 0..(UINT - 1) /\ cons' = [cons EXCEPT !.e = f]
    BY <2>1, <2>3 DEF f
  <2>5. cons' \in ConsType /\ cons'.r = cons.r /\ cons'.buf = cons.buf /\ cons'.w = cons.w /\ cons'.e = f
    BY <2>4 DEF ConsType
  <2>6. Shortened(k)
    BY <2>5 DEF Shortened, f
  <2> QED
    BY <1>1, <2>1, <2>5, <2>6
<1>2. CASE c = "^H"
  <2> DEFINE f == (cons.e - 1) % UINT
  <2>1. f \in 0..(UINT - 1)
    <3>1. cons.e - 1 \in Int
      BY <1>0
    <3> QED
      BY <3>1, Sizes
  <2>2. cons' = [cons EXCEPT !.e = IF cons.e = cons.w THEN cons.e ELSE f]
    BY <1>2 DEF Edit
  <2> HIDE DEF f
  <2>3. CASE cons.e = cons.w
    <3>1. cons' = cons
      BY <2>2, <2>3 DEF ConsType
    <3> QED
      BY <3>1
  <2>4. CASE cons.e # cons.w
    <3>1. cons' \in ConsType /\ cons'.r = cons.r /\ cons'.buf = cons.buf /\ cons'.w = cons.w /\ cons'.e = f
      BY <2>1, <2>2, <2>4 DEF ConsType
    <3>2. Shortened(1)
      BY <3>1 DEF Shortened, f
    <3> QED
      BY <1>2, <2>4, <3>1, <3>2
  <2> QED
    BY <2>3, <2>4
<1>4. CASE c \in {"a", "nl", "^D"}
  <2>1. cons' = IF ~Room THEN cons
                ELSE IF c \in Ends \/ e = (cons.r + INPUT_BUF) % UINT THEN [s EXCEPT !.w = e] ELSE s
    BY <1>4 DEF Edit
  <2>2. e \in 0..(UINT - 1) /\ cons.e % INPUT_BUF \in BufSlots
    BY <1>0, Sizes
  <2> DEFINE i == cons.e % INPUT_BUF
             b == [cons.buf EXCEPT ![i] = c]
  <2>3. b \in [BufSlots -> Texts]
    BY <1>0, <1>4, <2>2 DEF Texts
  <2>4. s = [cons EXCEPT !.buf = b, !.e = e]
    BY DEF ConsType
  <2> HIDE DEF e, b, s, i
  <2>5. s \in ConsType /\ s.r = cons.r /\ s.w = cons.w /\ s.e = e /\ s.buf = b
    BY <2>2, <2>3, <2>4 DEF ConsType
  <2>6. CASE ~Room
    BY <2>1, <2>6
  <2>7. CASE Room /\ (c \in Ends \/ e = (cons.r + INPUT_BUF) % UINT)
    <3>1. cons' = [s EXCEPT !.w = e]
      BY <2>1, <2>7
    <3>2. cons' \in ConsType /\ cons'.r = cons.r /\ cons'.w = e /\ cons'.e = e /\ cons'.buf = b
      BY <2>2, <2>5, <3>1 DEF ConsType
    <3>3. Stored(c)
      BY <1>4, <2>7, <3>2 DEF Stored, e, b, i
    <3> QED
      BY <3>2, <3>3
  <2>8. CASE Room /\ ~(c \in Ends \/ e = (cons.r + INPUT_BUF) % UINT)
    <3>1. cons' = s
      BY <2>1, <2>8
    <3>2. Stored(c)
      BY <1>4, <2>5, <2>8, <3>1 DEF Stored, e, b, i
    <3> QED
      BY <2>5, <3>1, <3>2
  <2> QED
    BY <2>6, <2>7, <2>8
<1> QED
  BY <1>1, <1>2, <1>4

\* consoleintr()
LEMMA IntrStep ==
  ASSUME Inv, NEW h \in Harts, consoleintr(h)
  PROVE  /\ Inv' /\ Slept
         /\ \E c \in {"a", "nl", "^D", "^H", "^U"} : Edit(c)
<1> DEFINE x == hart[h]
           c == IF x.c = "cr" THEN "nl" ELSE x.c
           w == [x EXCEPT !.echo = Echo, !.c = "none"]
           y == [w EXCEPT !.trap = "echo"]
           woken == IF cons'.w # cons.w THEN wakeup(proc, "cons") ELSE proc
<1>1. /\ x \in HartType /\ proc[h] \in ProcType /\ Balanced(x, proc[h]) /\ Holds(h, lock, x, proc[h])
      /\ Claims(h, x, plic, sip) /\ hart \in [Harts -> HartType] /\ proc \in [Harts -> ProcType]
  BY HartIs
<1>2. x.trap = "char" /\ x.want = "none"
  BY AtHandler DEF consoleintr
<1>3. c \in {"a", "nl", "^D", "^H", "^U"}
  <2>1. x.c # "^P"
    BY DEF consoleintr
  <2> QED
    BY <1>1, <1>2, <2>1, HartFields DEF Balanced, Keys
<1>4. Edit(c) /\ Go(h, w, "echo", woken) /\ UNCHANGED <<work, tx, lock, ticks, uart, plic, sip, panicked>>
  BY DEF consoleintr
<1>5. cons \in ConsType
  BY DEF Inv, Typed, ConsType
<1>6. cons' \in ConsType /\ cons'.r = cons.r
  <2> HIDE DEF c
  <2> QED
    BY <1>3, <1>4, <1>5, EditCases
<1>7. Echo \in {0, 1}
  BY DEF Echo
<1>8. /\ hart' = [hart EXCEPT ![h] = y] /\ proc' = woken
  <2> HIDE DEF w, woken
  <2> QED
    BY <1>2, <1>4 DEF Go
<1>9. /\ y \in HartType /\ y.trap = "echo" /\ y.noff = x.noff /\ y.want = "none"
      /\ y.intena = x.intena /\ y.sie = x.sie
  <2> DEFINE n == Echo
  <2> HIDE DEF n
  <2>1. n \in {0, 1} /\ y = [[x EXCEPT !.echo = n, !.c = "none"] EXCEPT !.trap = "echo"]
    BY <1>7 DEF n
  <2> HIDE DEF y
  <2> QED
    BY <1>1, <1>2, <2>1 DEF HartType, Traps, Served
<1>10. ASSUME NEW g \in Harts
       PROVE  /\ proc'[g] \in ProcType /\ Alike(proc'[g], proc[g])
              /\ Clocked(proc'[g], ticks') /\ Reason(proc'[g], cons') /\ proc'[g].since = proc[g].since
  <2> DEFINE p == proc[g]
             q == proc'[g]
  <2>1. p \in ProcType /\ Clocked(p, ticks) /\ Reason(p, cons)
    BY HartIs
  <2>2. CASE cons'.w # cons.w
    <3>1. q = IF p.state = "asleep" /\ p.chan = "cons" THEN [p EXCEPT !.state = "woken"] ELSE p
      BY <1>8, <2>2 DEF wakeup
    <3> HIDE DEF p, q
    <3>2. /\ q \in ProcType /\ q.pc = p.pc /\ (q.state = "run" <=> p.state = "run")
          /\ (q.state = "asleep" => p.state = "asleep" /\ p.chan # "cons")
          /\ q.chan = p.chan /\ q.intena = p.intena
          /\ q.got = p.got /\ q.t0 = p.t0 /\ q.n = p.n /\ q.since = p.since
      <4>1. CASE p.state = "asleep" /\ p.chan = "cons"
        BY <2>1, <3>1, <4>1 DEF ProcType
      <4>2. CASE ~(p.state = "asleep" /\ p.chan = "cons")
        BY <2>1, <3>1, <4>2
      <4> QED
        BY <4>1, <4>2
    <3>3. Alike(q, p) /\ Clocked(q, ticks) /\ Reason(q, cons')
      BY <2>1, <3>2 DEF Alike, Clocked, Dozing, Reason
    <3> QED
      BY <1>4, <3>2, <3>3 DEF p, q
  <2>3. CASE cons'.w = cons.w
    <3>1. q = p
      BY <1>8, <2>3
    <3> HIDE DEF p, q
    <3>2. Alike(q, p) /\ Clocked(q, ticks) /\ Reason(q, cons')
      BY <1>6, <2>1, <2>3, <3>1 DEF Alike, Reason
    <3> QED
      BY <1>4, <2>1, <3>1, <3>2 DEF p, q
  <2> QED
    BY <2>2, <2>3
<1>11. proc' \in [Harts -> ProcType]
  <2>1. proc' = [g \in Harts |-> proc'[g]]
    <3>1. CASE cons'.w # cons.w
      BY <1>8, <3>1 DEF wakeup
    <3>2. CASE cons'.w = cons.w
      BY <1>1, <1>8, <3>2
    <3> QED
      BY <3>1, <3>2
  <2> QED
    BY <1>10, <2>1
<1>12. Rest /\ ticks' \in 0..(UINT - 1)
  BY <1>4, <1>6 DEF Inv, Typed, Rest, ConsType
<1>13. Frame(h) /\ LockMoves(h)
  BY <1>4 DEF Frame, LockMoves
<1>14. PICK q \in ProcType : q = proc'[h] /\ Alike(q, proc[h])
  BY <1>10
<1> HIDE DEF x, c, w, y, woken
<1>15. Balanced(y, q) /\ Holds(h, lock', y, q)
  <2> DEFINE p == proc[h]
  <2>1. Balanced(x, p) /\ Holds(h, lock', x, p) /\ Alike(q, p)
    BY <1>1, <1>4, <1>14
  <2> HIDE DEF p
  <2> QED
    BY <1>2, <1>9, <2>1 DEF Alike, Balanced, Holds, UsesCons, UsesTx, UsesTicks, UsesPr, Runs
<1>16. Claims(h, y, plic', sip') /\ Sending(y, q, uart')
  BY <1>1, <1>2, <1>4, <1>9 DEF Claims, Served, Sending, Sends, Runs
<1>17. NextTick'
  <2>1. hart'[1].trap # "sip" => hart[1].trap # "sip"
    BY <1>1, <1>2, <1>8, Sizes DEF x
  <2> QED
    BY <1>4, <1>10, <2>1 DEF NextTick, Inv
<1>18. Inv' /\ Slept
  BY <1>8, <1>9, <1>10, <1>11, <1>12, <1>13, <1>14, <1>15, <1>16, <1>17, WakeStep
<1> QED
  BY <1>3, <1>4, <1>18

-----------------------------------------------------------------------------
(***************************************************************************)
(* The remaining calls, the devices, and the invariant.                    *)
(***************************************************************************)
\* an empty THR holds at most one character
LEMMA Emptied == \A a : a = 0 => a <= 1
OBVIOUS

\* a step of a device, or a panic: the harts and their processes stay where they are
LEMMA OutsideStep ==
  ASSUME Inv, UNCHANGED <<work, cons, tx, lock, ticks, hart, proc>>,
         uart' \in UartType, (uart'.thr = uart.thr /\ uart'.pr = uart.pr) \/ uart'.thr = 0,
         plic' \in [pending : BOOLEAN, claimed : Harts \cup {0}], plic'.claimed = plic.claimed,
         sip' \in BOOLEAN, sip => sip',
         sip' => sip \/ \A h \in Harts : proc[h].since < UINT - 1,
         panicked' \in {"none", "sched locks"}
  PROVE  Inv' /\ Slept
<1>1. Typed'
  BY DEF Inv, Typed
<1>2. uart'.thr <= 1 \/ uart'.pr
  <2>1. uart.thr <= 1 \/ uart.pr
    BY DEF Inv
  <2>2. CASE uart'.thr = uart.thr /\ uart'.pr = uart.pr
    BY <2>1, <2>2
  <2>3. CASE uart'.thr = 0
    BY <2>3, Emptied, Zenon
  <2> QED
    BY <2>2, <2>3
<1>3. ASSUME NEW h \in Harts PROVE HartInv(h, hart[h], proc[h])'
  <2>1. /\ Balanced(hart[h], proc[h]) /\ Holds(h, lock, hart[h], proc[h])
        /\ Claims(h, hart[h], plic, sip) /\ Sending(hart[h], proc[h], uart)
        /\ Clocked(proc[h], ticks) /\ Reason(proc[h], cons)
    BY HartIs
  <2>2. Claims(h, hart[h], plic', sip') /\ Sending(hart[h], proc[h], uart')
    BY <2>1 DEF Claims, Sending
  <2> QED
    BY <2>1, <2>2 DEF HartInv
<1>4. NextTick'
  BY DEF Inv, NextTick
<1>5. Slept
  BY DEF Slept, Dozing
<1> QED
  BY <1>1, <1>2, <1>3, <1>4, <1>5 DEF Inv

\* a key is pressed, a character has been sent, time passes
LEMMA DeviceStep ==
  ASSUME Inv, receive \/ transmit \/ timer
  PROVE  Inv' /\ Slept
<1>1. /\ uart \in UartType
      /\ plic \in [pending : BOOLEAN, claimed : Harts \cup {0}] /\ sip \in BOOLEAN
      /\ panicked \in {"none", "sched locks"} /\ work \in Workloads
  BY DEF Inv, Typed
<1>2. CASE receive
  <2>1. PICK c \in work.keys \ {"kill"} : uart' = [uart EXCEPT !.rx = c]
    BY <1>2 DEF receive
  <2>2. c \in Keys
    BY <1>1, ConsoleAssumption DEF Keys
  <2>3. uart' \in UartType /\ uart'.thr = uart.thr /\ uart'.pr = uart.pr
    BY <1>1, <2>1, <2>2 DEF UartType
  <2>4. plic' \in [pending : BOOLEAN, claimed : Harts \cup {0}] /\ plic'.claimed = plic.claimed
    BY <1>1, <1>2 DEF receive
  <2>5. UNCHANGED <<work, cons, tx, lock, ticks, hart, proc>> /\ sip' = sip /\ panicked' = panicked
    BY <1>2 DEF receive
  <2> QED
    BY <1>1, <2>3, <2>4, <2>5, OutsideStep
<1>3. CASE transmit
  <2>3. uart' \in UartType /\ uart'.thr = 0
    BY <1>1, <1>3 DEF transmit, UartType
  <2>4. plic' \in [pending : BOOLEAN, claimed : Harts \cup {0}] /\ plic'.claimed = plic.claimed
    BY <1>1, <1>3 DEF transmit
  <2>5. UNCHANGED <<work, cons, tx, lock, ticks, hart, proc>> /\ sip' = sip /\ panicked' = panicked
    BY <1>3 DEF transmit
  <2> QED
    BY <1>1, <2>3, <2>4, <2>5, OutsideStep
<1>4. CASE timer
  <2>1. /\ sip' = TRUE /\ \A h \in Harts : proc[h].since < UINT - 1
    BY <1>4 DEF timer
  <2>2. UNCHANGED <<work, cons, tx, lock, ticks, hart, proc>> /\ uart' = uart /\ plic' = plic
          /\ panicked' = panicked
    BY <1>4 DEF timer
  <2>3. /\ uart' \in UartType /\ uart'.thr = uart.thr /\ uart'.pr = uart.pr
        /\ plic' \in [pending : BOOLEAN, claimed : Harts \cup {0}] /\ plic'.claimed = plic.claimed
    BY <1>1, <2>2
  <2>4. panicked' \in {"none", "sched locks"} /\ sip' \in BOOLEAN /\ (sip => sip')
    BY <1>1, <2>1, <2>2
  <2> QED
    BY <2>1, <2>2, <2>3, <2>4, OutsideStep
<1> QED
  BY <1>2, <1>3, <1>4

\* uartputc() on a full buffer, with cons.lock and uart_tx_lock held: sched() panics
LEMMA FullStep ==
  ASSUME Inv, NEW h \in Harts, put_wait(h)
  PROVE  Inv' /\ Slept
<1> DEFINE x == hart[h]
           p == proc[h]
<1>1. Balanced(x, p)
  BY HartIs
<1>2. x.trap = "none" /\ p.pc = "put" /\ p.state = "run"
  BY AtCall DEF put_wait
<1>3. x.noff # 1
  <2> HIDE DEF x, p
  <2>1. UsesCons(x, p) /\ UsesTx(x, p)
    BY <1>2 DEF UsesCons, UsesTx, Runs
  <2>2. x.noff = 2
    BY <1>1, <2>1 DEF Balanced
  <2> QED
    BY <2>2
<1>4. Panic("sched locks")
  BY <1>3 DEF put_wait, sleep
<1>5. /\ uart' \in UartType /\ uart'.thr = uart.thr /\ uart'.pr = uart.pr
      /\ plic' \in [pending : BOOLEAN, claimed : Harts \cup {0}] /\ plic'.claimed = plic.claimed
      /\ sip' \in BOOLEAN /\ sip' = sip /\ panicked' \in {"none", "sched locks"}
      /\ UNCHANGED <<work, cons, tx, lock, ticks, hart, proc>>
  BY <1>4 DEF Panic, Inv, Typed
<1> QED
  BY <1>5, OutsideStep

\* a stuttering step
LEMMA SameStep ==
  ASSUME Inv, UNCHANGED vars
  PROVE  Inv' /\ Slept
<1>1. /\ uart' \in UartType /\ uart'.thr = uart.thr /\ uart'.pr = uart.pr
      /\ plic' \in [pending : BOOLEAN, claimed : Harts \cup {0}] /\ plic'.claimed = plic.claimed
      /\ sip' \in BOOLEAN /\ sip' = sip /\ panicked' \in {"none", "sched locks"}
      /\ UNCHANGED <<work, cons, tx, lock, ticks, hart, proc>>
  BY DEF vars, Inv, Typed
<1> QED
  BY <1>1, OutsideStep

\* a system call begins
LEMMA SyscallStep ==
  ASSUME Inv, NEW h \in Harts, syscall(h)
  PROVE  Inv' /\ Slept
<1>1. At(h, "user") /\ work \in Workloads
  BY DEF syscall, Inv, Typed
<1>2. ASSUME NEW n \in work.lens, NEW l \in {"read", "write"}, Enter(h, "cons", l, n)
      PROVE  Inv' /\ Slept
  <2>1. n \in Nat
    BY <1>1, ConsoleAssumption
  <2> QED
    BY <1>1, <1>2, <2>1, EnterStep
<1>3. ASSUME NEW n \in Naps, Enter(h, "ticks", "sleep", n % UINT)
      PROVE  Inv' /\ Slept
  <2>1. n % UINT \in Nat
    BY ConsoleAssumption, Sizes
  <2> QED
    BY <1>1, <1>3, <2>1, EnterStep
<1>4. ASSUME Enter(h, "pr", "printf", 0) PROVE Inv' /\ Slept
  BY <1>1, <1>4, EnterStep
<1> QED
  BY <1>2, <1>3, <1>4 DEF syscall

\* consoleread() with no input, and at the end of the buffer; the end of consolewrite()
LEMMA EndStep ==
  ASSUME Inv, NEW h \in Harts, read_wait(h) \/ read_end(h) \/ write_end(h)
  PROVE  (Inv' /\ Slept) /\ cons' = cons
<1>1. cons \in ConsType
  BY DEF Inv, Typed, ConsType
<1>2. ASSUME NEW l \in {"read", "write"}, At(h, l), Return(h, "cons")
      PROVE  (Inv' /\ Slept) /\ cons' = cons
  <2>1. /\ cons' = cons /\ release(h, "cons", "user", User(h))
        /\ UNCHANGED <<work, tx, ticks, uart, plic, sip>>
    BY <1>2 DEF Return
  <2>2. /\ hart[h].want = "none" /\ hart[h].trap = "none" /\ proc[h].pc = l /\ proc[h].state = "run"
        /\ ~Dozing(proc[h])
    BY <1>2, AtCall DEF Dozing
  <2>3. uart' \in UartType /\ (uart'.thr <= 1 \/ uart'.pr) /\ uart'.thr = uart.thr /\ uart'.pr = uart.pr
    BY <2>1 DEF Inv, Typed
  <2> QED
    BY <1>1, <2>1, <2>2, <2>3, ReturnStep
<1>3. ASSUME At(h, "read"), cons.r = cons.w, sleep(h, "cons")
      PROVE  (Inv' /\ Slept) /\ cons' = cons
  <2>1. Inv' /\ Slept
    BY <1>3, SleepStep
  <2>2. cons' = cons
    BY <1>3 DEF sleep, Panic
  <2> QED
    BY <2>1, <2>2
<1> QED
  BY <1>2, <1>3 DEF read_wait, read_end, write_end

\* sys_sleep(): another look at ticks
LEMMA NapStep ==
  ASSUME Inv, NEW h \in Harts, sys_sleep(h)
  PROVE  (Inv' /\ Slept) /\ cons' = cons
<1>1. cons \in ConsType
  BY DEF Inv, Typed, ConsType
<1>2. At(h, "sleep") /\ proc[h].got = 1 /\ proc[h].pc = "sleep"
  BY AtCall DEF sys_sleep
<1>3. proc[h].since = (ticks - proc[h].t0) % UINT
  BY <1>2, HartIs DEF Clocked, Dozing
<1>4. CASE Early(h) /\ ~proc[h].killed
  <2>1. sleep(h, "ticks") /\ proc[h].since < proc[h].n
    BY <1>3, <1>4 DEF sys_sleep, Early
  <2>2. Inv' /\ Slept
    BY <1>2, <2>1, SleepStep
  <2>3. cons' = cons
    BY <2>1 DEF sleep, Panic
  <2> QED
    BY <2>2, <2>3
<1>5. CASE ~(Early(h) /\ ~proc[h].killed)
  <2>1. /\ cons' = cons /\ release(h, "ticks", "user", User(h))
        /\ UNCHANGED <<work, tx, ticks, uart, plic, sip>>
    BY <1>5 DEF sys_sleep, Return
  <2>2. ~proc[h].killed => proc[h].since >= proc[h].n
    <3> DEFINE s == (ticks - proc[h].t0) % UINT
    <3>1. ticks \in Int /\ proc[h].t0 \in Int
      <4>1. ticks \in 0..(UINT - 1)
        BY DEF Inv, Typed
      <4>2. proc[h].t0 \in 0..(UINT - 1)
        BY HartIs, ProcFields
      <4> QED
        BY <4>1, <4>2
    <3>2. s \in Int /\ proc[h].n \in Nat
      BY <3>1, Sizes, HartIs, ProcFields
    <3>3. ~proc[h].killed => ~(s < proc[h].n)
      BY <1>5 DEF Early
    <3> HIDE DEF s
    <3>4. ~proc[h].killed => s >= proc[h].n
      BY <3>2, <3>3
    <3> QED
      BY <1>3, <3>4 DEF s
  <2>3. /\ hart[h].want = "none" /\ hart[h].trap = "none" /\ proc[h].pc = "sleep"
        /\ proc[h].state = "run"
    BY <1>2, AtCall
  <2>4. uart' \in UartType /\ (uart'.thr <= 1 \/ uart'.pr) /\ uart'.thr = uart.thr /\ uart'.pr = uart.pr
    BY <2>1 DEF Inv, Typed
  <2> QED
    BY <1>1, <2>1, <2>2, <2>3, <2>4, ReturnStep
<1> QED
  BY <1>4, <1>5

\* consoleread() takes characters
LEMMA TakeStep ==
  ASSUME Inv, NEW h \in Harts, consoleread(h)
  PROVE  Inv' /\ Slept
<1> DEFINE x == hart[h]
           p == proc[h]
<1>1. /\ x \in HartType /\ p \in ProcType /\ Balanced(x, p) /\ Holds(h, lock, x, p)
      /\ Claims(h, x, plic, sip) /\ Sending(x, p, uart) /\ Clocked(p, ticks)
      /\ hart \in [Harts -> HartType] /\ proc \in [Harts -> ProcType]
  BY HartIs
<1>2. x.want = "none" /\ x.trap = "none" /\ p.pc = "read" /\ p.state = "run" /\ At(h, "read")
  BY AtCall DEF consoleread
<1>3. cons \in ConsType /\ cons.r # cons.w /\ UNCHANGED <<work, tx, ticks, uart, plic, sip>>
  BY DEF Inv, Typed, ConsType, consoleread
<1>4. PICK k \in 1..p.n :
        /\ \E d \in {0, 1} : cons' = [cons EXCEPT !.r = (cons.r + k - d) % UINT]
        /\ \/ /\ proc' = [proc EXCEPT ![h].n = @ - k, ![h].got = @ + k] /\ k < p.n
              /\ UNCHANGED <<lock, hart, panicked>>
           \/ release(h, "cons", "user", User(h))
  BY DEF consoleread
<1>5. cons' \in ConsType
  <2>1. PICK d \in {0, 1} : cons' = [cons EXCEPT !.r = (cons.r + k - d) % UINT]
    BY <1>4
  <2>2. cons.r + k - d \in Int
    BY <1>1, <1>3, ProcFields DEF ConsType
  <2>3. (cons.r + k - d) % UINT \in 0..(UINT - 1)
    BY <2>2, Sizes
  <2> QED
    BY <1>3, <2>1, <2>3 DEF ConsType
<1>6. CASE release(h, "cons", "user", User(h))
  <2>1. ~Dozing(proc[h])
    BY <1>2 DEF Dozing
  <2>2. uart' \in UartType /\ (uart'.thr <= 1 \/ uart'.pr) /\ uart'.thr = uart.thr /\ uart'.pr = uart.pr
    BY <1>3 DEF Inv, Typed
  <2> QED
    BY <1>2, <1>3, <1>5, <1>6, <2>1, <2>2, ReturnStep
<1>7. CASE /\ proc' = [proc EXCEPT ![h].n = @ - k, ![h].got = @ + k] /\ k < p.n
           /\ UNCHANGED <<lock, hart, panicked>>
  <2> DEFINE q == [p EXCEPT !.n = p.n - k, !.got = p.got + k]
  <2>1. p.n - k \in Nat /\ p.got + k \in Nat
    BY <1>1, <1>7, ProcFields
  <2>2. q \in ProcType /\ q.pc = "read" /\ q.state = "run" /\ q.since = p.since /\ p.since \in Nat
    BY <1>1, <1>2, <2>1 DEF ProcType
  <2>3. hart' = [hart EXCEPT ![h] = x] /\ proc' = [proc EXCEPT ![h] = q] /\ LockMoves(h) /\ lock' = lock
    BY <1>1, <1>7 DEF LockMoves
  <2>4. UNCHANGED <<work, ticks, uart, plic, sip, panicked>> /\ tx' \in [r : Slots, w : Slots]
    BY <1>3, <1>7 DEF Inv, Typed
  <2> HIDE DEF x, p, q
  <2>5. Balanced(x, q) /\ Holds(h, lock', x, q)
    BY <1>1, <1>2, <2>2, <2>3 DEF Balanced, Holds, UsesCons, UsesTx, UsesTicks, UsesPr, Runs
  <2>6. Sending(x, q, uart) /\ Reason(q, cons')
    BY <1>2, <2>2 DEF Sending, Sends, Runs, Reason
  <2>7. Clocked(q, ticks) /\ q.since <= p.since
    BY <1>1, <1>2, <2>2 DEF Clocked, Dozing
  <2>8. ~Dozing(p)
    BY <1>2 DEF Dozing
  <2> QED
    BY <1>1, <1>3, <1>5, <2>2, <2>3, <2>4, <2>5, <2>6, <2>7, <2>8, ReadStep DEF x, p
<1> QED
  BY <1>4, <1>6, <1>7

\* the initial states
LEMMA InitInv == Init => Inv
<1> SUFFICES ASSUME Init PROVE Inv
  OBVIOUS
<1> DEFINE x == [noff |-> 0, intena |-> FALSE, sie |-> TRUE, want |-> "none", trap |-> "none", c |-> "none", echo |-> 0]
           q == InUser
<1>1. /\ hart = [h \in Harts |-> x] /\ proc = [h \in Harts |-> q]
      /\ lock = [k \in Locks |-> 0] /\ uart = [rx |-> "none", thr |-> 0, pr |-> FALSE]
      /\ cons = [buf |-> [i \in BufSlots |-> "none"], r |-> 0, w |-> 0, e |-> 0]
      /\ tx = [r |-> 0, w |-> 0] /\ ticks = UINT - 1
      /\ plic = [pending |-> FALSE, claimed |-> 0] /\ sip = FALSE /\ panicked = "none" /\ work \in Workloads
  BY DEF Init, Locks
<1>2. x \in HartType /\ x.noff = 0 /\ x.sie /\ x.want = "none" /\ x.trap = "none"
  BY DEF HartType, Traps
<1>3. /\ q \in ProcType /\ q.pc = "user" /\ q.state = "run" /\ q.got = 0 /\ q.since = 0
  BY Sizes DEF ProcType, InUser, PCs
<1> HIDE DEF x, q
<1>4. Typed
  <2>1. 0 \in 0..(UINT - 1) /\ UINT - 1 \in 0..(UINT - 1) /\ 0 \in Slots
    BY Sizes DEF Slots
  <2>2. cons \in [buf : [BufSlots -> Texts], r : 0..(UINT - 1), w : 0..(UINT - 1), e : 0..(UINT - 1)]
    BY <1>1, <2>1 DEF Texts
  <2>3. /\ tx \in [r : Slots, w : Slots] /\ lock \in [Locks -> Harts \cup {0}]
        /\ hart \in [Harts -> HartType] /\ proc \in [Harts -> ProcType]
    BY <1>1, <1>2, <1>3, <2>1
  <2>4. /\ uart \in UartType
        /\ plic \in [pending : BOOLEAN, claimed : Harts \cup {0}]
    BY <1>1 DEF UartType
  <2> QED
    BY <1>1, <2>1, <2>2, <2>3, <2>4 DEF Typed
<1>5. ASSUME NEW h \in Harts PROVE HartInv(h, x, q)
  <2>1. Balanced(x, q)
    BY <1>2, <1>3 DEF Balanced, UsesCons, UsesTx, UsesTicks, UsesPr, Runs
  <2>2. Holds(h, lock, x, q)
    BY <1>1, <1>2, <1>3, Sizes DEF Holds, Locks, UsesCons, UsesTx, UsesTicks, UsesPr, Runs
  <2>3. Claims(h, x, plic, sip) /\ Sending(x, q, uart) /\ Clocked(q, ticks) /\ Reason(q, cons)
    BY <1>2, <1>3 DEF Claims, Served, Sending, Sends, Runs, Clocked, Dozing, Reason
  <2> QED
    BY <2>1, <2>2, <2>3 DEF HartInv
<1>6. \A h \in Harts : HartInv(h, hart[h], proc[h])
  BY <1>1, <1>5
<1>7. uart.thr <= 1 /\ NextTick
  BY <1>1 DEF NextTick
<1> QED
  BY <1>4, <1>6, <1>7 DEF Inv

\* every step keeps the invariant and lets nobody return early from sleep()
LEMMA NextInv == Inv /\ [Next]_vars => Inv' /\ Slept
<1> SUFFICES ASSUME Inv, [Next]_vars PROVE Inv' /\ Slept
  OBVIOUS
<1>1. ASSUME NEW h \in Harts, Calls(h) PROVE Inv' /\ Slept
  <2>1. CASE read_wait(h) \/ read_end(h) \/ write_end(h)
    BY <2>1, EndStep
  <2>2. CASE consoleread(h)
    BY <2>2, TakeStep
  <2>3. CASE consolewrite(h)
    BY <2>3, PutStep
  <2>4. CASE put_wait(h)
    BY <2>4, FullStep
  <2>5. CASE uartputc(h)
    BY <2>5, RingStep
  <2>6. CASE sleep_begin(h)
    BY <2>6, BeginStep
  <2>7. CASE sys_sleep(h)
    BY <2>7, NapStep
  <2>8. CASE resume(h)
    BY <2>8, ResumeStep
  <2> QED
    BY <1>1, <2>1, <2>2, <2>3, <2>4, <2>5, <2>6, <2>7, <2>8 DEF Calls
<1>2. ASSUME NEW h \in Harts, Handlers(h) PROVE Inv' /\ Slept
  <2>1. CASE plic_claim(h)
    BY <2>1, ClaimStep
  <2>2. CASE uartgetc(h)
    BY <2>2, GetcStep
  <2>3. CASE consoleintr(h)
    BY <2>3, IntrStep
  <2>4. CASE uartputc_sync(h)
    BY <2>4, SyncStep
  <2>5. CASE sync_thr(h)
    BY <2>5, EchoStep
  <2>6. CASE consoleintr_end(h)
    BY <2>6, IntrEndStep
  <2>7. CASE plic_complete(h)
    BY <2>7, CompleteStep
  <2>8. CASE clockintr(h)
    BY <2>8, TickStep
  <2>9. CASE w_sip(h)
    BY <2>9, SipStep
  <2>10. CASE procdump(h)
    BY <2>10, DumpStep
  <2> QED
    BY <1>2, <2>1, <2>2, <2>3, <2>4, <2>5, <2>6, <2>7, <2>8, <2>9, <2>10 DEF Handlers
<1>3. ASSUME NEW h \in Harts, Steps(h) PROVE Inv' /\ Slept
  <2>1. CASE spin(h)
    BY <2>1, SpinStep
  <2>2. CASE uartstart(h)
    BY <2>2, RingStep
  <2>3. CASE uartstart_thr(h)
    BY <2>3, ThrStep
  <2>4. CASE uartstart_end(h)
    BY <2>4, StartEndStep
  <2>5. CASE Handlers(h)
    BY <2>5, <1>2
  <2>6. CASE printf(h)
    BY <2>6, PrintfStep
  <2>7. CASE printf_end(h)
    BY <2>7, PrintedStep
  <2> QED
    BY <1>3, <2>1, <2>2, <2>3, <2>4, <2>5, <2>6, <2>7 DEF Steps
<1>4. ASSUME NEW h \in Harts, syscall(h) PROVE Inv' /\ Slept
  BY <1>4, SyscallStep
<1>5. ASSUME NEW h \in Harts, devintr(h) PROVE Inv' /\ Slept
  BY <1>5, DevintrStep
<1>6. ASSUME NEW h \in Harts, softintr(h) PROVE Inv' /\ Slept
  BY <1>6, SoftintrStep
<1>7. ASSUME NEW h \in Harts, kill(h) PROVE Inv' /\ Slept
  BY <1>7, KillStep
<1>8. CASE receive \/ transmit \/ timer
  BY <1>8, DeviceStep
<1>9. CASE Halted \/ UNCHANGED vars
  <2>1. UNCHANGED vars
    BY <1>9 DEF Halted
  <2> QED
    BY <2>1, SameStep
<1> QED
  BY <1>1, <1>3, <1>4, <1>5, <1>6, <1>7, <1>8, <1>9 DEF Next

\* the locks a hart holds, counted
LEMMA Counted ==
  ASSUME Inv, NEW h \in Harts
  PROVE  hart[h].noff = Cardinality({k \in DOMAIN lock : lock[k] = h})
                          + (IF hart[h].want = "none" THEN 0 ELSE 1)
<1> DEFINE x == hart[h]
           p == proc[h]
           S == {k \in DOMAIN lock : lock[k] = h}
           w == IF x.want = "none" THEN 0 ELSE 1
<1>1. x \in HartType /\ p \in ProcType /\ Balanced(x, p) /\ Holds(h, lock, x, p)
  BY HartIs
<1>2. DOMAIN lock = Locks
  BY HartIs
<1>3. S = {k \in Locks : lock[k] = h}
  BY <1>2
<1>4. /\ Cardinality({}) = 0
      /\ \A a : Cardinality({a}) = 1
      /\ \A a : a # "cons" => Cardinality({"cons", a}) = 2
  <2>1. Cardinality({}) = 0 /\ IsFiniteSet({})
    BY FS_EmptySet
  <2>2. \A a : Cardinality({a}) = 1 /\ IsFiniteSet({a})
    BY FS_Singleton
  <2>6. ASSUME NEW a, a # "cons" PROVE Cardinality({"cons", a}) = 2
    <3>1. Cardinality({"cons"} \cup {a}) = Cardinality({"cons"}) + 1
      BY <2>2, <2>6, FS_AddElement
    <3>2. {"cons"} \cup {a} = {"cons", a}
      OBVIOUS
    <3>3. Cardinality({"cons"}) = 1
      BY <2>2
    <3> QED
      BY <3>1, <3>2, <3>3
  <2> QED
    BY <2>1, <2>2, <2>6
<1>5. x.want \in Locks \cup {"none"} /\ x.noff \in {0, 1, 2} /\ x.trap \in Traps
  BY <1>1, HartFields
<1> HIDE DEF x, p
<1>6. ASSUME NEW l \in {"tx", "pr"}, UsesCons(x, p), l = "tx" <=> UsesTx(x, p), l = "pr" <=> UsesPr(x, p)
      PROVE  x.noff = Cardinality(S) + w
  <2>1. x.noff = 2 /\ ~UsesTicks(x, p)
    BY <1>1, <1>6 DEF Balanced, UsesCons, UsesTx, UsesTicks, UsesPr, Runs
  <2>2. x.want \in {"none", l}
    BY <1>1, <1>5, <1>6, <2>1 DEF Balanced, Locks, UsesCons, UsesTx, UsesPr, Runs
  <2>3. CASE x.want = "none"
    <3>1. S = {"cons", l}
      BY <1>1, <1>3, <1>6, <2>1, <2>3 DEF Holds, Locks
    <3>2. Cardinality(S) = 2 /\ w = 0
      BY <1>4, <2>3, <3>1
    <3> QED
      BY <2>1, <3>2
  <2>4. CASE x.want = l
    <3>1. S = {"cons"}
      BY <1>1, <1>3, <1>6, <2>1, <2>4 DEF Holds, Locks
    <3>2. w = 1
      BY <2>4
    <3>3. Cardinality(S) = 1
      BY <1>4, <3>1
    <3> QED
      BY <2>1, <3>2, <3>3
  <2> QED
    BY <2>2, <2>3, <2>4
<1>7. CASE ~UsesCons(x, p) /\ ~UsesTx(x, p) /\ ~UsesTicks(x, p) /\ ~UsesPr(x, p)
  <2>1. x.noff = 0
    BY <1>1, <1>7 DEF Balanced
  <2>2. x.want = "none"
    BY <1>1, <1>5, <1>7 DEF Balanced, Locks, UsesCons, UsesTx, UsesPr, Runs
  <2>3. S = {}
    BY <1>1, <1>3, <1>7 DEF Holds, Locks
  <2> QED
    BY <1>4, <2>1, <2>2, <2>3 DEF x
<1>8. ASSUME NEW l \in Locks,
             l = "cons" <=> UsesCons(x, p), l = "tx" <=> UsesTx(x, p), l = "ticks" <=> UsesTicks(x, p),
             l = "pr" <=> UsesPr(x, p)
      PROVE  x.noff = Cardinality(S) + w
  <2>1. x.noff = 1
    BY <1>1, <1>5, <1>8 DEF Balanced, Locks
  <2>2. x.want \in {"none", l}
    BY <1>1, <1>5, <1>8 DEF Balanced, Locks, UsesCons, UsesTx, UsesPr, Runs
  <2>3. CASE x.want = "none"
    <3>1. S = {l}
      BY <1>1, <1>3, <1>8, <2>3 DEF Holds, Locks
    <3>2. Cardinality(S) = 1
      BY <1>4, <3>1
    <3>3. w = 0
      BY <2>3
    <3> QED
      BY <2>1, <3>2, <3>3
  <2>4. CASE x.want = l
    <3>1. S = {}
      BY <1>1, <1>3, <1>8, <2>4 DEF Holds, Locks
    <3>2. w = 1
      BY <2>4 DEF Locks
    <3> QED
      BY <1>4, <2>1, <3>1, <3>2
  <2> QED
    BY <2>2, <2>3, <2>4
<1>9. /\ ~(UsesTicks(x, p) /\ (UsesCons(x, p) \/ UsesTx(x, p) \/ UsesPr(x, p)))
      /\ ~(UsesTx(x, p) /\ UsesPr(x, p))
  BY DEF UsesCons, UsesTx, UsesTicks, UsesPr, Runs
<1>10. x.noff = Cardinality(S) + w
  <2> HIDE DEF S, w
  <2>1. CASE UsesCons(x, p) /\ ~UsesTx(x, p) /\ ~UsesPr(x, p)
    BY <1>8, <1>9, <2>1 DEF Locks
  <2>2. CASE ~UsesCons(x, p) /\ UsesTx(x, p)
    BY <1>8, <1>9, <2>2 DEF Locks
  <2>3. CASE UsesTicks(x, p)
    BY <1>8, <1>9, <2>3 DEF Locks
  <2>4. CASE ~UsesCons(x, p) /\ UsesPr(x, p)
    BY <1>8, <1>9, <2>4 DEF Locks
  <2>5. CASE UsesCons(x, p) /\ UsesTx(x, p)
    BY <1>6, <1>9, <2>5
  <2>6. CASE UsesCons(x, p) /\ UsesPr(x, p)
    BY <1>6, <1>9, <2>6
  <2>7. CASE ~UsesCons(x, p) /\ ~UsesTx(x, p) /\ ~UsesTicks(x, p) /\ ~UsesPr(x, p)
    BY <1>7, <2>7 DEF x, S, w
  <2> QED
    BY <2>1, <2>2, <2>3, <2>4, <2>5, <2>6, <2>7
<1> QED
  BY <1>10 DEF x

\* the invariant implies what the run checks
LEMMA InvSafe == Inv => DevicesSafe
<1> SUFFICES ASSUME Inv PROVE DevicesSafe
  OBVIOUS
<1>1. TypeOK
  <2>1. /\ cons.r \in 0..(UINT - 1) /\ cons.w \in 0..(UINT - 1) /\ cons.e \in 0..(UINT - 1)
        /\ tx.r \in Slots /\ tx.w \in Slots /\ ticks \in 0..(UINT - 1)
    BY DEF Inv, Typed
  <2>2. \A k \in DOMAIN lock : lock[k] \in Harts \cup {0}
    BY DEF Inv, Typed
  <2>3. ASSUME NEW h \in Harts PROVE hart[h].noff \in 0..2 /\ proc[h].since \in 0..(UINT - 1)
    <3>1. hart[h].noff \in 0..2
      <4>1. hart[h].noff \in {0, 1, 2}
        BY HartIs, HartFields
      <4> QED
        BY <4>1
    <3>2. ticks - proc[h].t0 \in Int
      <4>1. proc[h].t0 \in 0..(UINT - 1)
        BY HartIs, ProcFields
      <4> QED
        BY <2>1, <4>1
    <3>3. proc[h].since = (ticks - proc[h].t0) % UINT \/ proc[h].since = 0
      BY HartIs DEF Clocked
    <3>4. (ticks - proc[h].t0) % UINT \in 0..(UINT - 1)
      BY <3>2, Sizes
    <3>5. 0 \in 0..(UINT - 1)
      BY Sizes
    <3> QED
      BY <3>1, <3>3, <3>4, <3>5
  <2> QED
    BY <2>1, <2>2, <2>3 DEF TypeOK
<1>2. InterruptsMatched
  <2>1. panicked \in {"none", "sched locks"}
    BY DEF Inv, Typed
  <2>2. ASSUME NEW h \in Harts PROVE hart[h].sie <=> (hart[h].noff = 0 /\ hart[h].trap = "none")
    BY HartIs DEF Balanced
  <2> QED
    BY <2>1, <2>2, Counted DEF InterruptsMatched
<1>3. uart.thr <= 1 \/ uart.pr
  BY DEF Inv
<1>4. ASSUME NEW h \in Harts, proc[h].state = "asleep"
      PROVE  /\ proc[h].chan = "cons" => cons.r = cons.w
             /\ proc[h].chan = "ticks" => proc[h].since < proc[h].n
  BY <1>4, HartIs DEF Reason
<1> QED
  BY <1>1, <1>2, <1>3, <1>4 DEF DevicesSafe

-----------------------------------------------------------------------------
\* The indices stay in their widths.  push_off() and pop_off() match, so that no handler waits
\* for a lock of the code it interrupted.  THR is written before its last character has left
\* only in a race with kernel printf(): cons.lock and the PLIC keep write(), the echo of keys
\* and the transmit interrupt apart, although the echo takes no lock of the UART.  A reader sleeps only when there is no line for it,
\* sleep(n) only while fewer than n ticks have passed.  kernel/spinlock.c, uart.c, console.c.
THEOREM ConsoleDevicesSafe == Spec => []DevicesSafe
<1>1. Init => Inv
  BY InitInv
<1>2. Inv /\ [Next]_vars => Inv'
  BY NextInv
<1>3. Inv => DevicesSafe
  BY InvSafe
<1> QED
  BY <1>1, <1>2, <1>3, PTL DEF Spec

\* sys_sleep(n) of a process that was not killed ends after n ticks, not before, although
\* ticks is an unsigned int that wraps.
THEOREM ConsoleSleptEnough == Spec => SleptEnough
<1> DEFINE A == \A h \in Harts : (Napping(h) /\ ~proc[h].killed /\ proc'[h].pc = "user")
                  => proc[h].since >= proc[h].n
<1>1. Init => Inv
  BY InitInv
<1>2. Inv /\ [Next]_vars => Inv'
  BY NextInv
<1>3. Inv /\ [Next]_vars => [A]_vars
  <2>1. Slept => A
    BY DEF Slept, Dozing, Napping
  <2> QED
    BY <2>1, NextInv
<1> QED
  BY <1>1, <1>2, <1>3, PTL DEF Spec, SleptEnough
-----------------------------------------------------------------------------
(***************************************************************************)
(* The ring of cons: a text is what the buffer holds from an index on.     *)
(***************************************************************************)
\* n characters of buffer b from index i on
Text(b, i, n) == [k \in 1..n |-> b[(i + k - 1) % INPUT_BUF]]

\* places repeat with the size of the ring ...
LEMMA Periodic ==
  ASSUME NEW P \in Nat \ {0}, NEW a \in Nat, NEW k \in Nat
  PROVE  (a + k * P) % P = a % P
<1> DEFINE q == a \div P
           r == a % P
           s == q + k
           b == a + k * P
<1>1. q \in Int /\ r \in 0..(P - 1) /\ a = q * P + r
  OBVIOUS
<1> HIDE DEF q, r
<1>2. (q + k) * P = q * P + k * P
  BY <1>1
<1>3. k * P \in Nat
  OBVIOUS
<1>4. s \in Int /\ b \in Int /\ b = s * P + r
  BY <1>1, <1>2, <1>3
<1> HIDE DEF s, b
<1>5. b % P = r
  BY <1>1, <1>4, ModUnique
<1> QED
  BY <1>5 DEF b, r

\* ... and differ less than a ring apart
LEMMA Apart ==
  ASSUME NEW P \in Nat \ {0}, NEW a \in Nat, NEW d \in 1..(P - 1)
  PROVE  (a + d) % P # a % P
<1> DEFINE q == a \div P
           s == (a + d) \div P
           m == a % P
<1>1. q \in Int /\ m \in 0..(P - 1) /\ a = q * P + m
  OBVIOUS
<1>2. s \in Int /\ a + d = s * P + ((a + d) % P)
  OBVIOUS
<1>3. SUFFICES ASSUME (a + d) % P = m PROVE FALSE
  OBVIOUS
<1>4. d = (s - q) * P
  BY <1>1, <1>2, <1>3
<1> HIDE DEF q, s
<1>5. CASE s - q >= 1
  <2>1. (s - q) * P >= P
    BY <1>1, <1>2, <1>5
  <2> QED
    BY <1>4, <2>1
<1>6. CASE s - q <= 0
  <2>1. (s - q) * P <= 0
    BY <1>1, <1>2, <1>6
  <2> QED
    BY <1>4, <2>1
<1> QED
  BY <1>1, <1>2, <1>5, <1>6

\* the indices wrap at a multiple of the ring, so that it does not matter for the places
LEMMA Places ==
  ASSUME NEW i \in 0..(UINT - 1), NEW k \in 0..(UINT - 1), NEW j \in Nat
  PROVE  (((i + k) % UINT) + j) % INPUT_BUF = (i + k + j) % INPUT_BUF
<1> DEFINE a == (i + k) % UINT
           m == UINT \div INPUT_BUF
<1>1. INPUT_BUF \in Nat \ {0} /\ UINT \in Nat \ {0}
  BY Sizes
<1>2. m \in Nat /\ UINT = m * INPUT_BUF
  <2>1. UINT = INPUT_BUF * m + (UINT % INPUT_BUF) /\ m \in Int
    BY <1>1
  <2>2. UINT % INPUT_BUF = 0
    BY ConsoleAssumption
  <2> HIDE DEF m
  <2>3. UINT = m * INPUT_BUF
    BY <1>1, <2>1, <2>2
  <2>4. CASE m < 0
    <3>1. m * INPUT_BUF <= (-1) * INPUT_BUF
      BY <1>1, <2>1, <2>4
    <3> QED
      BY <1>1, <2>3, <3>1
  <2> QED
    BY <2>1, <2>3, <2>4
<1>3. a \in 0..(UINT - 1) /\ (a + UINT = i + k \/ a = i + k)
  BY <1>1, StepsIs
<1> HIDE DEF a, m
<1>4. CASE a = i + k
  BY <1>4 DEF a
<1>5. CASE a + UINT = i + k
  <2>1. a + j \in Nat /\ i + k + j = (a + j) + m * INPUT_BUF
    BY <1>1, <1>2, <1>3, <1>5
  <2>2. ((a + j) + m * INPUT_BUF) % INPUT_BUF = (a + j) % INPUT_BUF
    BY <1>1, <1>2, <2>1, Periodic
  <2> QED
    BY <2>1, <2>2 DEF a
<1> QED
  BY <1>3, <1>4, <1>5

\* a text is a sequence
LEMMA TextIs ==
  ASSUME NEW b \in [BufSlots -> Texts], NEW i \in 0..(UINT - 1), NEW n \in Nat
  PROVE  /\ Text(b, i, n) \in Seq(Texts) /\ Len(Text(b, i, n)) = n
         /\ \A k \in 1..n : /\ Text(b, i, n)[k] = b[(i + k - 1) % INPUT_BUF]
                            /\ Text(b, i, n)[k] \in Texts
<1>1. ASSUME NEW k \in 1..n PROVE b[(i + k - 1) % INPUT_BUF] \in Texts
  <2>1. i + k - 1 \in Int
    OBVIOUS
  <2>2. (i + k - 1) % INPUT_BUF \in BufSlots
    BY <2>1, Sizes
  <2> QED
    BY <2>2
<1>2. Text(b, i, n) \in [1..n -> Texts]
  BY <1>1 DEF Text
<1> QED
  BY <1>1, <1>2 DEF Text

\* taking characters from the front
LEMMA TextTail ==
  ASSUME NEW b \in [BufSlots -> Texts], NEW i \in 0..(UINT - 1), NEW n \in 0..(UINT - 1), NEW k \in 0..n
  PROVE  /\ (i + k) % UINT \in 0..(UINT - 1)
         /\ Text(b, (i + k) % UINT, n - k) = SubSeq(Text(b, i, n), k + 1, n)
<1> DEFINE a == (i + k) % UINT
           s == Text(b, a, n - k)
           t == Text(b, i, n)
           u == SubSeq(t, k + 1, n)
<1>1. UINT \in Nat \ {0} /\ n \in Nat /\ n - k \in Nat /\ k \in 0..(UINT - 1) /\ k \in Nat
  BY Sizes
<1>2. a \in 0..(UINT - 1)
  BY <1>1, StepsIs
<1>3. /\ s \in Seq(Texts) /\ Len(s) = n - k
      /\ \A j \in 1..(n - k) : s[j] = b[(a + j - 1) % INPUT_BUF]
  BY <1>1, <1>2, TextIs
<1>4. /\ t \in Seq(Texts) /\ Len(t) = n
      /\ \A j \in 1..n : t[j] = b[(i + j - 1) % INPUT_BUF] /\ t[j] \in Texts
  BY <1>1, TextIs
<1>5. /\ u \in Seq(Texts) /\ Len(u) = n - k
      /\ \A j \in 1..(n - k) : u[j] = t[k + j]
  BY <1>1, <1>4, SubSeqProperties
<1>6. ASSUME NEW j \in 1..(n - k) PROVE s[j] = u[j]
  <2>1. j - 1 \in Nat /\ k + j \in 1..n
    BY <1>1
  <2>2. (a + (j - 1)) % INPUT_BUF = (i + k + (j - 1)) % INPUT_BUF
    BY <1>1, <2>1, Places
  <2>3. a + (j - 1) = a + j - 1 /\ i + k + (j - 1) = i + (k + j) - 1
    BY <1>1, <1>2
  <2> HIDE DEF a
  <2> QED
    BY <1>3, <1>4, <1>5, <2>1, <2>2, <2>3
<1> HIDE DEF s, u
<1>7. s = u
  BY <1>1, <1>3, <1>5, <1>6, SeqEqual
<1> QED
  BY <1>2, <1>7 DEF s, u

\* taking characters from the end
LEMMA TextFront ==
  ASSUME NEW b \in [BufSlots -> Texts], NEW i \in 0..(UINT - 1), NEW n \in Nat, NEW k \in 0..n
  PROVE  Text(b, i, k) = SubSeq(Text(b, i, n), 1, k)
<1> DEFINE s == Text(b, i, k)
           t == Text(b, i, n)
           u == SubSeq(t, 1, k)
<1>1. k \in Nat
  OBVIOUS
<1>2. /\ s \in Seq(Texts) /\ Len(s) = k
      /\ \A j \in 1..k : s[j] = b[(i + j - 1) % INPUT_BUF]
  BY <1>1, TextIs
<1>3. /\ t \in Seq(Texts) /\ Len(t) = n
      /\ \A j \in 1..n : t[j] = b[(i + j - 1) % INPUT_BUF] /\ t[j] \in Texts
  BY <1>1, TextIs
<1>4. /\ u \in Seq(Texts) /\ Len(u) = k
      /\ \A j \in 1..k : u[j] = t[j]
  BY <1>1, <1>3, SubSeqProperties
<1> HIDE DEF s, t, u
<1>5. ASSUME NEW j \in 1..k PROVE s[j] = u[j]
  <2>1. j \in 1..n
    BY <1>1
  <2> QED
    BY <1>2, <1>3, <1>4, <2>1
<1>6. s = u
  BY <1>2, <1>4, <1>5, SeqEqual
<1> QED
  BY <1>6 DEF s, t, u

\* two texts, the one after the other
LEMMA TextJoin ==
  ASSUME NEW b \in [BufSlots -> Texts], NEW i \in 0..(UINT - 1), NEW n \in 0..(UINT - 1), NEW m \in Nat
  PROVE  Text(b, i, n + m) = Text(b, i, n) \o Text(b, (i + n) % UINT, m)
<1> DEFINE a == (i + n) % UINT
           s == Text(b, i, n + m)
           t == Text(b, i, n)
           u == Text(b, a, m)
           v == t \o u
<1>1. UINT \in Nat \ {0} /\ n \in Nat /\ n + m \in Nat
  BY Sizes
<1>2. a \in 0..(UINT - 1)
  BY <1>1, StepsIs
<1>3. /\ s \in Seq(Texts) /\ Len(s) = n + m
      /\ \A j \in 1..(n + m) : s[j] = b[(i + j - 1) % INPUT_BUF]
  BY <1>1, TextIs
<1>4. /\ t \in Seq(Texts) /\ Len(t) = n
      /\ \A j \in 1..n : t[j] = b[(i + j - 1) % INPUT_BUF]
  BY <1>1, TextIs
<1>5. /\ u \in Seq(Texts) /\ Len(u) = m
      /\ \A j \in 1..m : u[j] = b[(a + j - 1) % INPUT_BUF]
  BY <1>1, <1>2, TextIs
<1>6. /\ v \in Seq(Texts) /\ Len(v) = n + m
      /\ \A j \in 1..(n + m) : v[j] = IF j <= n THEN t[j] ELSE u[j - n]
  <2> HIDE DEF t, u
  <2> QED
    BY <1>4, <1>5, ConcatProperties
<1>7. ASSUME NEW j \in 1..(n + m) PROVE s[j] = v[j]
  <2>1. CASE j <= n
    <3>1. j \in 1..n
      BY <1>1, <2>1
    <3> HIDE DEF s, t, u, v
    <3> QED
      BY <1>3, <1>4, <1>6, <2>1, <3>1
  <2>2. CASE ~(j <= n)
    <3>1. j - n \in 1..m /\ j - n - 1 \in Nat
      BY <1>1, <2>2
    <3>2. (a + (j - n - 1)) % INPUT_BUF = (i + n + (j - n - 1)) % INPUT_BUF
      BY <1>1, <3>1, Places
    <3>3. a + (j - n - 1) = a + (j - n) - 1 /\ i + n + (j - n - 1) = i + j - 1
      BY <1>1, <1>2
    <3> HIDE DEF a, s, t, u, v
    <3>4. v[j] = u[j - n]
      BY <1>6, <2>2
    <3>5. u[j - n] = b[(a + (j - n) - 1) % INPUT_BUF]
      BY <1>5, <3>1
    <3> QED
      BY <1>3, <3>2, <3>3, <3>4, <3>5
  <2> QED
    BY <2>1, <2>2
<1> HIDE DEF s, v
<1>8. s = v
  BY <1>3, <1>6, <1>7, SeqEqual
<1> QED
  BY <1>8 DEF s, v

\* the last of n + 1
LEMMA Last == \A n \in Nat : \A j \in 1..(n + 1) : j \in 1..n \/ j = n + 1
OBVIOUS

\* the buffer with c at index x
Put(b, x, c) == [b EXCEPT ![x % INPUT_BUF] = c]

\* storing a character behind a text leaves the text alone, when the ring is not full
LEMMA TextStore ==
  ASSUME NEW b \in [BufSlots -> Texts], NEW i \in 0..(UINT - 1), NEW n \in 0..(INPUT_BUF - 1), NEW c \in Texts
  PROVE  /\ Put(b, (i + n) % UINT, c) \in [BufSlots -> Texts]
         /\ \A k \in 0..n : Text(Put(b, (i + n) % UINT, c), i, k) = Text(b, i, k)
         /\ Text(Put(b, (i + n) % UINT, c), i, n + 1) = Append(Text(b, i, n), c)
<1> DEFINE x == (i + n) % INPUT_BUF
           d == Put(b, (i + n) % UINT, c)
<1>1. INPUT_BUF \in Nat \ {0} /\ UINT \in Nat \ {0} /\ n \in 0..(UINT - 1) /\ i + n \in Nat
  BY Sizes
<1>2. ((i + n) % UINT) % INPUT_BUF = x
  <2>1. (((i + n) % UINT) + 0) % INPUT_BUF = (i + n + 0) % INPUT_BUF
    BY <1>1, Places
  <2>2. (i + n) % UINT \in Int
    BY <1>1
  <2>3. ((i + n) % UINT) + 0 = (i + n) % UINT /\ i + n + 0 = i + n
    BY <1>1, <2>2
  <2> QED
    BY <2>1, <2>3
<1>3. x \in BufSlots
  <2>1. i + n \in Int
    BY <1>1
  <2> QED
    BY <2>1, Sizes
<1>4. d = [b EXCEPT ![x] = c]
  BY <1>2 DEF Put
<1> HIDE DEF d
<1>5. d \in [BufSlots -> Texts]
  BY <1>4
<1>6. ASSUME NEW j \in 1..n
      PROVE  d[(i + j - 1) % INPUT_BUF] = b[(i + j - 1) % INPUT_BUF]
  <2>1. i + j - 1 \in Nat /\ n - (j - 1) \in 1..(INPUT_BUF - 1) /\ (i + j - 1) + (n - (j - 1)) = i + n
    BY <1>1
  <2>2. ((i + j - 1) + (n - (j - 1))) % INPUT_BUF # (i + j - 1) % INPUT_BUF
    BY <1>1, <2>1, Apart
  <2>3. x # (i + j - 1) % INPUT_BUF
    BY <2>1, <2>2
  <2>4. (i + j - 1) % INPUT_BUF \in BufSlots
    <3>1. i + j - 1 \in Int
      BY <2>1
    <3> QED
      BY <3>1, Sizes
  <2> HIDE DEF x
  <2> QED
    BY <1>3, <1>4, <2>3, <2>4
<1>7. ASSUME NEW k \in 0..n PROVE Text(d, i, k) = Text(b, i, k)
  <2>1. \A j \in 1..k : j \in 1..n
    BY <1>1
  <2> QED
    BY <1>6, <2>1 DEF Text
<1>8. Text(d, i, n + 1) = Append(Text(b, i, n), c)
  <2> DEFINE s == Text(d, i, n + 1)
             t == Text(b, i, n)
             u == Append(t, c)
  <2>1. n \in Nat /\ n + 1 \in Nat
    BY <1>1
  <2>2. /\ s \in Seq(Texts) /\ Len(s) = n + 1
        /\ \A j \in 1..(n + 1) : s[j] = d[(i + j - 1) % INPUT_BUF]
    <3> DEFINE m == n + 1
    <3>1. m \in Nat
      BY <2>1
    <3> HIDE DEF m
    <3>2. /\ Text(d, i, m) \in Seq(Texts) /\ Len(Text(d, i, m)) = m
          /\ \A k \in 1..m : /\ Text(d, i, m)[k] = d[(i + k - 1) % INPUT_BUF]
                              /\ Text(d, i, m)[k] \in Texts
      BY <1>5, <3>1, TextIs, Zenon
    <3>3. \A k \in 1..m : Text(d, i, m)[k] = d[(i + k - 1) % INPUT_BUF]
      BY <3>2, Zenon
    <3> QED
      BY <3>2, <3>3, Zenon DEF m
  <2>3. /\ t \in Seq(Texts) /\ Len(t) = n
        /\ \A j \in 1..n : t[j] = b[(i + j - 1) % INPUT_BUF]
    BY <2>1, TextIs
  <2>4. /\ u \in Seq(Texts) /\ Len(u) = n + 1
        /\ (\A j \in 1..n : u[j] = t[j]) /\ u[n + 1] = c
    <3> HIDE DEF t
    <3> QED
      BY <2>3, AppendProperties
  <2>5. ASSUME NEW j \in 1..(n + 1) PROVE s[j] = u[j]
    <3>1. CASE j \in 1..n
      <4> HIDE DEF s, t, u
      <4> QED
        BY <1>6, <2>2, <2>3, <2>4, <3>1
    <3>2. CASE j = n + 1
      <4>1. i + j - 1 = i + n
        BY <1>1, <3>2
      <4>2. d[x] = c
        BY <1>3, <1>4
      <4> HIDE DEF s, t, u
      <4> QED
        BY <2>2, <2>4, <3>2, <4>1, <4>2
    <3>3. j \in 1..n \/ j = n + 1
      BY <2>1, Last
    <3> QED
      BY <3>1, <3>2, <3>3
  <2> HIDE DEF s, u
  <2>6. s = u
    BY <2>2, <2>4, <2>5, SeqEqual
  <2> QED
    BY <2>6 DEF s, u
<1> QED
  BY <1>5, <1>7, <1>8 DEF d

\* an index that is k steps on
LEMMA Reached ==
  ASSUME NEW M \in Nat \ {0}, NEW i \in 0..(M - 1), NEW j \in 0..(M - 1), NEW k \in 0..(M - 1),
         j = i + k \/ j + M = i + k
  PROVE  j = (i + k) % M
<1> DEFINE a == (i + k) % M
<1>1. a \in 0..(M - 1) /\ (a + M = i + k \/ a = i + k)
  BY StepsIs
<1> HIDE DEF a
<1>2. j = a
  BY <1>1
<1> QED
  BY <1>2 DEF a

\* two gaps after each other that are less than the range together
LEMMA ThreeIndices ==
  ASSUME NEW M \in Nat \ {0}, NEW r \in 0..(M - 1), NEW w \in 0..(M - 1), NEW e \in 0..(M - 1),
         NEW n \in 0..(M - 1), NEW m \in 0..(M - 1), n + m < M,
         w = r + n \/ w + M = r + n, e = w + m \/ e + M = w + m
  PROVE  /\ w = (r + n) % M /\ e = (w + m) % M /\ e = (r + (n + m)) % M
         /\ (e - r) % M = n + m
<1> DEFINE k == n + m
<1>1. k \in 0..(M - 1) /\ (e = r + k \/ e + M = r + k)
  OBVIOUS
<1> HIDE DEF k
<1>2. w = (r + n) % M
  BY Reached
<1>3. e = (w + m) % M
  BY Reached
<1>4. e = (r + k) % M
  BY <1>1, Reached
<1>5. (e - r) % M = k
  BY <1>1, GapUnique
<1> QED
  BY <1>2, <1>3, <1>4, <1>5 DEF k

\* the gap when the index behind it moves by k
LEMMA BehindMoves ==
  ASSUME NEW M \in Nat \ {0}, NEW r \in 0..(M - 1), NEW w \in 0..(M - 1), NEW s \in 0..(M - 1),
         NEW n \in 0..(M - 1), NEW k \in 0..n,
         w = r + n \/ w + M = r + n, s + M = r + k \/ s = r + k
  PROVE  n - k \in 0..(M - 1) /\ (w - s) % M = n - k
<1> DEFINE i == n - k
<1>1. i \in 0..(M - 1) /\ (w = s + i \/ w + M = s + i)
  OBVIOUS
<1> HIDE DEF i
<1>2. (w - s) % M = i
  BY <1>1, GapUnique
<1> QED
  BY <1>1, <1>2 DEF i

\* the gap when the index before it moves back by k
LEMMA BeforeMoves ==
  ASSUME NEW M \in Nat \ {0}, NEW w \in 0..(M - 1), NEW e \in 0..(M - 1), NEW f \in 0..(M - 1),
         NEW m \in 0..(M - 1), NEW k \in 0..m,
         e = w + m \/ e + M = w + m, f + k = e + M \/ f + k = e
  PROVE  m - k \in 0..(M - 1) /\ (f - w) % M = m - k
<1> DEFINE i == m - k
<1>1. i \in 0..(M - 1) /\ (f = w + i \/ f + M = w + i)
  OBVIOUS
<1> HIDE DEF i
<1>2. (f - w) % M = i
  BY <1>1, GapUnique
<1> QED
  BY <1>1, <1>2 DEF i

\* the lengths of the ended lines and of the edited one; the edited one has no end of a line
Filled == (cons.w - cons.r) % UINT
Edited == (cons.e - cons.w) % UINT

\* the inductive invariant of the ring
LineOK ==
  /\ Filled + Edited <= INPUT_BUF
  /\ \A j \in 1..Edited : Line[j] \notin Ends

\* Input and Line as texts
LEMMA LinesAre ==
  ASSUME cons \in ConsType, LineOK
  PROVE  /\ Filled \in 0..(UINT - 1) /\ Edited \in 0..(UINT - 1)
         /\ Filled + Edited \in 0..INPUT_BUF
         /\ cons.w = (cons.r + Filled) % UINT /\ cons.e = (cons.w + Edited) % UINT
         /\ cons.e = (cons.r + (Filled + Edited)) % UINT
         /\ (cons.e - cons.r) % UINT = Filled + Edited
         /\ Input = Text(cons.buf, cons.r, Filled) /\ Line = Text(cons.buf, cons.w, Edited)
         /\ Input \in Seq(Texts) /\ Len(Input) = Filled
         /\ Line \in Seq(Texts) /\ Len(Line) = Edited
<1> DEFINE n == Filled
           m == Edited
<1>1. /\ cons.r \in 0..(UINT - 1) /\ cons.w \in 0..(UINT - 1) /\ cons.e \in 0..(UINT - 1)
      /\ cons.buf \in [BufSlots -> Texts]
  BY DEF ConsType
<1>2. UINT \in Nat \ {0} /\ INPUT_BUF \in Nat \ {0} /\ INPUT_BUF < UINT
  BY Sizes
<1>3. n \in 0..(UINT - 1) /\ m \in 0..(UINT - 1)
  BY <1>1, <1>2, GapIs DEF Filled, Edited
<1>4. n + m <= INPUT_BUF
  BY DEF LineOK
<1>5. n = (cons.w - cons.r) % UINT /\ m = (cons.e - cons.w) % UINT
  BY DEF Filled, Edited
<1>6. Input = Text(cons.buf, cons.r, n) /\ Line = Text(cons.buf, cons.w, m)
  BY DEF Input, Line, Chars, Text, Filled, Edited
<1> HIDE DEF n, m
<1>7. n \in Nat /\ m \in Nat /\ n + m < UINT /\ n + m \in 0..INPUT_BUF
  BY <1>2, <1>3, <1>4
<1>8. /\ cons.w = (cons.r + n) % UINT /\ cons.e = (cons.w + m) % UINT
      /\ cons.e = (cons.r + (n + m)) % UINT /\ (cons.e - cons.r) % UINT = n + m
  <2>1. (cons.w = cons.r + n \/ cons.w + UINT = cons.r + n) /\ (cons.e = cons.w + m \/ cons.e + UINT = cons.w + m)
    BY <1>1, <1>2, <1>5, GapIs
  <2> DEFINE r == cons.r
             w == cons.w
             e == cons.e
  <2>2. /\ r \in 0..(UINT - 1) /\ w \in 0..(UINT - 1) /\ e \in 0..(UINT - 1)
        /\ w = r + n \/ w + UINT = r + n
        /\ e = w + m \/ e + UINT = w + m
    BY <1>1, <2>1
  <2> HIDE DEF r, w, e
  <2>3. /\ w = (r + n) % UINT /\ e = (w + m) % UINT
        /\ e = (r + (n + m)) % UINT /\ (e - r) % UINT = n + m
    BY <1>2, <1>3, <1>7, <2>2, ThreeIndices
  <2> QED
    BY <2>3 DEF r, w, e
<1>9. /\ Input \in Seq(Texts) /\ Len(Input) = n
      /\ Line \in Seq(Texts) /\ Len(Line) = m
  BY <1>1, <1>6, <1>7, TextIs
<1> QED
  BY <1>3, <1>6, <1>7, <1>8, <1>9 DEF n, m

\* what cons holds after a step
LEMMA LinesNow ==
  ASSUME NEW b, NEW r, NEW w, NEW e, cons'.buf = b, cons'.r = r, cons'.w = w, cons'.e = e,
         NEW n, NEW m, n = (w - r) % UINT, m = (e - w) % UINT
  PROVE  Input' = Text(b, r, n) /\ Line' = Text(b, w, m) /\ Filled' = n /\ Edited' = m
BY DEF Input, Line, Chars, Text, Filled, Edited

\* k characters are read
LEMMA LinesTaken ==
  ASSUME cons \in ConsType, LineOK, NEW k \in 0..Filled, cons' = [cons EXCEPT !.r = (cons.r + k) % UINT]
  PROVE  LineOK' /\ Input' = SubSeq(Input, k + 1, Len(Input)) /\ Line' = Line
<1> DEFINE n == Filled
           m == Edited
           b == cons.buf
           r == cons.r
           w == cons.w
           e == cons.e
           s == (r + k) % UINT
           i == n - k
<1>1. /\ n \in 0..(UINT - 1) /\ m \in 0..(UINT - 1) /\ n + m \in 0..INPUT_BUF
      /\ Input = Text(b, r, n) /\ Line = Text(b, w, m) /\ Len(Input) = n
  BY LinesAre
<1>2. /\ r \in 0..(UINT - 1) /\ w \in 0..(UINT - 1) /\ e \in 0..(UINT - 1)
      /\ b \in [BufSlots -> Texts]
  BY DEF ConsType
<1>3. UINT \in Nat \ {0} /\ INPUT_BUF \in Nat
  BY Sizes
<1>4. cons'.buf = b /\ cons'.r = s /\ cons'.w = w /\ cons'.e = e
  BY DEF ConsType
<1>5. m = (e - w) % UINT /\ n = (w - r) % UINT
  BY DEF Filled, Edited
<1>0. k \in 0..n
  OBVIOUS
<1> HIDE DEF n, m, b, r, w, e
<1>6. k \in 0..(UINT - 1) /\ i \in 0..(UINT - 1) /\ i + m <= INPUT_BUF
  BY <1>0, <1>1, <1>3
<1>7. s \in 0..(UINT - 1) /\ (s + UINT = r + k \/ s = r + k)
  BY <1>2, <1>3, <1>6, StepsIs
<1>8. w = r + n \/ w + UINT = r + n
  BY <1>2, <1>3, <1>5, GapIs
<1> HIDE DEF s
<1>9. (w - s) % UINT = i
  BY <1>0, <1>1, <1>2, <1>3, <1>7, <1>8, BehindMoves
<1>10. Input' = Text(b, s, i) /\ Line' = Text(b, w, m) /\ Filled' = i /\ Edited' = m
  <2> HIDE DEF i
  <2> QED
    BY <1>4, <1>5, <1>9, LinesNow
<1>11. Text(b, s, i) = SubSeq(Text(b, r, n), k + 1, n)
  BY <1>0, <1>1, <1>2, TextTail DEF s
<1>12. LineOK'
  BY <1>1, <1>6, <1>10 DEF LineOK, m
<1> QED
  BY <1>1, <1>10, <1>11, <1>12

\* k characters of the edited line are erased
LEMMA LinesShortened ==
  ASSUME cons \in ConsType, LineOK, NEW k \in 0..Edited, Shortened(k)
  PROVE  LineOK' /\ Input' = Input /\ Line' = SubSeq(Line, 1, Len(Line) - k)
<1> DEFINE n == Filled
           m == Edited
           b == cons.buf
           r == cons.r
           w == cons.w
           e == cons.e
           f == (e - k) % UINT
           i == m - k
<1>1. /\ n \in 0..(UINT - 1) /\ m \in 0..(UINT - 1) /\ n + m \in 0..INPUT_BUF
      /\ Input = Text(b, r, n) /\ Line = Text(b, w, m) /\ Len(Line) = m
  BY LinesAre
<1>2. /\ r \in 0..(UINT - 1) /\ w \in 0..(UINT - 1) /\ e \in 0..(UINT - 1)
      /\ b \in [BufSlots -> Texts]
  BY DEF ConsType
<1>3. UINT \in Nat \ {0} /\ INPUT_BUF \in Nat
  BY Sizes
<1>4. cons'.buf = b /\ cons'.r = r /\ cons'.w = w /\ cons'.e = f
  BY DEF Shortened
<1>5. m = (e - w) % UINT /\ n = (w - r) % UINT
  BY DEF Filled, Edited
<1>0. k \in 0..m
  OBVIOUS
<1>6. \A j \in 1..m : Line[j] \notin Ends
  BY DEF LineOK
<1> HIDE DEF n, m, b, r, w, e
<1>7. k \in 0..(UINT - 1) /\ i \in 0..(UINT - 1) /\ n + i <= INPUT_BUF /\ i \in 0..m /\ m \in Nat /\ i \in Nat
  BY <1>0, <1>1, <1>3
<1>8. f \in 0..(UINT - 1) /\ (f = e - k + UINT \/ f = e - k)
  BY <1>2, <1>3, <1>7, StepsIs
<1>9. e = w + m \/ e + UINT = w + m
  BY <1>2, <1>3, <1>5, GapIs
<1> HIDE DEF f
<1>10. (f - w) % UINT = i
  <2>1. f + k = e + UINT \/ f + k = e
    BY <1>2, <1>3, <1>7, <1>8
  <2>2. m - k \in 0..(UINT - 1) /\ (f - w) % UINT = m - k
    BY <1>0, <1>1, <1>2, <1>3, <1>8, <1>9, <2>1, BeforeMoves
  <2> QED
    BY <2>2
<1>11. Input' = Text(b, r, n) /\ Line' = Text(b, w, i) /\ Filled' = n /\ Edited' = i
  <2> HIDE DEF i
  <2> QED
    BY <1>4, <1>5, <1>10, LinesNow
<1> HIDE DEF i
<1>12. Text(b, w, i) = SubSeq(Text(b, w, m), 1, i)
  BY <1>2, <1>7, TextFront
<1>13. \A j \in 1..i : Line'[j] \notin Ends
  <2> SUFFICES ASSUME NEW j \in 1..i PROVE Line'[j] \notin Ends
    OBVIOUS
  <2>1. Text(b, w, i)[j] = b[(w + j - 1) % INPUT_BUF]
    BY <1>2, <1>7, TextIs
  <2>2. j \in 1..m
    BY <1>7
  <2>3. Text(b, w, m)[j] = b[(w + j - 1) % INPUT_BUF]
    BY <1>2, <1>7, <2>2, TextIs
  <2> QED
    BY <1>1, <1>6, <1>11, <2>1, <2>2, <2>3
<1>14. LineOK'
  BY <1>7, <1>11, <1>13 DEF LineOK
<1> QED
  BY <1>1, <1>11, <1>12, <1>14 DEF i

\* one more character behind two gaps, and whether it is the last of B
LEMMA OneMore ==
  ASSUME NEW M \in Nat \ {0}, NEW B \in 0..(M - 1),
         NEW r \in 0..(M - 1), NEW w \in 0..(M - 1), NEW e \in 0..(M - 1),
         NEW f \in 0..(M - 1), NEW g \in 0..(M - 1),
         NEW n \in 0..(M - 1), NEW m \in 0..(M - 1), n + m < B,
         w = r + n \/ w + M = r + n, e = w + m \/ e + M = w + m,
         f + M = e + 1 \/ f = e + 1, g + M = r + B \/ g = r + B
  PROVE  /\ (f - w) % M = m + 1 /\ (f - r) % M = n + m + 1 /\ (f - f) % M = 0
         /\ f = g <=> n + m + 1 = B
<1> DEFINE i == m + 1
           j == n + m + 1
<1>1. /\ i \in 0..(M - 1) /\ (f = w + i \/ f + M = w + i)
      /\ j \in 0..(M - 1) /\ (f = r + j \/ f + M = r + j)
  OBVIOUS
<1>2. f = g <=> n + m + 1 = B
  OBVIOUS
<1> HIDE DEF i, j
<1>3. (f - w) % M = i
  BY <1>1, GapUnique
<1>4. (f - r) % M = j
  BY <1>1, GapUnique
<1>5. (f - f) % M = 0
  <2>1. 0 \in 0..(M - 1) /\ f = f + 0
    OBVIOUS
  <2> QED
    BY <2>1, GapUnique
<1> QED
  BY <1>2, <1>3, <1>4, <1>5 DEF i, j

\* a character at the end of two texts
LEMMA AppendTwo ==
  ASSUME NEW S, NEW s \in Seq(S), NEW t \in Seq(S), NEW c \in S
  PROVE  Append(s \o t, c) = s \o Append(t, c)
<1>1. <<c>> \in Seq(S) /\ s \o t \in Seq(S)
  BY ConcatProperties
<1>2. Append(s \o t, c) = (s \o t) \o <<c>> /\ Append(t, c) = t \o <<c>>
  BY <1>1, AppendIsConcat
<1>3. (s \o t) \o <<c>> = s \o (t \o <<c>>)
  BY <1>1, ConcatAssociative
<1> QED
  BY <1>2, <1>3

\* a character is stored
LEMMA LinesStored ==
  ASSUME cons \in ConsType, LineOK, NEW c \in {"a", "nl", "^D"}, Stored(c)
  PROVE  /\ LineOK' /\ Len(Input) + Len(Line) < INPUT_BUF
         /\ (c \in Ends \/ Len(Input) + Len(Line) + 1 = INPUT_BUF)
              => Input' = Input \o Append(Line, c) /\ Line' = <<>>
         /\ ~(c \in Ends \/ Len(Input) + Len(Line) + 1 = INPUT_BUF)
              => Input' = Input /\ Line' = Append(Line, c)
<1> DEFINE n == Filled
           m == Edited
           b == cons.buf
           r == cons.r
           w == cons.w
           e == cons.e
           d == cons'.buf
           f == (e + 1) % UINT
           g == (r + INPUT_BUF) % UINT
           o == n + m
<1>1. /\ n \in 0..(UINT - 1) /\ m \in 0..(UINT - 1) /\ o \in 0..INPUT_BUF
      /\ Input = Text(b, r, n) /\ Line = Text(b, w, m) /\ Len(Input) = n /\ Len(Line) = m
      /\ Input \in Seq(Texts) /\ Line \in Seq(Texts)
  BY LinesAre
<1>2. /\ r \in 0..(UINT - 1) /\ w \in 0..(UINT - 1) /\ e \in 0..(UINT - 1)
      /\ b \in [BufSlots -> Texts]
  BY DEF ConsType
<1>3. UINT \in Nat \ {0} /\ INPUT_BUF \in Nat \ {0} /\ INPUT_BUF < UINT
  BY Sizes
<1>4. /\ w = (r + n) % UINT /\ e = (w + m) % UINT /\ e = (r + o) % UINT
      /\ (e - r) % UINT = o
  BY LinesAre
<1>5. (e - r) % UINT < INPUT_BUF
  BY DEF Stored, Room
<1>6. /\ d = Put(b, e, c) /\ cons'.r = r /\ cons'.e = f
      /\ cons'.w = IF c \in Ends \/ f = g THEN f ELSE w
  BY DEF Stored, Put
<1>7. m = (e - w) % UINT /\ n = (w - r) % UINT
  BY DEF Filled, Edited
<1>8. \A j \in 1..m : Line[j] \notin Ends
  BY DEF LineOK
<1>9. o = n + m
  OBVIOUS
<1>10. c \in Texts
  BY DEF Texts
<1> HIDE DEF n, m, b, r, w, e, d, o
<1>11. o < INPUT_BUF /\ o \in 0..(INPUT_BUF - 1) /\ o \in Nat /\ INPUT_BUF \in 0..(UINT - 1) /\ 1 \in 0..(UINT - 1)
  <2>1. o < INPUT_BUF
    BY <1>4, <1>5
  <2> QED
    BY <1>1, <1>3, <2>1
<1>12. /\ f \in 0..(UINT - 1) /\ (f + UINT = e + 1 \/ f = e + 1)
       /\ g \in 0..(UINT - 1) /\ (g + UINT = r + INPUT_BUF \/ g = r + INPUT_BUF)
  BY <1>2, <1>3, <1>11, StepsIs
<1>13. /\ w = r + n \/ w + UINT = r + n
       /\ e = w + m \/ e + UINT = w + m
  BY <1>2, <1>3, <1>7, GapIs
<1> HIDE DEF f, g
<1>14. /\ (f - w) % UINT = m + 1 /\ (f - r) % UINT = n + m + 1 /\ (f - f) % UINT = 0
       /\ f = g <=> n + m + 1 = INPUT_BUF
  <2>1. n \in 0..(UINT - 1) /\ m \in 0..(UINT - 1) /\ n + m < INPUT_BUF /\ INPUT_BUF \in 0..(UINT - 1)
    BY <1>1, <1>9, <1>11
  <2>2. UINT \in Nat \ {0}
    BY <1>3
  <2> QED
    BY <1>2, <1>12, <1>13, <2>1, <2>2, OneMore
<1>15. /\ d \in [BufSlots -> Texts]
       /\ Text(d, r, n) = Text(b, r, n)
       /\ Text(d, r, o + 1) = Append(Text(b, r, o), c)
  <2>1. e = (r + o) % UINT
    BY <1>4
  <2>2. n \in 0..o
    BY <1>1, <1>9, <1>11
  <2>3. o \in 0..(INPUT_BUF - 1)
    BY <1>11
  <2>4. /\ Put(b, (r + o) % UINT, c) \in [BufSlots -> Texts]
        /\ \A k \in 0..o : Text(Put(b, (r + o) % UINT, c), r, k) = Text(b, r, k)
        /\ Text(Put(b, (r + o) % UINT, c), r, o + 1) = Append(Text(b, r, o), c)
    BY <1>2, <1>10, <2>3, TextStore
  <2> QED
    BY <1>6, <2>1, <2>2, <2>4
<1>16. Text(d, w, m + 1) = Append(Text(b, w, m), c)
  <2>1. e = (w + m) % UINT
    BY <1>4
  <2>2. m \in 0..(INPUT_BUF - 1)
    BY <1>1, <1>3, <1>9, <1>11
  <2>3. Text(Put(b, (w + m) % UINT, c), w, m + 1) = Append(Text(b, w, m), c)
    BY <1>2, <1>10, <2>2, TextStore
  <2> QED
    BY <1>6, <2>1, <2>3
<1>17. Text(b, r, o) = Input \o Line
  <2>1. m \in Nat
    BY <1>1
  <2>2. n \in 0..(UINT - 1)
    BY <1>1
  <2>3. Text(b, r, n + m) = Text(b, r, n) \o Text(b, (r + n) % UINT, m)
    BY <1>2, <2>1, <2>2, TextJoin, Zenon
  <2> QED
    BY <1>1, <1>4, <1>9, <2>3
<1>18. Append(Input \o Line, c) = Input \o Append(Line, c)
  BY <1>1, <1>10, AppendTwo
<1>19. Len(Input) + Len(Line) = o /\ Len(Input) + Len(Line) + 1 = n + m + 1
  BY <1>1, <1>9
<1>20. CASE c \in Ends \/ f = g
  <2>1. cons'.w = f
    BY <1>6, <1>20
  <2>2. Input' = Text(d, r, n + m + 1) /\ Line' = Text(d, f, 0) /\ Filled' = n + m + 1 /\ Edited' = 0
    BY <1>6, <1>14, <2>1, LinesNow DEF d
  <2>3. Line' = <<>>
    BY <2>2 DEF Text
  <2>4. Input' = Input \o Append(Line, c)
    BY <1>9, <1>15, <1>17, <1>18, <2>2
  <2>5. Filled' + Edited' <= INPUT_BUF
    <3>1. n + m + 1 + 0 <= INPUT_BUF
      BY <1>1, <1>3, <1>9, <1>11
    <3> QED
      BY <2>2, <3>1
  <2>6. \A j \in 1..0 : Line'[j] \notin Ends
    OBVIOUS
  <2>7. LineOK'
    BY <2>2, <2>5, <2>6 DEF LineOK
  <2> QED
    BY <1>11, <1>14, <1>19, <1>20, <2>3, <2>4, <2>7
<1>21. CASE ~(c \in Ends \/ f = g)
  <2>1. cons'.w = w
    BY <1>6, <1>21
  <2>2. Input' = Text(d, r, n) /\ Line' = Text(d, w, m + 1) /\ Filled' = n /\ Edited' = m + 1
    BY <1>6, <1>7, <1>14, <2>1, LinesNow DEF d
  <2>3. Input' = Input /\ Line' = Append(Line, c)
    BY <1>1, <1>15, <1>16, <2>2
  <2>4. Filled' + Edited' <= INPUT_BUF
    <3>1. n + (m + 1) <= INPUT_BUF
      BY <1>1, <1>3, <1>9, <1>11
    <3> QED
      BY <2>2, <3>1
  <2>5. ASSUME NEW j \in 1..(m + 1) PROVE Append(Line, c)[j] \notin Ends
    <3>1. /\ \A k \in 1..m : Append(Line, c)[k] = Line[k]
          /\ Append(Line, c)[m + 1] = c
      BY <1>1, <1>10, AppendProperties
    <3>2. m \in Nat
      BY <1>1
    <3>3. j \in 1..m \/ j = m + 1
      BY <3>2, Last
    <3> QED
      BY <1>8, <1>21, <3>1, <3>3
  <2>6. LineOK'
    BY <2>2, <2>3, <2>4, <2>5 DEF LineOK
  <2> QED
    BY <1>11, <1>14, <1>19, <1>21, <2>3, <2>6
<1> QED
  BY <1>20, <1>21

\* what backspacing over the edited line reads
LEMMA NoEnds ==
  ASSUME cons \in ConsType, LineOK
  PROVE  \A i \in 1..Edited : cons.buf[(cons.e - i) % INPUT_BUF] \notin Ends
<1> SUFFICES ASSUME NEW i \in 1..Edited PROVE cons.buf[(cons.e - i) % INPUT_BUF] \notin Ends
  OBVIOUS
<1> DEFINE m == Edited
           b == cons.buf
           w == cons.w
           e == cons.e
           j == m - i + 1
<1>1. /\ m \in 0..(UINT - 1) /\ e = (w + m) % UINT /\ Line = Text(b, w, m)
      /\ (e = w + m \/ e + UINT = w + m) /\ m <= INPUT_BUF
  <2>1. /\ m \in 0..(UINT - 1) /\ e = (w + m) % UINT /\ Line = Text(b, w, m)
    BY LinesAre
  <2>2. /\ w \in 0..(UINT - 1) /\ e \in 0..(UINT - 1) /\ UINT \in Nat \ {0}
    BY Sizes DEF ConsType
  <2>3. m = (e - w) % UINT
    BY DEF Edited
  <2>4. e = w + m \/ e + UINT = w + m
    BY <2>2, <2>3, GapIs
  <2>5. Filled \in 0..(UINT - 1) /\ Filled + m <= INPUT_BUF /\ INPUT_BUF \in Nat
    BY LinesAre, Sizes DEF LineOK
  <2>6. m <= INPUT_BUF
    <3> HIDE DEF m
    <3> QED
      BY <2>1, <2>5
  <2> QED
    BY <2>1, <2>4, <2>6
<1>2. /\ w \in 0..(UINT - 1) /\ e \in 0..(UINT - 1) /\ b \in [BufSlots -> Texts]
      /\ UINT \in Nat \ {0} /\ INPUT_BUF \in Nat \ {0} /\ i \in 1..m
  BY Sizes DEF ConsType
<1>3. \A k \in 1..m : Line[k] \notin Ends
  BY DEF LineOK
<1> HIDE DEF m, b, w, e
<1>4. j \in 1..m /\ m \in Nat
  BY <1>1, <1>2
<1>5. Line[j] = b[(w + j - 1) % INPUT_BUF]
  <2> HIDE DEF j
  <2> QED
    BY <1>1, <1>2, <1>4, TextIs
<1>6. w + j - 1 = (w + m) - i
  BY <1>1, <1>2
<1>7. (e - i) % INPUT_BUF = (w + j - 1) % INPUT_BUF
  <2>1. CASE e = w + m
    <3>1. e - i = w + j - 1
      BY <1>2, <1>4, <1>6, <2>1
    <3> QED
      BY <3>1
  <2>2. CASE e + UINT = w + m
    <3> DEFINE q == UINT \div INPUT_BUF
               y == (e - i) % INPUT_BUF
               p == (e - i) \div INPUT_BUF
               u == w + j - 1
    <3>1. q \in Int /\ UINT = INPUT_BUF * q + (UINT % INPUT_BUF)
      BY <1>2
    <3>2. UINT % INPUT_BUF = 0
      BY ConsoleAssumption
    <3>3. e - i \in Int /\ u \in Int /\ u = (e - i) + UINT
      BY <1>2, <1>4, <1>6, <2>2
    <3>4. y \in 0..(INPUT_BUF - 1) /\ p \in Int /\ e - i = INPUT_BUF * p + y
      BY <1>2, <3>3
    <3> HIDE DEF q, y, p, u
    <3>5. p + q \in Int /\ (p + q) * INPUT_BUF = INPUT_BUF * p + INPUT_BUF * q
      BY <1>2, <3>1, <3>4
    <3>6. u = (p + q) * INPUT_BUF + y
      BY <1>2, <3>1, <3>2, <3>3, <3>4, <3>5
    <3>7. u % INPUT_BUF = y
      <4> DEFINE t == p + q
      <4>1. t \in Int /\ u = t * INPUT_BUF + y
        BY <3>5, <3>6
      <4> HIDE DEF t
      <4> QED
        BY <1>2, <3>3, <3>4, <4>1, ModUnique
    <3> QED
      BY <3>7 DEF y, u
  <2> QED
    BY <1>1, <2>1, <2>2
<1> QED
  BY <1>3, <1>4, <1>5, <1>7 DEF b, e

\* a step that leaves cons alone
LEMMA LinesSame ==
  ASSUME LineOK, cons' = cons
  PROVE  LineOK' /\ UNCHANGED <<Input, Line>>
<1>1. Input' = Input /\ Line' = Line /\ Filled' = Filled /\ Edited' = Edited
  BY DEF Input, Line, Chars, Filled, Edited
<1> QED
  BY <1>1 DEF LineOK

\* the steps of the line input
LinesNext == L!Next({"a", "nl", "^D"}, "^D")

\* a key is a step of the line input, or does nothing
LEMMA KeyLines ==
  ASSUME cons \in ConsType, LineOK, NEW c \in {"a", "nl", "^D", "^H", "^U"}, Edit(c)
  PROVE  LineOK' /\ (LinesNext \/ UNCHANGED <<Input, Line>>)
<1>1. \/ cons' = cons
      \/ Stored(c)
      \/ c = "^H" /\ cons.e # cons.w /\ Shortened(1)
      \/ c = "^U" /\ \E k \in Erased : (\A j \in Erased : j <= k) /\ Shortened(k)
  BY EditCases
<1>2. /\ Line \in Seq(Texts) /\ Len(Line) = Edited /\ Edited \in 0..(UINT - 1)
      /\ cons.e = (cons.w + Edited) % UINT /\ Line = Text(cons.buf, cons.w, Edited)
  BY LinesAre
<1>3. /\ cons.w \in 0..(UINT - 1) /\ cons.e \in 0..(UINT - 1) /\ cons.buf \in [BufSlots -> Texts]
      /\ UINT \in Nat \ {0}
  BY Sizes DEF ConsType
<1>4. CASE cons' = cons
  BY <1>4, LinesSame
<1>5. CASE Stored(c)
  <2>1. c \in {"a", "nl", "^D"}
    BY <1>5 DEF Stored
  <2>2. /\ LineOK' /\ Len(Input) + Len(Line) < INPUT_BUF
        /\ (c \in Ends \/ Len(Input) + Len(Line) + 1 = INPUT_BUF)
             => Input' = Input \o Append(Line, c) /\ Line' = <<>>
        /\ ~(c \in Ends \/ Len(Input) + Len(Line) + 1 = INPUT_BUF)
             => Input' = Input /\ Line' = Append(Line, c)
    BY <1>5, <2>1, LinesStored
  <2>3. L!Type(c)
    BY <2>2 DEF L!Type
  <2> QED
    BY <2>1, <2>2, <2>3 DEF LinesNext, L!Next
<1>6. CASE c = "^H" /\ cons.e # cons.w /\ Shortened(1)
  <2>1. Edited # 0
    <3>1. SUFFICES ASSUME Edited = 0 PROVE cons.e = cons.w
      BY <1>6
    <3>2. cons.e = (cons.w + 0) % UINT
      BY <1>2, <3>1
    <3>3. (cons.w + 0) % UINT = cons.w
      <4>1. cons.w + 0 = cons.w
        BY <1>3
      <4>2. cons.w \in Int
        BY <1>3
      <4> QED
        BY <1>3, <4>1, <4>2, ModIs
    <3> QED
      BY <3>2, <3>3
  <2>2. 1 \in 0..Edited
    BY <1>2, <2>1
  <2>3. LineOK' /\ Input' = Input /\ Line' = SubSeq(Line, 1, Len(Line) - 1)
    BY <1>6, <2>2, LinesShortened
  <2>4. Line # <<>>
    BY <1>2, <2>1
  <2>5. L!Erase
    BY <2>3, <2>4 DEF L!Erase
  <2> QED
    BY <2>3, <2>5 DEF LinesNext, L!Next
<1>7. CASE c = "^U" /\ \E k \in Erased : (\A j \in Erased : j <= k) /\ Shortened(k)
  <2>1. PICK k \in Erased : (\A j \in Erased : j <= k) /\ Shortened(k)
    BY <1>7
  <2>2. Edited \in Erased
    <3>1. Edited \in 0..Edited
      BY <1>2
    <3>2. ASSUME NEW i \in 1..Edited PROVE cons.buf[(cons.e - i) % INPUT_BUF] # "nl"
      BY <3>2, NoEnds DEF Ends
    <3> QED
      BY <3>1, <3>2 DEF Erased, Edited
  <2>3. k = Edited
    <3>1. k \in 0..Edited /\ Edited <= k
      BY <2>1, <2>2 DEF Erased, Edited
    <3> QED
      BY <1>2, <3>1
  <2>4. k \in 0..Edited
    BY <1>2, <2>3
  <2>5. LineOK' /\ Input' = Input /\ Line' = SubSeq(Line, 1, Len(Line) - k)
    BY <2>1, <2>4, LinesShortened
  <2>6. SubSeq(Line, 1, Len(Line) - k) = <<>>
    <3>1. Len(Line) - k = 0
      BY <1>2, <2>3
    <3>2. SubSeq(Line, 1, 0) = <<>>
      BY SubSeqEmpty
    <3> QED
      BY <3>1, <3>2
  <2>7. L!KillLine
    BY <2>5, <2>6 DEF L!KillLine
  <2> QED
    BY <2>5, <2>7 DEF LinesNext, L!Next
<1> QED
  BY <1>1, <1>4, <1>5, <1>6, <1>7

\* a read is a step of the line input, or takes nothing
LEMMA ReadLines ==
  ASSUME cons \in ConsType, LineOK, NEW h \in Harts, proc[h].n \in Nat, proc[h].got \in Nat, consoleread(h)
  PROVE  LineOK' /\ (LinesNext \/ UNCHANGED <<Input, Line>>)
<1>1. /\ Input \in Seq(Texts) /\ Len(Input) = Filled /\ Filled \in 0..(UINT - 1)
  BY LinesAre
<1>2. PICK k \in 1..proc[h].n :
        /\ k <= Len(Input) /\ \A i \in 1..(k - 1) : Input[i] \notin Ends
        /\ \/ /\ Input[k] = "^D" /\ SaveEof(k, proc[h].got)
              /\ cons' = [cons EXCEPT !.r = (cons.r + k - 1) % UINT]
           \/ /\ ~(Input[k] = "^D" /\ SaveEof(k, proc[h].got))
              /\ cons' = [cons EXCEPT !.r = (cons.r + k - 0) % UINT]
  BY DEF consoleread
<1>3. k \in Nat /\ k \in 1..Filled /\ k - 1 \in 0..Filled /\ k \in 0..Filled
  BY <1>1, <1>2
<1>4. cons.r \in Nat
  BY DEF ConsType
<1>5. CASE /\ Input[k] = "^D" /\ SaveEof(k, proc[h].got)
           /\ cons' = [cons EXCEPT !.r = (cons.r + k - 1) % UINT]
  <2> DEFINE j == k - 1
  <2>1. j \in 0..Filled /\ cons.r + k - 1 = cons.r + j
    BY <1>3, <1>4
  <2>2. cons' = [cons EXCEPT !.r = (cons.r + j) % UINT]
    BY <1>5, <2>1
  <2>3. \A i \in 1..j : Input[i] \notin Ends
    BY <1>2
  <2> HIDE DEF j
  <2>4. LineOK' /\ Input' = SubSeq(Input, j + 1, Len(Input)) /\ Line' = Line
    BY <2>1, <2>2, LinesTaken
  <2>5. CASE j = 0
    <3>1. SubSeq(Input, 1, Len(Input)) = Input
      BY <1>1, SubSeqFull
    <3>2. j + 1 = 1
      BY <2>5
    <3> QED
      BY <2>4, <3>1, <3>2
  <2>6. CASE j # 0
    <3>1. j \in 1..Len(Input) /\ \A i \in 1..(j - 1) : i \in 1..j
      BY <1>1, <2>1, <2>6
    <3>2. j \in 1..j
      BY <3>1
    <3>3. Input[j] # "^D"
      BY <2>3, <3>2 DEF Ends
    <3>4. L!Read("^D")
      BY <2>3, <2>4, <3>1, <3>3 DEF L!Read
    <3> QED
      BY <2>4, <3>4 DEF LinesNext, L!Next
  <2> QED
    BY <2>5, <2>6
<1>6. CASE /\ ~(Input[k] = "^D" /\ SaveEof(k, proc[h].got))
           /\ cons' = [cons EXCEPT !.r = (cons.r + k - 0) % UINT]
  <2>1. cons.r + k - 0 = cons.r + k
    BY <1>3, <1>4
  <2>2. cons' = [cons EXCEPT !.r = (cons.r + k) % UINT]
    BY <1>6, <2>1
  <2>3. LineOK' /\ Input' = SubSeq(Input, k + 1, Len(Input)) /\ Line' = Line
    BY <1>3, <2>2, LinesTaken
  <2>4. k > 1 => Input[k] # "^D"
    BY <1>6 DEF SaveEof
  <2>5. k \in 1..Len(Input)
    BY <1>1, <1>3
  <2>6. L!Read("^D")
    BY <1>2, <2>3, <2>4, <2>5 DEF L!Read
  <2> QED
    BY <2>3, <2>6 DEF LinesNext, L!Next
<1> QED
  BY <1>2, <1>5, <1>6

\* only consoleread() and consoleintr() touch cons
LEMMA ConsKept ==
  ASSUME Inv, [Next]_vars
  PROVE  cons' = cons \/ \E h \in Harts : consoleread(h) \/ consoleintr(h)
<1>1. ASSUME NEW h \in Harts, Calls(h) PROVE cons' = cons \/ consoleread(h)
  <2>1. CASE read_wait(h) \/ read_end(h) \/ write_end(h)
    BY <2>1, EndStep
  <2>2. CASE sys_sleep(h)
    BY <2>2, NapStep
  <2>3. CASE put_wait(h)
    BY <2>3 DEF put_wait, sleep, Panic
  <2> QED
    BY <1>1, <2>1, <2>2, <2>3 DEF Calls, consolewrite, uartputc, sleep_begin, resume
<1>2. ASSUME NEW h \in Harts, Steps(h) PROVE cons' = cons \/ consoleintr(h)
  <2>1. CASE Handlers(h)
    BY <2>1 DEF Handlers, plic_claim, uartgetc, uartputc_sync, sync_thr, consoleintr_end, plic_complete,
                clockintr, w_sip, procdump
  <2> QED
    BY <1>2, <2>1 DEF Steps, spin, uartstart, uartstart_thr, uartstart_end, printf, printf_end
<1>3. ASSUME NEW h \in Harts, syscall(h) \/ devintr(h) \/ softintr(h) \/ kill(h) PROVE cons' = cons
  BY <1>3 DEF syscall, Enter, devintr, softintr, kill
<1>4. CASE receive \/ transmit \/ timer \/ Halted \/ UNCHANGED vars
  BY <1>4 DEF receive, transmit, timer, Halted, vars
<1> QED
  BY <1>1, <1>2, <1>3, <1>4 DEF Next

\* a step of the console is one of the line input, or leaves it alone
LEMMA NextLines ==
  ASSUME Inv, LineOK, [Next]_vars
  PROVE  LineOK' /\ (LinesNext \/ UNCHANGED <<Input, Line>>)
<1>1. cons \in ConsType
  BY DEF Inv, Typed, ConsType
<1>2. CASE cons' = cons
  BY <1>2, LinesSame
<1>3. ASSUME NEW h \in Harts, consoleread(h) PROVE LineOK' /\ (LinesNext \/ UNCHANGED <<Input, Line>>)
  <2>1. proc[h].n \in Nat /\ proc[h].got \in Nat
    BY HartIs, ProcFields
  <2> QED
    BY <1>1, <1>3, <2>1, ReadLines
<1>4. ASSUME NEW h \in Harts, consoleintr(h) PROVE LineOK' /\ (LinesNext \/ UNCHANGED <<Input, Line>>)
  <2>1. PICK c \in {"a", "nl", "^D", "^H", "^U"} : Edit(c)
    BY <1>4, IntrStep
  <2> QED
    BY <1>1, <2>1, KeyLines
<1> QED
  BY <1>2, <1>3, <1>4, ConsKept

\* the ring is empty at first
LEMMA InitLines == Init => LineOK /\ L!Init
<1> SUFFICES ASSUME Init PROVE LineOK /\ L!Init
  OBVIOUS
<1>1. cons.r = 0 /\ cons.w = 0 /\ cons.e = 0
  BY DEF Init
<1>2. (0 - 0) % UINT = 0
  <2>1. UINT \in Nat \ {0} /\ 0 \in 0..(UINT - 1) /\ 0 = 0 + 0
    BY Sizes
  <2> QED
    BY <2>1, GapUnique
<1>3. Filled = 0 /\ Edited = 0
  BY <1>1, <1>2 DEF Filled, Edited
<1>4. Input = <<>> /\ Line = <<>>
  BY <1>1, <1>2 DEF Input, Line, Chars
<1>5. 0 + 0 <= INPUT_BUF
  BY Sizes
<1>6. LineOK
  BY <1>3, <1>5 DEF LineOK
<1> QED
  BY <1>4, <1>6 DEF L!Init

\* Readers get lines: cons.buf with its three free-running indices implements LineInput, an
\* editable line and a queue of the characters of ended lines.  consoleintr() drops no line
\* that was ended and lets no reader see one that is still edited; consoleread() takes no more
\* than to the end of the first line.  kernel/console.c.
THEOREM ConsoleLines == Spec => LinesSpec
<1>1. Init => Inv /\ LineOK /\ L!Init
  BY InitInv, InitLines
<1>2. Inv /\ LineOK /\ [Next]_vars => Inv' /\ LineOK'
  BY NextInv, NextLines
<1>3. Inv /\ LineOK /\ [Next]_vars => [L!Next({"a", "nl", "^D"}, "^D")]_<<Input, Line>>
  BY NextLines DEF LinesNext
<1> QED
  BY <1>1, <1>2, <1>3, PTL DEF Spec, LinesSpec
=============================================================================
