------------------------------- MODULE Console -------------------------------
(* The console, the UART and the clock, with the interrupts that drive them:
   src/kernel/console.c, src/kernel/uart.c, src/kernel/spinlock.c,
   src/kernel/plic.c, devintr() and clockintr() of src/kernel/trap.c and
   sys_sleep() of src/kernel/sysproc.c, and printf() of src/kernel/printf.c,
   which writes to the UART as well.

   Process h runs on hart h.  A hart executes its process, or on top of it an
   interrupt handler; acquire() is two steps, push_off() and the swap, so that
   what interrupts may come in between is visible.  Between two of these steps
   the code that holds a lock is one step.  sleep() and the scheduler are what
   Sched shows them to be: one step, and interrupts on while the hart idles.
   The sending of a character waits for the UART as the code does, by reading
   LSR first and writing THR later.                                         *)
EXTENDS Integers, Sequences, FiniteSets

CONSTANTS Harts,            \* harts and their processes, numbers from 1
          INPUT_BUF,        \* characters in cons.buf
          UART_TX_BUF_SIZE, \* slots of uart_tx_buf, one of them always empty
          UINT,             \* 2^w for the width w of an unsigned int
          Naps,             \* arguments of sleep()
          Workloads         \* what the harts do: [calls, lens, keys, timer]

ASSUME ConsoleAssumption ==
  /\ 1 \in Harts /\ 0 \notin Harts /\ INPUT_BUF \in Nat \ {0} /\ UART_TX_BUF_SIZE \in Nat \ {0, 1}
  /\ UINT \in Nat /\ UINT % INPUT_BUF = 0 /\ UINT > INPUT_BUF
  /\ Naps \subseteq Int
  /\ \A w \in Workloads :
       /\ DOMAIN w.calls \subseteq Harts /\ w.lens \subseteq Nat
       /\ w.keys \subseteq {"a", "cr", "nl", "^D", "^H", "^U", "^P", "kill"}

VARIABLES work,     \* the workload
          cons,     \* buf, r, w, e
          tx,       \* uart_tx_r, uart_tx_w; what is sent does not matter
          lock,     \* "cons", "tx", "ticks", "pr" -> the hart that holds it, or 0
          ticks,
          hart,     \* noff, intena, SIE, the lock it spins for, its handler
          proc,     \* the process of the hart
          uart,     \* rx: the received character or "none"; thr: characters in THR;
                    \* pr: one of them is printf()'s
          plic,     \* pending and the hart that has claimed, or 0
          sip,      \* a clock interrupt is pending
          panicked

vars == <<work, cons, tx, lock, ticks, hart, proc, uart, plic, sip, panicked>>

Ends      == {"nl", "^D"}
BufSlots  == 0..(INPUT_BUF - 1)
Slots     == 0..(UART_TX_BUF_SIZE - 1)

InUser == [pc |-> "user", state |-> "run", chan |-> "none", intena |-> TRUE, n |-> 0,
           got |-> 0, t0 |-> 0, since |-> 0, killed |-> FALSE]

Init ==
  /\ work \in Workloads
  /\ cons = [buf |-> [i \in BufSlots |-> "none"], r |-> 0, w |-> 0, e |-> 0]
  /\ tx = [r |-> 0, w |-> 0]
  /\ lock = [k \in {"cons", "tx", "ticks", "pr"} |-> 0]
  /\ ticks = UINT - 1
  /\ hart = [h \in Harts |-> [noff |-> 0, intena |-> FALSE, sie |-> TRUE, want |-> "none",
                              trap |-> "none", c |-> "none", echo |-> 0]]
  /\ proc = [h \in Harts |-> InUser]
  /\ uart = [rx |-> "none", thr |-> 0, pr |-> FALSE]
  /\ plic = [pending |-> FALSE, claimed |-> 0]
  /\ sip = FALSE
  /\ panicked = "none"

-----------------------------------------------------------------------------
(* spinlock.c                                                              *)

(* Mutant: interrupts stay on.                                             *)
push_off_on(x) == [x EXCEPT !.noff = @ + 1, !.intena = IF x.noff = 0 THEN x.sie ELSE @]

push_off(x) == [x EXCEPT !.noff = @ + 1, !.intena = IF x.noff = 0 THEN x.sie ELSE @,
                         !.sie = FALSE]
pop_off(x)  == [x EXCEPT !.noff = @ - 1, !.sie = x.noff = 1 /\ x.intena]

pop_off_panics(x) == IF x.sie THEN "pop_off - interruptible"
                     ELSE IF x.noff < 1 THEN "pop_off" ELSE "none"

(* Where the hart executes, and that it does.                              *)
Here(h) == IF hart[h].trap = "none" THEN proc[h].pc ELSE hart[h].trap

At(h, l) ==
  /\ panicked = "none" /\ hart[h].want = "none" /\ Here(h) = l
  /\ hart[h].trap # "none" \/ proc[h].state = "run"

(* The hart becomes x and goes on at l; the processes are procs before that. *)
Go(h, x, l, procs) ==
  IF hart[h].trap = "none" THEN /\ hart' = [hart EXCEPT ![h] = x]
                            /\ proc' = [procs EXCEPT ![h].pc = l]
  ELSE /\ hart' = [hart EXCEPT ![h] = [x EXCEPT !.trap = l]]
       /\ proc' = procs

Panic(msg) ==
  /\ panicked' = msg
  /\ UNCHANGED <<work, cons, tx, lock, ticks, hart, proc, uart, plic, sip>>

(* acquire(): interrupts off, then spin; the hart is at l once it has the lock. *)
acquire(h, k, x, l, procs) ==
  IF lock[k] = h THEN panicked' = "acquire" /\ UNCHANGED <<hart, proc>>
  ELSE /\ Go(h, [push_off(x) EXCEPT !.want = k], l, procs)
       /\ UNCHANGED panicked

spin(h) ==
  /\ panicked = "none" /\ hart[h].want # "none" /\ lock[hart[h].want] = 0
  /\ lock' = [lock EXCEPT ![hart[h].want] = h]
  /\ hart' = [hart EXCEPT ![h].want = "none"]
  /\ UNCHANGED <<work, cons, tx, ticks, proc, uart, plic, sip, panicked>>

release(h, k, l, procs) ==
  LET msg == IF lock[k] # h THEN "release" ELSE pop_off_panics(hart[h]) IN
  IF msg # "none" THEN panicked' = msg /\ UNCHANGED <<lock, hart, proc>>
  ELSE /\ lock' = [lock EXCEPT ![k] = 0]
       /\ Go(h, pop_off(hart[h]), l, procs)
       /\ UNCHANGED panicked

-----------------------------------------------------------------------------
(* proc.c: sleep() on the channel of lock k, and wakeup()                   *)

sleep(h, k) ==
  IF hart[h].noff # 1 THEN Panic("sched locks")
  ELSE /\ lock' = [lock EXCEPT ![k] = 0]
       /\ proc' = [proc EXCEPT ![h].state = "asleep", ![h].chan = k,
                               ![h].intena = hart[h].intena]
       /\ hart' = [hart EXCEPT ![h].noff = 0, ![h].sie = TRUE]
       /\ UNCHANGED <<work, cons, tx, ticks, uart, plic, sip, panicked>>

wakeup(procs, k) ==
  [h \in Harts |-> IF procs[h].state = "asleep" /\ procs[h].chan = k
                   THEN [procs[h] EXCEPT !.state = "woken"] ELSE procs[h]]

(* The process runs again: sched() restores intena, sleep() takes the lock. *)
resume(h) ==
  /\ panicked = "none" /\ hart[h].trap = "none" /\ proc[h].state = "woken"
  /\ hart' = [hart EXCEPT ![h] = [push_off([@ EXCEPT !.sie = proc[h].intena])
                                    EXCEPT !.want = proc[h].chan]]
  /\ proc' = [proc EXCEPT ![h].state = "run", ![h].chan = "none"]
  /\ UNCHANGED <<work, cons, tx, lock, ticks, uart, plic, sip, panicked>>

kill(h) ==
  /\ panicked = "none" /\ "kill" \in work.keys /\ ~proc[h].killed /\ proc[h].pc # "user"
  /\ proc' = [proc EXCEPT ![h].killed = TRUE,
                          ![h].state = IF @ = "asleep" THEN "woken" ELSE @]
  /\ UNCHANGED <<work, cons, tx, lock, ticks, hart, uart, plic, sip, panicked>>

(* Back in user space; a process that was killed would exit, and another one
   takes its place.                                                        *)
User(h) == [proc EXCEPT ![h] = InUser]


-----------------------------------------------------------------------------
(* System calls                                                            *)

(* acquire() by a call that begins: to pc l with argument n.                *)
Enter(h, k, l, n) ==
  /\ acquire(h, k, hart[h], l, [proc EXCEPT ![h].n = n])
  /\ UNCHANGED <<work, cons, tx, lock, ticks, uart, plic, sip>>

(* A system call; printf() is called when its number is unknown.              *)
syscall(h) ==
  /\ h \in DOMAIN work.calls /\ At(h, "user")
  /\ \/ "read"  \in work.calls[h] /\ \E n \in work.lens : Enter(h, "cons", "read", n)
     \/ "write" \in work.calls[h] /\ \E n \in work.lens : Enter(h, "cons", "write", n)
     \/ "sleep" \in work.calls[h] /\ \E n \in Naps : Enter(h, "ticks", "sleep", n % UINT)
     \/ "printf" \in work.calls[h] /\ Enter(h, "pr", "printf", 0)

(* The end of a call that holds lock k.                                    *)
Return(h, k) ==
  /\ release(h, k, "user", User(h))
  /\ UNCHANGED <<work, cons, tx, ticks, uart, plic, sip>>

(* The characters of ended lines, and the line that is being edited.        *)
Chars(i, j) == [k \in 1..((j - i) % UINT) |-> cons.buf[(i + k - 1) % INPUT_BUF]]
Input == Chars(cons.r, cons.w)
Line  == Chars(cons.w, cons.e)

(* consoleread(): no input yet.                                            *)
read_wait(h) ==
  /\ At(h, "read") /\ proc[h].n > 0 /\ cons.r = cons.w
  /\ IF proc[h].killed THEN Return(h, "cons") ELSE sleep(h, "cons")

(* Mutant: control-D is taken although something was read before it.        *)
SaveEof_lost(k, got) == FALSE

(* cons.r-- for a control-D that is the k-th character now and not the first
   of the call.                                                            *)
SaveEof(k, got) == k > 1 \/ got > 0

(* consoleread(): up to the end of a line, of the buffer or of the input, or to
   the character that copyout() cannot store.                               *)
consoleread(h) ==
  /\ At(h, "read") /\ proc[h].n > 0 /\ cons.r # cons.w
  /\ \E fault \in BOOLEAN, k \in 1..proc[h].n :
       /\ k <= Len(Input)
       /\ \A i \in 1..(k - 1) : Input[i] \notin Ends
       /\ fault \/ Input[k] \in Ends \/ k = proc[h].n \/ k = Len(Input)
       /\ LET kept == Input[k] = "^D" /\ SaveEof(k, proc[h].got)
              more == ~fault /\ Input[k] \notin Ends /\ k < proc[h].n
          IN /\ cons' = [cons EXCEPT !.r = (@ + k - (IF kept THEN 1 ELSE 0)) % UINT]
             /\ IF more
                THEN /\ proc' = [proc EXCEPT ![h].n = @ - k, ![h].got = @ + k]
                     /\ UNCHANGED <<lock, hart, panicked>>
                ELSE release(h, "cons", "user", User(h))
  /\ UNCHANGED <<work, tx, ticks, uart, plic, sip>>

read_end(h) == At(h, "read") /\ proc[h].n = 0 /\ Return(h, "cons")

(* consolewrite(): the next character, unless copyin() fails.               *)
consolewrite(h) ==
  /\ At(h, "write") /\ proc[h].n > 0
  /\ acquire(h, "tx", hart[h], "put", [proc EXCEPT ![h].n = @ - 1])
  /\ UNCHANGED <<work, cons, tx, lock, ticks, uart, plic, sip>>

write_end(h) == At(h, "write") /\ Return(h, "cons")

(* uartputc(): wait for room, put the character into the ring.              *)
Full == (tx.w + 1) % UART_TX_BUF_SIZE = tx.r

put_wait(h) == At(h, "put") /\ Full /\ sleep(h, "tx")

uartputc(h) ==
  /\ At(h, "put") /\ ~Full
  /\ tx' = [tx EXCEPT !.w = (@ + 1) % UART_TX_BUF_SIZE]
  /\ Go(h, hart[h], "start", proc)
  /\ UNCHANGED <<work, cons, lock, ticks, uart, plic, sip, panicked>>

(* uartstart(), from uartputc() and from uartintr(): take a character when the
   UART is idle, write THR.                                                *)
Idle == uart.thr = 0                                            \* LSR_TX_IDLE

uartstart(h) ==
  /\ At(h, "start") /\ tx.w # tx.r /\ Idle
  /\ tx' = [tx EXCEPT !.r = (@ + 1) % UART_TX_BUF_SIZE]
  /\ Go(h, hart[h], "thr", wakeup(proc, "tx"))
  /\ UNCHANGED <<work, cons, lock, ticks, uart, plic, sip, panicked>>

uartstart_thr(h) ==
  /\ At(h, "thr")
  /\ uart' = [uart EXCEPT !.thr = @ + 1]
  /\ Go(h, hart[h], "start", proc)
  /\ UNCHANGED <<work, cons, tx, lock, ticks, plic, sip, panicked>>

uartstart_end(h) ==
  /\ At(h, "start") /\ (tx.w = tx.r \/ ~Idle)
  /\ release(h, "tx", IF hart[h].trap = "none" THEN "write" ELSE "complete", proc)
  /\ UNCHANGED <<work, cons, tx, ticks, uart, plic, sip>>

(* sys_sleep(): t0 is read when the lock is first held, got says that it was. *)
sleep_begin(h) ==
  /\ At(h, "sleep") /\ proc[h].got = 0
  /\ proc' = [proc EXCEPT ![h].t0 = ticks, ![h].got = 1]
  /\ UNCHANGED <<work, cons, tx, lock, ticks, hart, uart, plic, sip, panicked>>

(* Mutant: the comparison of ticks with the time to wake up at.             *)
Early_absolute(h) == ticks < (proc[h].t0 + proc[h].n) % UINT

Early(h) == (ticks - proc[h].t0) % UINT < proc[h].n

sys_sleep(h) ==
  /\ At(h, "sleep") /\ proc[h].got = 1
  /\ IF Early(h) /\ ~proc[h].killed THEN sleep(h, "ticks") ELSE Return(h, "ticks")

-----------------------------------------------------------------------------
(* Interrupts: trap.c, plic.c and the devices                               *)

Trap(x, l) == [x EXCEPT !.sie = FALSE, !.trap = l]

(* A hart with interrupts on takes an external interrupt; plic_claim() gives it
   to one hart, and nothing to the others.                                  *)
devintr(h) ==
  /\ panicked = "none" /\ h \in DOMAIN work.calls
  /\ hart[h].sie /\ hart[h].trap = "none" /\ plic.pending /\ plic.claimed = 0
  /\ hart' = [hart EXCEPT ![h] = Trap(@, "claim")]
  /\ UNCHANGED <<work, cons, tx, lock, ticks, proc, uart, plic, sip, panicked>>

(* sret: the hart goes on with what was interrupted, and takes interrupts.  *)
sret(h) == hart' = [hart EXCEPT ![h].sie = TRUE, ![h].trap = "none", ![h].c = "none"]

plic_claim(h) ==
  /\ At(h, "claim")
  /\ IF plic.pending /\ plic.claimed = 0
     THEN /\ plic' = [pending |-> FALSE, claimed |-> h]
          /\ hart' = [hart EXCEPT ![h].trap = "getc"]
     ELSE sret(h) /\ UNCHANGED plic
  /\ UNCHANGED <<work, cons, tx, lock, ticks, proc, uart, sip, panicked>>

(* Mutant: the PLIC is not told that the interrupt was served.              *)
plic_complete_missing(h) ==
  /\ At(h, "complete") /\ sret(h)
  /\ UNCHANGED <<work, cons, tx, lock, ticks, proc, uart, plic, sip, panicked>>

plic_complete(h) ==
  /\ At(h, "complete")
  /\ plic' = [plic EXCEPT !.claimed = 0]
  /\ sret(h)
  /\ UNCHANGED <<work, cons, tx, lock, ticks, proc, uart, sip, panicked>>

(* uartintr(): every character that has arrived, then the output.           *)
uartgetc(h) ==
  /\ At(h, "getc")
  /\ uart' = [uart EXCEPT !.rx = "none"]
  /\ IF uart.rx = "none" THEN acquire(h, "tx", hart[h], "start", proc)
     ELSE acquire(h, "cons", [hart[h] EXCEPT !.c = uart.rx], "char", proc)
  /\ UNCHANGED <<work, cons, tx, lock, ticks, plic, sip>>

(* consoleintr(): what a key does to cons, and what it echoes: one character,
   however many the code sends one after the other.                         *)
Room   == (cons.e - cons.r) % UINT < INPUT_BUF
Erased == {k \in 0..((cons.e - cons.w) % UINT) :
             \A i \in 1..k : cons.buf[(cons.e - i) % INPUT_BUF] # "nl"}

Edit(c) ==
  LET e == (cons.e + 1) % UINT
      s == [cons EXCEPT !.buf[cons.e % INPUT_BUF] = c, !.e = e]
  IN CASE c = "^U" -> \E k \in Erased : /\ \A j \in Erased : j <= k
                                        /\ cons' = [cons EXCEPT !.e = (@ - k) % UINT]
       [] c = "^H" -> cons' = [cons EXCEPT !.e = IF @ = cons.w THEN @ ELSE (@ - 1) % UINT]
       [] OTHER -> cons' = IF ~Room THEN cons
                           ELSE IF c \in Ends \/ e = (cons.r + INPUT_BUF) % UINT
                           THEN [s EXCEPT !.w = e] ELSE s

Echo == IF cons'.e # cons.e THEN 1 ELSE 0

consoleintr(h) ==
  /\ At(h, "char") /\ hart[h].c # "^P"
  /\ LET c == IF hart[h].c = "cr" THEN "nl" ELSE hart[h].c IN
     /\ Edit(c)
     /\ Go(h, [hart[h] EXCEPT !.echo = Echo, !.c = "none"], "echo",
           IF cons'.w # cons.w THEN wakeup(proc, "cons") ELSE proc)
  /\ UNCHANGED <<work, tx, lock, ticks, uart, plic, sip, panicked>>

(* consoleintr(): control-P prints the process list, under pr.lock.         *)
procdump(h) ==
  /\ At(h, "char") /\ hart[h].c = "^P"
  /\ acquire(h, "pr", [hart[h] EXCEPT !.echo = 0, !.c = "none"], "printf", proc)
  /\ UNCHANGED <<work, cons, tx, lock, ticks, uart, plic, sip>>

(* uartputc_sync(), called by the echo: wait until the UART is idle, write THR. *)
uartputc_sync(h) ==
  /\ At(h, "echo") /\ hart[h].echo > 0 /\ Idle
  /\ Go(h, [hart[h] EXCEPT !.echo = @ - 1], "echo_thr", proc)
  /\ UNCHANGED <<work, cons, tx, lock, ticks, uart, plic, sip, panicked>>

sync_thr(h) ==
  /\ At(h, "echo_thr")
  /\ uart' = [uart EXCEPT !.thr = @ + 1]
  /\ Go(h, hart[h], "echo", proc)
  /\ UNCHANGED <<work, cons, tx, lock, ticks, plic, sip, panicked>>

(* printf(), from a system call and from procdump(): one character, however many
   there are, through the same uartputc_sync(), with no lock but pr.lock.    *)
printf(h) ==
  /\ At(h, "printf") /\ Idle
  /\ Go(h, hart[h], "printf_thr", proc)
  /\ UNCHANGED <<work, cons, tx, lock, ticks, uart, plic, sip, panicked>>

printf_end(h) ==
  /\ At(h, "printf_thr")
  /\ uart' = [uart EXCEPT !.thr = @ + 1, !.pr = TRUE]
  /\ IF hart[h].trap = "none" THEN release(h, "pr", "user", User(h))
     ELSE release(h, "pr", "echo", proc)
  /\ UNCHANGED <<work, cons, tx, ticks, plic, sip>>

consoleintr_end(h) ==
  /\ At(h, "echo") /\ hart[h].echo = 0
  /\ release(h, "cons", "getc", proc)
  /\ UNCHANGED <<work, cons, tx, ticks, uart, plic, sip>>

(* clockintr(), on the first hart only, and the end of its interrupt.       *)
softintr(h) ==
  /\ h = 1 /\ panicked = "none" /\ hart[h].sie /\ hart[h].trap = "none" /\ sip
  /\ IF lock["ticks"] = h THEN panicked' = "acquire" /\ UNCHANGED hart
     ELSE /\ hart' = [hart EXCEPT ![h] = [push_off(Trap(@, "tick")) EXCEPT !.want = "ticks"]]
          /\ UNCHANGED panicked
  /\ UNCHANGED <<work, cons, tx, lock, ticks, proc, uart, plic, sip>>

Napping(h) == proc[h].pc = "sleep" /\ proc[h].got = 1

clockintr(h) ==
  /\ At(h, "tick")
  /\ ticks' = (ticks + 1) % UINT
  /\ release(h, "ticks", "sip",
             wakeup([g \in Harts |-> IF Napping(g) THEN [proc[g] EXCEPT !.since = @ + 1]
                                     ELSE proc[g]], "ticks"))
  /\ UNCHANGED <<work, cons, tx, uart, plic, sip>>

w_sip(h) ==
  /\ At(h, "sip")
  /\ sip' = FALSE
  /\ sret(h)
  /\ UNCHANGED <<work, cons, tx, lock, ticks, proc, uart, plic, panicked>>

(* The devices: a key is pressed, a character has been sent, time passes.  Bound:
   a process that sleeps is not more than 2^w - 1 ticks late.                *)
receive ==
  /\ panicked = "none" /\ uart.rx = "none"
  /\ \E c \in work.keys \ {"kill"} : uart' = [uart EXCEPT !.rx = c]
  /\ plic' = [plic EXCEPT !.pending = TRUE]
  /\ UNCHANGED <<work, cons, tx, lock, ticks, hart, proc, sip, panicked>>

transmit ==
  /\ panicked = "none" /\ ~Idle
  /\ uart' = [uart EXCEPT !.thr = 0, !.pr = FALSE]
  /\ plic' = [plic EXCEPT !.pending = TRUE]
  /\ UNCHANGED <<work, cons, tx, lock, ticks, hart, proc, sip, panicked>>

timer ==
  /\ panicked = "none" /\ work.timer /\ ~sip
  /\ \A h \in Harts : proc[h].since < UINT - 1
  /\ sip' = TRUE
  /\ UNCHANGED <<work, cons, tx, lock, ticks, hart, proc, uart, plic, panicked>>

Halted == panicked # "none" /\ UNCHANGED vars

Calls(h) == \/ read_wait(h) \/ consoleread(h) \/ read_end(h)
            \/ consolewrite(h) \/ write_end(h) \/ put_wait(h) \/ uartputc(h)
            \/ sleep_begin(h) \/ sys_sleep(h) \/ resume(h)

Handlers(h) == \/ plic_claim(h) \/ uartgetc(h) \/ consoleintr(h) \/ procdump(h)
               \/ uartputc_sync(h) \/ sync_thr(h) \/ consoleintr_end(h) \/ plic_complete(h)
               \/ clockintr(h) \/ w_sip(h)

Steps(h) == spin(h) \/ uartstart(h) \/ uartstart_thr(h) \/ uartstart_end(h)
            \/ printf(h) \/ printf_end(h) \/ Handlers(h)

Next == \/ \E h \in Harts : syscall(h) \/ Calls(h) \/ Steps(h) \/ devintr(h) \/ softintr(h) \/ kill(h)
        \/ receive \/ transmit \/ timer \/ Halted

Spec == Init /\ [][Next]_vars

(* A hart executes the calls and handlers it has begun, the UART sends what it
   has, and an interrupt that stays pending is taken by some hart.           *)
Fairness ==
  /\ WF_vars(transmit)
  /\ \A h \in Harts : WF_vars(Calls(h) \/ Steps(h))
  /\ WF_vars(\E h \in Harts : devintr(h))

FairSpec == Spec /\ Fairness

-----------------------------------------------------------------------------
(* Properties                                                              *)

(* Type invariant: the indices stay in their widths, locks have harts.      *)
TypeOK ==
  /\ cons.r \in 0..(UINT - 1) /\ cons.w \in 0..(UINT - 1) /\ cons.e \in 0..(UINT - 1)
  /\ tx.r \in Slots /\ tx.w \in Slots /\ ticks \in 0..(UINT - 1)
  /\ \A k \in DOMAIN lock : lock[k] \in Harts \union {0}
  /\ \A h \in Harts : hart[h].noff \in 0..2 /\ proc[h].since \in 0..(UINT - 1)

(* push_off() and pop_off() match: the interrupts of a hart are off while it
   holds or spins for a lock and in a handler, and on again afterwards, so that
   no handler waits for a lock of the code it interrupted.                   *)
InterruptsMatched ==
  /\ panicked \in {"none", "sched locks"}
  /\ \A h \in Harts :
       /\ hart[h].noff = Cardinality({k \in DOMAIN lock : lock[k] = h})
                           + (IF hart[h].want = "none" THEN 0 ELSE 1)
       /\ hart[h].sie <=> (hart[h].noff = 0 /\ hart[h].trap = "none")

(* THR is written before the last character has left it only in a race with kernel
   printf(): consolewrite(), the echo of keys and the transmit interrupt read LSR
   first and write THR later, the echo under no lock of the UART, but cons.lock and
   the PLIC keep them apart.  A reader sleeps only when there is no line for it, a
   sleep(n) only while fewer than n ticks have passed, across the wrap of ticks, and
   the interrupts are matched.                                              *)
DevicesSafe ==
  /\ TypeOK
  /\ InterruptsMatched
  /\ uart.thr <= 1 \/ uart.pr
  /\ panicked = "none" => \A h \in Harts : proc[h].state = "asleep" =>
       /\ proc[h].chan = "cons" => cons.r = cons.w
       /\ proc[h].chan = "ticks" => proc[h].since < proc[h].n

(* A sleep(n) that was not killed ends after n ticks, not before.           *)
SleptEnough ==
  [][\A h \in Harts : (Napping(h) /\ ~proc[h].killed /\ proc'[h].pc = "user")
       => proc[h].since >= proc[h].n]_vars

(* Readers get lines: the ring with its three free-running indices is an editable
   line and a queue of ended lines.                                         *)
L == INSTANCE LineInput WITH Size <- INPUT_BUF, ready <- Input, line <- Line

LinesSpec == L!Init /\ [][L!Next({"a", "nl", "^D"}, "^D")]_<<Input, Line>>

(* When the calls have ended and no key is pressed any more, all output is sent:
   an interrupt that found the UART busy, the buffer empty or another hart in the
   handler is always followed by another one.                               *)
Quiet == uart.rx = "none" /\ \A h \in Harts : proc[h].pc = "user" \/ proc[h].state = "asleep"

OutputDrains == <>[]Quiet => []<>(tx.w = tx.r \/ panicked # "none")

(* What uart.c says of uartputc(): it blocks if the output buffer is full.  *)
NoPanic == panicked = "none"

(* What uart.c says of uartputc_sync(), "for use by kernel printf() and to echo
   characters": it writes THR when that is empty.                           *)
ThrEmpty == uart.thr <= 1
=============================================================================
