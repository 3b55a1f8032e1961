----------------------------- MODULE PipeProofs -----------------------------
(***************************************************************************)
(* kernel/pipe.c for any number of readers and writers, any ring size and  *)
(* any width of the counters that the ring size divides:                   *)
(*   PipeFreedOnce   the page is freed once, when nobody can use it        *)
(*   PipeSleepers    nobody is left asleep with something to do, if no     *)
(*                   writer is killed                                      *)
(*   PipeFifoSpec    the pipe implements a bounded first-in first-out      *)
(*                   queue                                                 *)
(* A killed writer leaves pipewrite() without waking the readers, and      *)
(* SleepersHaveReason fails then (MCPipeKillWriter.cfg).                   *)
(***************************************************************************)
EXTENDS Pipe, FiniteSetTheorems, SequenceTheorems, TLAPS

-----------------------------------------------------------------------------
(***************************************************************************)
(* The arithmetic of the ring: counters modulo M count what was put in and *)
(* taken out, and a counter modulo P is a place of the ring; P divides M.  *)
(***************************************************************************)
\* quotient and remainder are unique
LEMMA DivUnique ==
  ASSUME NEW P \in Nat \ {0}, NEW q \in Int, NEW r \in 0..(P - 1), NEW a \in Nat, a = q * P + r
  PROVE  a % P = r
<1>1. /\ a % P \in 0..(P - 1) /\ a \div P \in Int
      /\ a = P * (a \div P) + (a % P)
  OBVIOUS
<1> QED
  BY <1>1

\* a remainder below twice the modulus
LEMMA Wrap ==
  ASSUME NEW M \in Nat \ {0}, NEW x \in 0..(2 * M - 1)
  PROVE  x % M = IF x < M THEN x ELSE x - M
<1>1. CASE x < M
  <2>1. x = 0 * M + x /\ x \in 0..(M - 1) /\ x \in Nat
    BY <1>1
  <2> QED
    BY <1>1, <2>1, DivUnique
<1>2. CASE ~(x < M)
  <2>1. x = 1 * M + (x - M) /\ x - M \in 0..(M - 1) /\ x \in Nat
    BY <1>2
  <2> QED
    BY <1>2, <2>1, DivUnique
<1> QED
  BY <1>1, <1>2

\* a counter advances
LEMMA Advance ==
  ASSUME NEW M \in Nat \ {0}, NEW c \in 0..(M - 1)
  PROVE  /\ (c + 1) % M \in 0..(M - 1)
         /\ (c + 1) % M = IF c + 1 < M THEN c + 1 ELSE 0
<1> DEFINE x == c + 1
<1>1. x \in 0..(2 * M - 1)
  OBVIOUS
<1> HIDE DEF x
<1>2. x % M = IF x < M THEN x ELSE x - M
  BY <1>1, Wrap
<1> QED
  BY <1>2 DEF x

\* the distance from one counter to another
LEMMA Gap ==
  ASSUME NEW M \in Nat \ {0}, NEW r \in 0..(M - 1), NEW w \in 0..(M - 1)
  PROVE  /\ (w + M - r) % M \in 0..(M - 1)
         /\ (w + M - r) % M = IF r <= w THEN w - r ELSE w + M - r
<1> DEFINE x == w + M - r
<1>1. x \in 0..(2 * M - 1)
  OBVIOUS
<1> HIDE DEF x
<1>2. x % M = IF x < M THEN x ELSE x - M
  BY <1>1, Wrap
<1> QED
  BY <1>2 DEF x

\* places repeat with the size of the ring ...
LEMMA Periodic ==
  ASSUME NEW P \in Nat \ {0}, NEW a \in Nat, NEW k \in Nat
  PROVE  (a + k * P) % P = a % P
<1> DEFINE q == a \div P
           r == a % P
           s == q + k
           b == a + k * P
<1>1. q \in Int /\ r \in 0..(P - 1) /\ a = q * P + r
  OBVIOUS
<1> HIDE DEF q, r
<1>2. (q + k) * P = q * P + k * P
  BY <1>1
<1>3. k * P \in Nat
  OBVIOUS
<1>4. s \in Int /\ b \in Nat /\ b = s * P + r
  BY <1>1, <1>2, <1>3
<1> HIDE DEF s, b
<1>5. b % P = r
  BY <1>1, <1>4, DivUnique
<1> QED
  BY <1>5 DEF b, r

\* ... and differ less than a ring apart
LEMMA Apart ==
  ASSUME NEW P \in Nat \ {0}, NEW a \in Nat, NEW d \in 1..(P - 1)
  PROVE  (a + d) % P # a % P
<1> DEFINE q == a \div P
           s == (a + d) \div P
           m == a % P
<1>1. q \in Int /\ m \in 0..(P - 1) /\ a = q * P + m
  OBVIOUS
<1>2. s \in Int /\ a + d = s * P + ((a + d) % P)
  OBVIOUS
<1>3. SUFFICES ASSUME (a + d) % P = m PROVE FALSE
  OBVIOUS
<1>4. d = (s - q) * P
  BY <1>1, <1>2, <1>3
<1> HIDE DEF q, s
<1>5. CASE s - q >= 1
  <2>1. (s - q) * P >= P
    BY <1>1, <1>2, <1>5
  <2> QED
    BY <1>4, <2>1
<1>6. CASE s - q <= 0
  <2>1. (s - q) * P <= 0
    BY <1>1, <1>2, <1>6
  <2> QED
    BY <1>4, <2>1
<1> QED
  BY <1>1, <1>2, <1>5, <1>6

-----------------------------------------------------------------------------
(***************************************************************************)
(* The inductive invariant.                                                *)
(***************************************************************************)
\* where a process holds pi->lock
Critical == {"w_loop", "w_sleep", "r_loop", "r_copy", "r_sleep"}

WritePC == {"w_lock", "w_loop", "w_sleep", "w_asleep"}
ReadPC == {"r_lock", "r_loop", "r_copy", "r_sleep", "r_asleep"}

\* one process is between acquire() and release() at a time
Exclusive == \A p \in Procs : lock = p <=> pc[p] \in Critical

\* a process in pipewrite() or piperead() has its end open
Inside ==
  \A p \in Procs : /\ pc[p] \in WritePC => p \in Writers \cap fds
                   /\ pc[p] \in ReadPC => p \in Readers \cap fds

\* an end is closed when nobody has it open, by the one process that dropped the last
\* reference; the page is freed by the process that closed the second end
Ends ==
  /\ ~writeopen => fds \cap Writers = {}
  /\ ~readopen => fds \cap Readers = {}
  /\ \A p \in Procs : pc[p] = "close" =>
       /\ fds \cap End(p) = {}
       /\ IF p \in Writers THEN writeopen ELSE readopen
  /\ \A p, q \in Procs : pc[p] = "close" /\ pc[q] = "close" /\ End(p) = End(q) => p = q
  /\ \A p \in Procs : pc[p] = "kfree" => ~writeopen /\ ~readopen /\ ~freed
  /\ \A p, q \in Procs : pc[p] = "kfree" /\ pc[q] = "kfree" => p = q
  /\ freed => ~writeopen /\ ~readopen

Inv == TypeOK /\ Exclusive /\ Inside /\ Ends

\* the number of bytes in the ring
Count == (nwrite + UMOD - nread) % UMOD

\* the ring never holds more than it has places for
Bounded == Count <= PIPESIZE

\* somebody in its critical section will wake the readers, or the writers
Filling == \E p \in Procs : pc[p] = "w_loop"
Draining == \E p \in Procs : pc[p] = "r_copy"

\* no writer has been killed, and whoever sleeps, or is about to, has a reason or will be
\* woken before the lock is released
Asleep ==
  /\ \A p \in Writers : ~killed[p]
  /\ \A p \in Procs : pc[p] = "r_sleep" => Empty /\ writeopen
  /\ \A p \in Procs : pc[p] = "w_sleep" => Full /\ readopen
  /\ \A p \in Procs : pc[p] = "r_asleep" => writeopen /\ (Empty \/ Filling)
  /\ \A p \in Procs : pc[p] = "w_asleep" => readopen /\ (Full \/ Draining)

-----------------------------------------------------------------------------
(***************************************************************************)
(* The arithmetic of the counters and of the ring.                         *)
(***************************************************************************)
\* the ring is smaller than the range of the counters
LEMMA Sizes == PIPESIZE \in Nat \ {0} /\ UMOD \in Nat \ {0} /\ PIPESIZE < UMOD
<1>1. PICK k \in 2..UMOD : UMOD = k * PIPESIZE
  BY PipeAssumption
<1>2. k * PIPESIZE >= 2 * PIPESIZE
  BY <1>1, PipeAssumption
<1> QED
  BY <1>1, <1>2, PipeAssumption

\* the place of a byte in the ring survives the wrapping of the counter
LEMMA RingWrap ==
  ASSUME NEW a \in Nat
  PROVE  (a + UMOD) % PIPESIZE = a % PIPESIZE
<1>1. PICK k \in 2..UMOD : UMOD = k * PIPESIZE
  BY PipeAssumption
<1>2. k \in Nat
  BY <1>1
<1>3. (a + k * PIPESIZE) % PIPESIZE = a % PIPESIZE
  BY <1>2, Sizes, Periodic
<1> QED
  BY <1>1, <1>3

\* the counters stay in their range
LEMMA Counter ==
  ASSUME NEW c \in 0..(UMOD - 1)
  PROVE  /\ (c + 1) % UMOD \in 0..(UMOD - 1)
         /\ (c + 1) % UMOD = IF c + 1 < UMOD THEN c + 1 ELSE 0
BY Sizes, Advance

-----------------------------------------------------------------------------
(***************************************************************************)
(* Every action preserves the invariant.                                   *)
(***************************************************************************)
\* a system call
LEMMA SyscallSafe ==
  ASSUME Inv, NEW p \in Procs, NEW k \in 0..MaxN, syscall(p, k)
  PROVE  Inv'
<1> USE PipeAssumption DEF Inv, syscall, pipeVars
<1>1. TypeOK'
  BY Sizes, Counter DEF TypeOK
<1>2. Exclusive'
  BY DEF TypeOK, Exclusive, Critical
<1>3. Inside'
  BY DEF TypeOK, Inside, WritePC, ReadPC, Procs
<1>4. Ends'
  BY DEF TypeOK, Inside, WritePC, ReadPC, Ends, End, Procs
<1> QED
  BY <1>1, <1>2, <1>3, <1>4

\* acquire() in pipewrite()
LEMMA AcquireWSafe ==
  ASSUME Inv, NEW p \in Procs, acquire(p, "w_lock", "w_loop")
  PROVE  Inv'
<1> USE PipeAssumption DEF Inv, acquire, pipeVars
<1>1. TypeOK'
  BY Sizes, Counter DEF TypeOK
<1>2. Exclusive'
  BY DEF TypeOK, Exclusive, Critical
<1>3. Inside'
  BY DEF TypeOK, Inside, WritePC, ReadPC, Procs
<1>4. Ends'
  BY DEF TypeOK, Inside, WritePC, ReadPC, Ends, End, Procs
<1> QED
  BY <1>1, <1>2, <1>3, <1>4

\* acquire() in piperead()
LEMMA AcquireRSafe ==
  ASSUME Inv, NEW p \in Procs, acquire(p, "r_lock", "r_loop")
  PROVE  Inv'
<1> USE PipeAssumption DEF Inv, acquire, pipeVars
<1>1. TypeOK'
  BY Sizes, Counter DEF TypeOK
<1>2. Exclusive'
  BY DEF TypeOK, Exclusive, Critical
<1>3. Inside'
  BY DEF TypeOK, Inside, WritePC, ReadPC, Procs
<1>4. Ends'
  BY DEF TypeOK, Inside, WritePC, ReadPC, Ends, End, Procs
<1> QED
  BY <1>1, <1>2, <1>3, <1>4

\* sleep() in pipewrite()
LEMMA SleepWSafe ==
  ASSUME Inv, NEW p \in Procs, sleep(p, "w_sleep", "w_asleep")
  PROVE  Inv'
<1> USE PipeAssumption DEF Inv, sleep, pipeVars
<1>1. TypeOK'
  BY Sizes, Counter DEF TypeOK
<1>2. Exclusive'
  BY DEF TypeOK, Exclusive, Critical
<1>3. Inside'
  BY DEF TypeOK, Inside, WritePC, ReadPC, Procs
<1>4. Ends'
  BY DEF TypeOK, Inside, WritePC, ReadPC, Ends, End, Procs
<1> QED
  BY <1>1, <1>2, <1>3, <1>4

\* sleep() in piperead()
LEMMA SleepRSafe ==
  ASSUME Inv, NEW p \in Procs, sleep(p, "r_sleep", "r_asleep")
  PROVE  Inv'
<1> USE PipeAssumption DEF Inv, sleep, pipeVars
<1>1. TypeOK'
  BY Sizes, Counter DEF TypeOK
<1>2. Exclusive'
  BY DEF TypeOK, Exclusive, Critical
<1>3. Inside'
  BY DEF TypeOK, Inside, WritePC, ReadPC, Procs
<1>4. Ends'
  BY DEF TypeOK, Inside, WritePC, ReadPC, Ends, End, Procs
<1> QED
  BY <1>1, <1>2, <1>3, <1>4

\* pipewrite() on a full pipe
LEMMA PipewriteFullSafe ==
  ASSUME Inv, NEW p \in Procs, pipewrite_full(p)
  PROVE  Inv'
<1> USE PipeAssumption DEF Inv, pipewrite_full, pipeVars, WakeReaders, wakeup
<1>1. TypeOK'
  <2>1. CASE ~readopen \/ killed[p]
    <3>1. n' \in [Procs -> 0..MaxN]
      BY <2>1 DEF TypeOK
    <3> QED
      BY <2>1, <3>1 DEF TypeOK
  <2>2. CASE ~(~readopen \/ killed[p])
    BY <2>2 DEF TypeOK
  <2> QED
    BY <2>1, <2>2
<1>2. Exclusive'
  BY DEF TypeOK, Exclusive, Critical
<1>3. Inside'
  BY DEF TypeOK, Inside, WritePC, ReadPC, Procs
<1>4. Ends'
  BY DEF TypeOK, Inside, WritePC, ReadPC, Ends, End, Procs
<1> QED
  BY <1>1, <1>2, <1>3, <1>4

\* pipewrite() of a byte
LEMMA PipewriteSafe ==
  ASSUME Inv, NEW p \in Procs, NEW v \in Bytes, pipewrite(p, v)
  PROVE  Inv'
<1> USE PipeAssumption DEF Inv, pipewrite, pipeVars
<1>1. TypeOK'
  BY Sizes, Counter DEF TypeOK
<1>2. Exclusive'
  BY DEF TypeOK, Exclusive, Critical
<1>3. Inside'
  BY DEF TypeOK, Inside, WritePC, ReadPC, Procs
<1>4. Ends'
  BY DEF TypeOK, Inside, WritePC, ReadPC, Ends, End, Procs
<1> QED
  BY <1>1, <1>2, <1>3, <1>4

\* a byte pipewrite() cannot copy
LEMMA PipewriteFaultSafe ==
  ASSUME Inv, NEW p \in Procs, pipewrite_fault(p)
  PROVE  Inv'
<1> USE PipeAssumption DEF Inv, pipewrite_fault, pipeVars
<1>1. TypeOK'
  BY Sizes, Counter DEF TypeOK
<1>2. Exclusive'
  BY DEF TypeOK, Exclusive, Critical
<1>3. Inside'
  BY DEF TypeOK, Inside, WritePC, ReadPC, Procs
<1>4. Ends'
  BY DEF TypeOK, Inside, WritePC, ReadPC, Ends, End, Procs
<1> QED
  BY <1>1, <1>2, <1>3, <1>4

\* the end of pipewrite()
LEMMA PipewriteEndSafe ==
  ASSUME Inv, NEW p \in Procs, pipewrite_end(p)
  PROVE  Inv'
<1> USE PipeAssumption DEF Inv, pipewrite_end, pipeVars, WakeReaders, wakeup
<1>1. TypeOK'
  BY Sizes, Counter DEF TypeOK
<1>2. Exclusive'
  BY DEF TypeOK, Exclusive, Critical
<1>3. Inside'
  BY DEF TypeOK, Inside, WritePC, ReadPC, Procs
<1>4. Ends'
  BY DEF TypeOK, Inside, WritePC, ReadPC, Ends, End, Procs
<1> QED
  BY <1>1, <1>2, <1>3, <1>4

\* piperead() on an empty pipe
LEMMA PipereadEmptySafe ==
  ASSUME Inv, NEW p \in Procs, piperead_empty(p)
  PROVE  Inv'
<1> USE PipeAssumption DEF Inv, piperead_empty, pipeVars
<1>1. TypeOK'
  BY Sizes, Counter DEF TypeOK
<1>2. Exclusive'
  BY DEF TypeOK, Exclusive, Critical
<1>3. Inside'
  BY DEF TypeOK, Inside, WritePC, ReadPC, Procs
<1>4. Ends'
  BY DEF TypeOK, Inside, WritePC, ReadPC, Ends, End, Procs
<1> QED
  BY <1>1, <1>2, <1>3, <1>4

\* piperead() with something to return
LEMMA PipereadBeginSafe ==
  ASSUME Inv, NEW p \in Procs, piperead_begin(p)
  PROVE  Inv'
<1> USE PipeAssumption DEF Inv, piperead_begin, pipeVars
<1>1. TypeOK'
  BY Sizes, Counter DEF TypeOK
<1>2. Exclusive'
  BY DEF TypeOK, Exclusive, Critical
<1>3. Inside'
  BY DEF TypeOK, Inside, WritePC, ReadPC, Procs
<1>4. Ends'
  BY DEF TypeOK, Inside, WritePC, ReadPC, Ends, End, Procs
<1> QED
  BY <1>1, <1>2, <1>3, <1>4

\* piperead() of a byte
LEMMA PipereadSafe ==
  ASSUME Inv, NEW p \in Procs, piperead(p)
  PROVE  Inv'
<1> USE PipeAssumption DEF Inv, piperead, pipeVars
<1>1. TypeOK'
  BY Sizes, Counter DEF TypeOK
<1>2. Exclusive'
  BY DEF TypeOK, Exclusive, Critical
<1>3. Inside'
  BY DEF TypeOK, Inside, WritePC, ReadPC, Procs
<1>4. Ends'
  BY DEF TypeOK, Inside, WritePC, ReadPC, Ends, End, Procs
<1> QED
  BY <1>1, <1>2, <1>3, <1>4

\* the end of piperead()
LEMMA PipereadEndSafe ==
  ASSUME Inv, NEW p \in Procs, piperead_end(p)
  PROVE  Inv'
<1> USE PipeAssumption DEF Inv, piperead_end, pipeVars, WakeWriters, wakeup
<1>1. TypeOK'
  BY Sizes, Counter DEF TypeOK
<1>2. Exclusive'
  BY DEF TypeOK, Exclusive, Critical
<1>3. Inside'
  BY DEF TypeOK, Inside, WritePC, ReadPC, Procs
<1>4. Ends'
  BY DEF TypeOK, Inside, WritePC, ReadPC, Ends, End, Procs
<1> QED
  BY <1>1, <1>2, <1>3, <1>4

\* fileclose()
LEMMA FilecloseSafe ==
  ASSUME Inv, NEW p \in Procs, fileclose(p)
  PROVE  Inv'
<1> USE PipeAssumption DEF Inv, fileclose, pipeVars
<1>1. TypeOK'
  BY Sizes, Counter DEF TypeOK
<1>2. Exclusive'
  BY DEF TypeOK, Exclusive, Critical
<1>3. Inside'
  BY DEF TypeOK, Inside, WritePC, ReadPC, Procs
<1>4. Ends'
  BY DEF TypeOK, Inside, WritePC, ReadPC, Ends, End, Procs
<1> QED
  BY <1>1, <1>2, <1>3, <1>4

\* pipeclose()
LEMMA PipecloseSafe ==
  ASSUME Inv, NEW p \in Procs, pipeclose(p)
  PROVE  Inv'
<1> USE PipeAssumption DEF Inv, pipeclose, pipeVars, WakeReaders, WakeWriters, wakeup
<1>1. TypeOK'
  BY Sizes, Counter DEF TypeOK
<1>2. Exclusive'
  BY DEF TypeOK, Exclusive, Critical
<1>3. Inside'
  BY DEF TypeOK, Inside, WritePC, ReadPC, Procs
<1>4. Ends'
  BY DEF TypeOK, Inside, WritePC, ReadPC, Ends, End, Procs
<1> QED
  BY <1>1, <1>2, <1>3, <1>4

\* the kfree() of pipeclose()
LEMMA PipecloseFreeSafe ==
  ASSUME Inv, NEW p \in Procs, pipeclose_free(p)
  PROVE  Inv'
<1> USE PipeAssumption DEF Inv, pipeclose_free, pipeVars
<1>1. TypeOK'
  BY Sizes, Counter DEF TypeOK
<1>2. Exclusive'
  BY DEF TypeOK, Exclusive, Critical
<1>3. Inside'
  BY DEF TypeOK, Inside, WritePC, ReadPC, Procs
<1>4. Ends'
  BY DEF TypeOK, Inside, WritePC, ReadPC, Ends, End, Procs
<1> QED
  BY <1>1, <1>2, <1>3, <1>4

\* kill()
LEMMA KillSafe ==
  ASSUME Inv, NEW p \in Procs, kill(p)
  PROVE  Inv'
<1> USE PipeAssumption DEF Inv, kill, pipeVars
<1>1. TypeOK'
  BY Sizes, Counter DEF TypeOK
<1>2. Exclusive'
  BY DEF TypeOK, Exclusive, Critical
<1>3. Inside'
  BY DEF TypeOK, Inside, WritePC, ReadPC, Procs
<1>4. Ends'
  BY DEF TypeOK, Inside, WritePC, ReadPC, Ends, End, Procs
<1> QED
  BY <1>1, <1>2, <1>3, <1>4

-----------------------------------------------------------------------------
(***************************************************************************)
(* The bytes between nread and nwrite are a bounded queue.                 *)
(***************************************************************************)
\* a function on 1..c is a sequence of length c
LEMMA Sequence ==
  ASSUME NEW S, NEW c \in Nat, NEW s \in [1..c -> S]
  PROVE  s \in Seq(S) /\ Len(s) = c
<1>1. s \in Seq(S)
  BY SeqDef
<1> QED
  BY <1>1, LenProperties

\* a sequence that is one longer and agrees on the rest
LEMMA Appended ==
  ASSUME NEW S, NEW c \in Nat, NEW s \in [1..c -> S], NEW v \in S, NEW t \in [1..(c + 1) -> S],
         \A k \in 1..c : t[k] = s[k], t[c + 1] = v
  PROVE  t = Append(s, v)
<1>1. s \in Seq(S) /\ Len(s) = c /\ t \in Seq(S) /\ Len(t) = c + 1
  BY Sequence
<1>2. /\ Append(s, v) \in Seq(S)
      /\ Len(Append(s, v)) = c + 1
      /\ \A k \in 1..c : Append(s, v)[k] = s[k]
      /\ Append(s, v)[c + 1] = v
  BY <1>1, AppendProperties
<1>3. \A k \in 1..(c + 1) : t[k] = Append(s, v)[k]
  BY <1>2
<1> QED
  BY <1>1, <1>2, <1>3, SeqEqual

\* a sequence that is one shorter and agrees, shifted
LEMMA Shifted ==
  ASSUME NEW S, NEW c \in Nat \ {0}, NEW s \in [1..c -> S], NEW t \in [1..(c - 1) -> S],
         \A k \in 1..(c - 1) : t[k] = s[k + 1]
  PROVE  s # <<>> /\ Head(s) = s[1] /\ t = Tail(s)
<1>1. s \in Seq(S) /\ Len(s) = c /\ t \in Seq(S) /\ Len(t) = c - 1
  BY Sequence
<1>2. s # <<>> /\ Head(s) = s[1]
  BY <1>1
<1>3. /\ Tail(s) \in Seq(S) /\ Len(Tail(s)) = c - 1
      /\ \A k \in 1..(c - 1) : Tail(s)[k] = s[k + 1]
  BY <1>1, <1>2, HeadTailProperties
<1> QED
  BY <1>1, <1>2, <1>3, SeqEqual

\* Count is the distance between the counters, and tells an empty and a full ring
Counting ==
  /\ Count \in 0..(UMOD - 1)
  /\ Count = IF nread <= nwrite THEN nwrite - nread ELSE nwrite + UMOD - nread
  /\ Empty <=> Count = 0
  /\ Full <=> Count = PIPESIZE

\* so it is in every state that satisfies the type invariant
LEMMA Counters == TypeOK => Counting
<1> SUFFICES ASSUME TypeOK PROVE Counting
  OBVIOUS
<1>1. nread \in 0..(UMOD - 1) /\ nwrite \in 0..(UMOD - 1)
  BY DEF TypeOK
<1>2. /\ Count \in 0..(UMOD - 1)
      /\ Count = IF nread <= nwrite THEN nwrite - nread ELSE nwrite + UMOD - nread
  BY <1>1, Gap, Sizes DEF Count
<1>3. (nread + PIPESIZE) % UMOD =
        IF nread + PIPESIZE < UMOD THEN nread + PIPESIZE ELSE nread + PIPESIZE - UMOD
  <2> DEFINE x == nread + PIPESIZE
  <2>1. x \in 0..(2 * UMOD - 1)
    BY <1>1, Sizes
  <2> HIDE DEF x
  <2>2. x % UMOD = IF x < UMOD THEN x ELSE x - UMOD
    BY <2>1, Sizes, Wrap
  <2> QED
    BY <1>1, <2>2, Sizes DEF x
<1> QED
  BY <1>1, <1>2, <1>3, Sizes DEF Counting, Empty, Full

\* Queue is a sequence of the bytes at the places from nread on
Queueing ==
  /\ Queue = [k \in 1..Count |-> data[(nread + k - 1) % PIPESIZE]]
  /\ Queue \in [1..Count -> Bytes \cup {NoByte}]

\* so it is in every state that satisfies the type invariant
LEMMA QueueIs == TypeOK => Queueing
<1> SUFFICES ASSUME TypeOK PROVE Queueing
  OBVIOUS
<1>1. \A k \in 1..Count : (nread + k - 1) % PIPESIZE \in 0..(PIPESIZE - 1)
  BY Counters, Sizes DEF TypeOK, Counting
<1> QED
  BY <1>1 DEF TypeOK, Queue, Count, Queueing

\* pipewrite() puts a byte at the end of the queue
LEMMA Puts ==
  ASSUME Inv, Bounded, NEW p \in Procs, NEW v \in Bytes, pipewrite(p, v)
  PROVE  Bounded' /\ PipeFifo!Put(v)
<1>1. TypeOK /\ TypeOK'
  BY PipewriteSafe DEF Inv
<1> DEFINE c == Count
           S == Bytes \cup {NoByte}
<1>2. /\ c \in 0..(UMOD - 1)
      /\ c = IF nread <= nwrite THEN nwrite - nread ELSE nwrite + UMOD - nread
      /\ Full <=> c = PIPESIZE
  BY <1>1, Counters DEF Counting
<1>3. Count' = IF nread' <= nwrite' THEN nwrite' - nread' ELSE nwrite' + UMOD - nread'
  <2>1. Counting'
    BY <1>1, Counters, PTL
  <2> QED
    BY <2>1 DEF Counting
<1>4. /\ nread \in 0..(UMOD - 1) /\ nwrite \in 0..(UMOD - 1) /\ nread' = nread
      /\ nwrite' = IF nwrite + 1 < UMOD THEN nwrite + 1 ELSE 0
      /\ ~Full /\ ch' = ch /\ data' = [data EXCEPT ![nwrite % PIPESIZE] = v]
  BY <1>1, Counter DEF TypeOK, pipewrite
<1>5. c < PIPESIZE
  BY <1>2, <1>4, Sizes DEF Bounded
<1> HIDE DEF c
<1>6. Count' = c + 1
  BY <1>2, <1>3, <1>4, <1>5, Sizes
<1>7. Bounded'
  BY <1>2, <1>5, <1>6, Sizes DEF Bounded
<1>8. /\ Queue = [k \in 1..c |-> data[(nread + k - 1) % PIPESIZE]]
      /\ Queue \in [1..c -> S]
  BY <1>1, QueueIs DEF c, Queueing
<1>9. /\ Queue' = [k \in 1..Count' |-> data'[(nread' + k - 1) % PIPESIZE]]
      /\ Queue' \in [1..Count' -> S]
  <2>1. Queueing'
    BY <1>1, QueueIs, PTL
  <2> QED
    BY <2>1 DEF Queueing
<1>10. (nread + c) % PIPESIZE = nwrite % PIPESIZE
  <2>1. nread + c = nwrite \/ nread + c = nwrite + UMOD
    BY <1>2, <1>4, Sizes
  <2> QED
    BY <2>1, <1>4, RingWrap
<1>11. \A k \in 1..c : Queue'[k] = Queue[k]
  <2> SUFFICES ASSUME NEW k \in 1..c PROVE Queue'[k] = Queue[k]
    OBVIOUS
  <2> DEFINE a == nread + k - 1
             d == c + 1 - k
  <2>1. a \in Nat /\ d \in 1..(PIPESIZE - 1) /\ a + d = nread + c
    BY <1>2, <1>4, <1>5, Sizes
  <2>2. (a + d) % PIPESIZE # a % PIPESIZE
    BY <2>1, Sizes, Apart
  <2>3. a % PIPESIZE # nwrite % PIPESIZE
    BY <2>1, <2>2, <1>10
  <2>4. a % PIPESIZE \in 0..(PIPESIZE - 1)
    BY <2>1, Sizes
  <2>5. data'[a % PIPESIZE] = data[a % PIPESIZE]
    BY <2>3, <2>4, <1>1, <1>4 DEF TypeOK
  <2>6. k \in 1..Count'
    BY <1>2, <1>6, Sizes
  <2> QED
    BY <2>5, <2>6, <1>4, <1>8, <1>9
<1>12. Queue'[c + 1] = v
  <2>1. c + 1 \in 1..Count' /\ nread' + (c + 1) - 1 = nread + c
    BY <1>2, <1>4, <1>6, Sizes
  <2>2. Queue'[c + 1] = data'[nwrite % PIPESIZE]
    BY <2>1, <1>9, <1>10
  <2>3. nwrite % PIPESIZE \in 0..(PIPESIZE - 1)
    BY <1>4, Sizes
  <2> QED
    BY <2>2, <2>3, <1>1, <1>4 DEF TypeOK
<1>13. Queue' = Append(Queue, v)
  <2> HIDE DEF S
  <2>1. v \in S
    BY DEF S
  <2>2. c \in Nat
    BY <1>2, Sizes
  <2>3. Queue' \in [1..(c + 1) -> S]
    BY <1>6, <1>9
  <2> QED
    BY <2>1, <2>2, <2>3, <1>8, <1>11, <1>12, Appended
<1>14. Len(Queue) < PIPESIZE
  BY <1>2, <1>5, <1>8, Sizes, Sequence
<1> QED
  BY <1>4, <1>7, <1>13, <1>14 DEF PipeFifo!Put

\* piperead() takes the byte at the front
LEMMA Gets ==
  ASSUME Inv, Bounded, NEW p \in Procs, piperead(p)
  PROVE  Bounded' /\ PipeFifo!Get
<1>1. TypeOK /\ TypeOK'
  BY PipereadSafe DEF Inv
<1> DEFINE c == Count
           S == Bytes \cup {NoByte}
<1>2. /\ c \in 0..(UMOD - 1)
      /\ c = IF nread <= nwrite THEN nwrite - nread ELSE nwrite + UMOD - nread
      /\ Empty <=> c = 0
  BY <1>1, Counters DEF Counting
<1>3. Count' = IF nread' <= nwrite' THEN nwrite' - nread' ELSE nwrite' + UMOD - nread'
  <2>1. Counting'
    BY <1>1, Counters, PTL
  <2> QED
    BY <2>1 DEF Counting
<1>4. /\ nread \in 0..(UMOD - 1) /\ nwrite \in 0..(UMOD - 1) /\ nwrite' = nwrite
      /\ nread' = IF nread + 1 < UMOD THEN nread + 1 ELSE 0
      /\ ~Empty /\ data' = data /\ ch' = data[nread % PIPESIZE]
  BY <1>1, Counter DEF TypeOK, piperead
<1>5. c <= PIPESIZE
  BY DEF Bounded
<1> HIDE DEF c
<1>6. c \in Nat \ {0} /\ Count' = c - 1
  BY <1>2, <1>3, <1>4, Sizes
<1>7. Bounded'
  BY <1>5, <1>6, Sizes DEF Bounded
<1>8. /\ Queue = [k \in 1..c |-> data[(nread + k - 1) % PIPESIZE]]
      /\ Queue \in [1..c -> S]
  BY <1>1, QueueIs DEF c, Queueing
<1>9. /\ Queue' = [k \in 1..Count' |-> data'[(nread' + k - 1) % PIPESIZE]]
      /\ Queue' \in [1..Count' -> S]
  <2>1. Queueing'
    BY <1>1, QueueIs, PTL
  <2> QED
    BY <2>1 DEF Queueing
<1>10. \A k \in 1..(c - 1) : Queue'[k] = Queue[k + 1]
  <2> SUFFICES ASSUME NEW k \in 1..(c - 1) PROVE Queue'[k] = Queue[k + 1]
    OBVIOUS
  <2> DEFINE a == nread' + k - 1
             b == nread + (k + 1) - 1
  <2>1. a \in Nat /\ (b = a \/ b = a + UMOD)
    BY <1>4, <1>6, Sizes
  <2>2. b % PIPESIZE = a % PIPESIZE
    BY <2>1, RingWrap
  <2>3. k \in 1..Count' /\ k + 1 \in 1..c
    BY <1>6
  <2> QED
    BY <2>2, <2>3, <1>4, <1>8, <1>9
<1>11. Queue[1] = data[nread % PIPESIZE]
  <2>1. 1 \in 1..c /\ nread + 1 - 1 = nread
    BY <1>4, <1>6
  <2> QED
    BY <2>1, <1>8
<1>12. Queue # <<>> /\ Head(Queue) = Queue[1] /\ Queue' = Tail(Queue)
  <2> HIDE DEF S
  <2>1. Queue' \in [1..(c - 1) -> S]
    BY <1>6, <1>9
  <2>2. Queue \in [1..c -> S]
    BY <1>8
  <2> QED
    BY <2>1, <2>2, <1>6, <1>10, Shifted
<1> QED
  BY <1>4, <1>7, <1>11, <1>12 DEF PipeFifo!Get

-----------------------------------------------------------------------------
(***************************************************************************)
(* The theorems.                                                           *)
(***************************************************************************)
\* every step preserves the invariant
LEMMA InvNext == Inv /\ [Next]_vars => Inv'
<1> SUFFICES ASSUME Inv, [Next]_vars PROVE Inv'
  OBVIOUS
<1>1. CASE UNCHANGED vars
  BY <1>1 DEF vars, Inv, TypeOK, Exclusive, Inside, Ends
<1>2. ASSUME NEW p \in Procs, Writing(p) PROVE Inv'
  BY <1>2, AcquireWSafe, SleepWSafe, PipewriteFullSafe, PipewriteSafe, PipewriteFaultSafe,
     PipewriteEndSafe DEF Writing
<1>3. ASSUME NEW p \in Procs, Reading(p) PROVE Inv'
  BY <1>3, AcquireRSafe, SleepRSafe, PipereadEmptySafe, PipereadBeginSafe, PipereadSafe,
     PipereadEndSafe DEF Reading
<1>4. ASSUME NEW p \in Procs, Closing(p) PROVE Inv'
  BY <1>4, PipecloseSafe, PipecloseFreeSafe DEF Closing
<1> QED
  BY <1>1, <1>2, <1>3, <1>4, SyscallSafe, FilecloseSafe, KillSafe DEF Next

\* pipealloc() makes a pipe that satisfies the invariant.
LEMMA InitInv == Init => Inv
<1> SUFFICES ASSUME Init PROVE Inv
  OBVIOUS
<1> USE PipeAssumption DEF Init
<1>1. TypeOK
  <2>1. data \in [0..(PIPESIZE - 1) -> Bytes \cup {NoByte}]
    OBVIOUS
  <2>2. n \in [Procs -> 0..MaxN] /\ nread \in 0..(UMOD - 1) /\ nwrite \in 0..(UMOD - 1)
    BY Sizes
  <2> QED
    BY <2>1, <2>2 DEF TypeOK
<1>2. Exclusive /\ Inside /\ Ends
  BY DEF Exclusive, Critical, Inside, WritePC, ReadPC, Ends
<1> QED
  BY <1>1, <1>2 DEF Inv

\* THEOREM: one process at a time is in a critical section of pipe.c, whoever is in
\* pipewrite() or piperead() has its end open, and each end is closed, and the page freed,
\* by one process.
THEOREM Invariance == Spec => []Inv
BY InitInv, InvNext, PTL DEF Spec

\* THEOREM: for any number of readers and writers the page of the pipe is freed by one
\* process, when no descriptor refers to it and nobody is in pipe.c.
THEOREM PipeFreedOnce == Spec => []FreedOnce
<1>1. ASSUME Inv PROVE FreedOnce
  <2> USE PipeAssumption, <1>1 DEF Inv
  <2>1. freed => fds = {} /\ \A p \in Procs : pc[p] = "user"
    BY DEF TypeOK, Inside, WritePC, ReadPC, Ends, Procs, End
  <2>2. Cardinality({p \in Procs : pc[p] = "kfree"}) <= 1
    <3> DEFINE S == {p \in Procs : pc[p] = "kfree"}
    <3>1. CASE S = {}
      BY <3>1, FS_EmptySet
    <3>2. CASE S # {}
      <4>1. PICK p \in S : TRUE
        BY <3>2
      <4>2. S = {p}
        BY <4>1 DEF Ends
      <4> HIDE DEF S
      <4>3. Cardinality(S) = 1
        BY <4>2, FS_Singleton
      <4> QED
        BY <4>3 DEF S
    <3> QED
      BY <3>1, <3>2
  <2> QED
    BY <2>1, <2>2 DEF FreedOnce
<1> QED
  BY <1>1, Invariance, PTL

\* the steps that move no byte
LEMMA Others ==
  ASSUME [Next]_vars
  PROVE  \/ UNCHANGED <<data, nread, nwrite, ch>>
         \/ \E p \in Procs, v \in Bytes : pipewrite(p, v)
         \/ \E p \in Procs : piperead(p)
BY DEF Next, Writing, Reading, Closing, acquire, sleep, pipewrite_full, pipewrite_fault,
       pipewrite_end, piperead_empty, piperead_begin, piperead_end, pipeclose, pipeclose_free,
       syscall, fileclose, kill, pipeVars, vars

\* every step is a step of the queue and keeps it within its bound
LEMMA FifoNext ==
  ASSUME Inv, Bounded, [Next]_vars
  PROVE  Bounded' /\ [PipeFifo!Get \/ \E v \in Bytes : PipeFifo!Put(v)]_<<Queue, ch>>
<1>1. CASE UNCHANGED <<data, nread, nwrite, ch>>
  BY <1>1 DEF Bounded, Count, Queue
<1>2. ASSUME NEW p \in Procs, NEW v \in Bytes, pipewrite(p, v)
      PROVE  Bounded' /\ [PipeFifo!Get \/ \E w \in Bytes : PipeFifo!Put(w)]_<<Queue, ch>>
  BY <1>2, Puts
<1>3. ASSUME NEW p \in Procs, piperead(p)
      PROVE  Bounded' /\ [PipeFifo!Get \/ \E v \in Bytes : PipeFifo!Put(v)]_<<Queue, ch>>
  BY <1>3, Gets
<1> QED
  BY <1>1, <1>2, <1>3, Others

\* THEOREM: a pipe is a first-in first-out queue of at most PIPESIZE bytes, for any number of
\* readers and writers and through any number of wrappings of the ring and of the counters.
THEOREM PipeFifoSpec == Spec => FifoSpec
<1>1. Init => Bounded /\ PipeFifo!Init
  <2> SUFFICES ASSUME Init PROVE Bounded /\ PipeFifo!Init
    OBVIOUS
  <2>1. TypeOK /\ nread = nwrite
    BY InitInv DEF Inv, Init
  <2>2. Count = 0
    BY <2>1, Counters DEF Counting, Empty
  <2>3. Queue \in [1..0 -> Bytes \cup {NoByte}]
    BY <2>1, <2>2, QueueIs DEF Queueing
  <2>4. Queue = <<>>
    BY <2>3, Sequence, EmptySeq
  <2> QED
    BY <2>2, <2>4, Sizes DEF Bounded, PipeFifo!Init, Init
<1> QED
  BY <1>1, Invariance, FifoNext, PTL DEF Spec, FifoSpec, PipeFifo!Spec

\* what happens when nobody kills a writer: whoever sleeps keeps its reason
LEMMA AsleepNext ==
  ASSUME Killable \cap Writers = {}, Inv, Asleep, [Next]_vars
  PROVE  Asleep'
<1> USE PipeAssumption DEF Inv, Asleep, Filling, Draining, TypeOK, Exclusive, Critical,
                          Empty, Full, pipeVars
<1>1. CASE UNCHANGED vars
  BY <1>1 DEF vars
<1>2. ASSUME NEW p \in Procs, NEW k \in 0..MaxN, syscall(p, k) PROVE Asleep'
  BY <1>2 DEF syscall
<1>3. ASSUME NEW p \in Procs, acquire(p, "w_lock", "w_loop") PROVE Asleep'
  BY <1>3 DEF acquire
<1>4. ASSUME NEW p \in Procs, acquire(p, "r_lock", "r_loop") PROVE Asleep'
  BY <1>4 DEF acquire
<1>5. ASSUME NEW p \in Procs, sleep(p, "w_sleep", "w_asleep") PROVE Asleep'
  BY <1>5 DEF sleep
<1>6. ASSUME NEW p \in Procs, sleep(p, "r_sleep", "r_asleep") PROVE Asleep'
  BY <1>6 DEF sleep
<1>7. ASSUME NEW p \in Procs, pipewrite_full(p) PROVE Asleep'
  BY <1>7 DEF pipewrite_full, WakeReaders, wakeup, Inside, WritePC, ReadPC, Ends, Procs
<1>8. ASSUME NEW p \in Procs, NEW v \in Bytes, pipewrite(p, v) PROVE Asleep'
  BY <1>8 DEF pipewrite
<1>9. ASSUME NEW p \in Procs, pipewrite_fault(p) PROVE Asleep'
  BY <1>9 DEF pipewrite_fault
<1>10. ASSUME NEW p \in Procs, pipewrite_end(p) PROVE Asleep'
  BY <1>10 DEF pipewrite_end, WakeReaders, wakeup
<1>11. ASSUME NEW p \in Procs, piperead_empty(p) PROVE Asleep'
  BY <1>11 DEF piperead_empty
<1>12. ASSUME NEW p \in Procs, piperead_begin(p) PROVE Asleep'
  BY <1>12 DEF piperead_begin
<1>13. ASSUME NEW p \in Procs, piperead(p) PROVE Asleep'
  BY <1>13 DEF piperead
<1>14. ASSUME NEW p \in Procs, piperead_end(p) PROVE Asleep'
  BY <1>14 DEF piperead_end, WakeWriters, wakeup
<1>15. ASSUME NEW p \in Procs, fileclose(p) PROVE Asleep'
  BY <1>15 DEF fileclose
<1>16. ASSUME NEW p \in Procs, pipeclose(p) PROVE Asleep'
  BY <1>16
     DEF pipeclose, WakeReaders, WakeWriters, wakeup, End, Inside, WritePC, ReadPC, Ends, Procs
<1>17. ASSUME NEW p \in Procs, pipeclose_free(p) PROVE Asleep'
  BY <1>17 DEF pipeclose_free
<1>18. ASSUME NEW p \in Procs, kill(p) PROVE Asleep'
  BY <1>18 DEF kill, Inside, WritePC, ReadPC
<1> QED
  BY <1>1, <1>2, <1>3, <1>4, <1>5, <1>6, <1>7, <1>8, <1>9, <1>10, <1>11, <1>12, <1>13, <1>14,
     <1>15, <1>16, <1>17, <1>18 DEF Next, Writing, Reading, Closing

\* THEOREM: if no writer is killed, nobody is asleep in an idle pipe with something to do: a
\* reader sleeps on an empty pipe that can be written, a writer on a full one that can be
\* read.
THEOREM PipeSleepers ==
  ASSUME Killable \cap Writers = {}
  PROVE  Spec => []SleepersHaveReason
<1>1. Init => Asleep
  BY DEF Init, Asleep, Procs
<1>2. Inv /\ Asleep => SleepersHaveReason
  BY PipeAssumption DEF Inv, Asleep, Filling, Draining, Exclusive, Critical, SleepersHaveReason
<1> QED
  BY <1>1, <1>2, AsleepNext, Invariance, PTL DEF Spec

=============================================================================
