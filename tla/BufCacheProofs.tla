--------------------------- MODULE BufCacheProofs ---------------------------
(***************************************************************************)
(* kernel/bio.c for any number of processes, blocks and buffers:           *)
(*   CacheStore     the cache is one register per block with one user at   *)
(*                  a time                                                 *)
(*   CacheBuffers   nobody sleeps on a free sleep-lock, and bget() panics  *)
(*                  only if every buffer is in use or pinned               *)
(***************************************************************************)
EXTENDS BufCache, FiniteSetTheorems, WellFoundedInduction, TLAPS

-----------------------------------------------------------------------------
(***************************************************************************)
(* The inductive invariant.                                                *)
(***************************************************************************)
\* the processes that bget() has given buffer b, and the pin of b
UsersOf(b) == {p \in Procs : buf[p] = b}
PinOf(b) == IF blockno[b] \in pinned THEN 1 ELSE 0

\* no block is in two buffers
Distinct == \A a, b \in Bufs : blockno[a] = blockno[b] /\ blockno[a] # None => a = b

\* a process in the cache has the buffer of the block it asked for
Given ==
  \A p \in Procs :
    IF pc[p] \in {"idle", "panic"} THEN buf[p] = None
    ELSE buf[p] \in Bufs /\ want[p] \in Blocks /\ blockno[buf[p]] = want[p]

\* b->refcnt counts the processes that have b, and its pin
Counted == \A b \in Bufs : refcnt[b] = Cardinality(UsersOf(b)) + PinOf(b)

\* the log pins no more than it may, and only what is cached
Pins ==
  /\ IsFiniteSet(pinned) /\ Cardinality(pinned) <= PinLimit
  /\ \A n \in pinned : \E b \in Bufs : blockno[b] = n /\ valid[b]

\* the sleep-lock of b is held by the process that reads b or uses it
Locking ==
  \A p \in Procs : \A b \in Bufs : locked[b] = p <=> pc[p] \in {"bread", "hold"} /\ buf[p] = b

\* nobody sleeps on a sleep-lock that is free
Asleep == \A p \in Procs : pc[p] = "asleep" => locked[buf[p]] # None

\* a valid buffer holds a block, the one on the disk unless it is pinned; whoever uses a
\* buffer has a valid one
Coherent ==
  /\ \A b \in Bufs : valid[b] =>
       /\ blockno[b] \in Blocks /\ data[b] \in Values
       /\ blockno[b] \notin pinned => data[b] = disk[blockno[b]]
  /\ \A p \in Procs : pc[p] = "hold" => valid[buf[p]]

Inv ==
  /\ TypeOK /\ Distinct /\ Given /\ Counted /\ Pins /\ Locking /\ Asleep /\ Coherent
  /\ PanicsOnlyFull

-----------------------------------------------------------------------------
(***************************************************************************)
(* The list of buffers and their counts.                                   *)
(***************************************************************************)
\* the names of things
LEMMA Buffers ==
  /\ Bufs \subseteq Nat \ {0} /\ 1 \in Bufs
  /\ None \notin Bufs /\ None \notin Procs /\ None \notin Blocks /\ None \notin Values
BY BufCacheAssumption DEF Bufs

\* a set of naturals with a bound has a largest member
LEMMA MaxNat ==
  ASSUME NEW S \in SUBSET Nat, S # {}, NEW m \in Nat, \A k \in S : k <= m
  PROVE  \E k \in S : \A j \in S : j <= k
<1> DEFINE T == {n \in Nat : m - n \in S}
<1>1. T \in SUBSET Nat /\ T # {}
  <2>1. PICK k \in S : TRUE
    OBVIOUS
  <2>2. m - k \in Nat /\ m - (m - k) = k
    OBVIOUS
  <2> QED
    BY <2>1, <2>2
<1>2. IsWellFoundedOn(OpToRel(<, Nat), Nat)
  BY NatLessThanWellFounded
<1>3. PICK x \in T : \A y \in T : ~(<<y, x>> \in OpToRel(<, Nat))
  BY <1>1, <1>2, WFMin
<1>4. \A y \in T : ~(y < x)
  BY <1>3 DEF OpToRel
<1>5. \A j \in S : m - j \in T
  <2> SUFFICES ASSUME NEW j \in S PROVE m - j \in T
    OBVIOUS
  <2>1. m - j \in Nat /\ m - (m - j) = j
    OBVIOUS
  <2> QED
    BY <2>1
<1>6. \A j \in S : j <= m - x
  BY <1>4, <1>5
<1> QED
  BY <1>6

\* bget() recycles an unused buffer
LEMMA Recycled ==
  ASSUME TypeOK, Unused # {}
  PROVE  LeastRecent \in Bufs /\ refcnt[LeastRecent] = 0
<1>1. Unused \in SUBSET Nat /\ \A k \in Unused : k <= NBUF
  BY BufCacheAssumption DEF Unused, Bufs
<1>2. \E k \in Unused : \A j \in Unused : j <= k
  BY <1>1, MaxNat, BufCacheAssumption
<1> QED
  BY <1>2 DEF TypeOK, LeastRecent, Unused

\* brelse() keeps every buffer in the list, once
LEMMA Moved ==
  ASSUME TypeOK, NEW b \in Bufs
  PROVE  MoveToFront(b) \in [Bufs -> Bufs] /\ IsInjective(MoveToFront(b))
<1>1. IsFiniteSet(Bufs)
  BY FS_Interval, BufCacheAssumption DEF Bufs
<1>2. lru \in Injection(Bufs, Bufs)
  BY DEF TypeOK, Injection
<1>3. lru \in Surjection(Bufs, Bufs)
  BY <1>1, <1>2, FS_Injection
<1>4. \E k \in Bufs : lru[k] = b
  BY <1>3 DEF Surjection
<1> DEFINE k == CHOOSE k \in Bufs : lru[k] = b
           F == [j \in Bufs |-> IF j = 1 THEN b ELSE IF j <= k THEN lru[j - 1] ELSE lru[j]]
<1>5. k \in Bufs /\ lru[k] = b
  BY <1>4
<1>6. MoveToFront(b) = F
  BY DEF MoveToFront
<1> HIDE DEF k
<1>7. \A i, j \in Bufs : lru[i] = lru[j] => i = j
  BY DEF TypeOK, IsInjective
<1>8. \A j \in Bufs : j # 1 => j - 1 \in Bufs
  BY BufCacheAssumption DEF Bufs
<1>9. F \in [Bufs -> Bufs]
  BY <1>8 DEF TypeOK
<1>10. \A i, j \in Bufs : F[i] = F[j] => i = j
  BY <1>5, <1>7, <1>8, Buffers
<1> QED
  BY <1>6, <1>9, <1>10 DEF IsInjective

\* the users of every buffer are finitely many
LEMMA UsersFinite ==
  ASSUME NEW b
  PROVE  /\ IsFiniteSet(UsersOf(b)) /\ Cardinality(UsersOf(b)) \in Nat
         /\ Cardinality(UsersOf(b)) <= Cardinality(Procs)
<1>1. UsersOf(b) \in SUBSET Procs
  BY DEF UsersOf
<1> QED
  BY <1>1, BufCacheAssumption, FS_Subset, FS_CardinalityType

\* bget() adds a user of buffer b and of no other
LEMMA UsersJoin ==
  ASSUME TypeOK, NEW p \in Procs, NEW b \in Bufs, buf[p] = None, buf' = [buf EXCEPT ![p] = b]
  PROVE  \A a \in Bufs : Cardinality(UsersOf(a)') =
                           IF a = b THEN Cardinality(UsersOf(a)) + 1 ELSE Cardinality(UsersOf(a))
<1> SUFFICES ASSUME NEW a \in Bufs
             PROVE  Cardinality(UsersOf(a)') =
                      IF a = b THEN Cardinality(UsersOf(a)) + 1 ELSE Cardinality(UsersOf(a))
  OBVIOUS
<1>1. UsersOf(a)' = IF a = b THEN UsersOf(a) \cup {p} ELSE UsersOf(a)
  BY Buffers DEF UsersOf, TypeOK
<1>2. p \notin UsersOf(a)
  BY Buffers DEF UsersOf
<1> QED
  BY <1>1, <1>2, UsersFinite, FS_AddElement

\* brelse() takes a user from the buffer and from no other
LEMMA UsersLeave ==
  ASSUME TypeOK, NEW p \in Procs, NEW b \in Bufs, buf[p] = b, buf' = [buf EXCEPT ![p] = None]
  PROVE  \A a \in Bufs : Cardinality(UsersOf(a)') =
                           IF a = b THEN Cardinality(UsersOf(a)) - 1 ELSE Cardinality(UsersOf(a))
<1> SUFFICES ASSUME NEW a \in Bufs
             PROVE  Cardinality(UsersOf(a)') =
                      IF a = b THEN Cardinality(UsersOf(a)) - 1 ELSE Cardinality(UsersOf(a))
  OBVIOUS
<1>1. UsersOf(a)' = IF a = b THEN UsersOf(a) \ {p} ELSE UsersOf(a)
  BY Buffers DEF UsersOf, TypeOK
<1>2. p \in UsersOf(b)
  BY DEF UsersOf
<1> QED
  BY <1>1, <1>2, UsersFinite, FS_RemoveElement

\* the count of a buffer is that of its users and its pin, and so bounded
RefInt == refcnt \in [Bufs -> Int]
RefBounded == refcnt \in [Bufs -> 0..(Cardinality(Procs) + PinLimit)]

\* the type of the counts
LEMMA RefType == TypeOK => RefInt
<1>1. Cardinality(Procs) + PinLimit \in Nat
  BY BufCacheAssumption, FS_CardinalityType
<1> QED
  BY <1>1 DEF TypeOK, RefInt

\* bunpin() and brelse() count down
LEMMA RefDown ==
  ASSUME RefInt, NEW b \in Bufs, refcnt' = [refcnt EXCEPT ![b] = @ - 1]
  PROVE  RefInt' /\ refcnt[b] \in Int /\ refcnt'[b] = refcnt[b] - 1
BY DEF RefInt

\* the counts are within the bound of the type invariant
LEMMA RefBound == RefInt /\ Counted /\ Pins => RefBounded
<1> SUFFICES ASSUME RefInt, Counted, Pins PROVE RefBounded
  OBVIOUS
<1> SUFFICES ASSUME NEW b \in Bufs PROVE refcnt[b] \in 0..(Cardinality(Procs) + PinLimit)
  BY DEF RefBounded, RefInt
<1>1. PinOf(b) \in 0..PinLimit
  <2>1. Cardinality(pinned) \in Nat /\ (Cardinality(pinned) = 0 <=> pinned = {})
    BY FS_CardinalityType, FS_EmptySet DEF Pins
  <2> QED
    BY <2>1, BufCacheAssumption DEF Pins, PinOf
<1>2. Cardinality(Procs) \in Nat
  BY BufCacheAssumption, FS_CardinalityType
<1> QED
  BY <1>1, <1>2, UsersFinite, BufCacheAssumption DEF Counted

\* a pin, taken or given back, is counted in the buffer of its block and in no other
LEMMA PinCounted ==
  ASSUME Counted, RefInt, RefInt', NEW b \in Bufs, NEW n, NEW d \in {-1, 0, 1},
         blockno[b] = n, \A a \in Bufs : a # b => blockno[a] # n,
         UNCHANGED <<blockno, buf>>,
         \A m : m # n => (m \in pinned' <=> m \in pinned),
         \A a \in Bufs : refcnt'[a] = IF a = b THEN refcnt[a] + d ELSE refcnt[a],
         PinOf(b)' = PinOf(b) + d
  PROVE  Counted'
<1> SUFFICES ASSUME NEW a \in Bufs PROVE refcnt'[a] = Cardinality(UsersOf(a)') + PinOf(a)'
  BY DEF Counted
<1>1. UsersOf(a)' = UsersOf(a) /\ refcnt[a] = Cardinality(UsersOf(a)) + PinOf(a)
  BY DEF Counted, UsersOf
<1>2. Cardinality(UsersOf(a)) \in Nat /\ PinOf(a) \in Int
  BY UsersFinite DEF PinOf
<1>3. PinOf(a)' = IF a = b THEN PinOf(a) + d ELSE PinOf(a)
  BY DEF PinOf
<1> QED
  BY <1>1, <1>2, <1>3

\* nobody has an unused buffer, and it is not pinned
LEMMA UnusedFree ==
  ASSUME Counted, NEW b \in Bufs, refcnt[b] = 0
  PROVE  (\A p \in Procs : buf[p] # b) /\ blockno[b] \notin pinned
<1>1. Cardinality(UsersOf(b)) = 0 /\ PinOf(b) = 0
  BY UsersFinite DEF Counted, PinOf
<1>2. UsersOf(b) = {}
  BY <1>1, UsersFinite, FS_EmptySet
<1> QED
  BY <1>1, <1>2 DEF UsersOf, PinOf

-----------------------------------------------------------------------------
(***************************************************************************)
(* Every action preserves the invariant.                                   *)
(***************************************************************************)
\* bget() finds the block
LEMMA BgetHitInv ==
  ASSUME Inv, NEW p \in Procs, NEW n \in Blocks, bget_hit(p, n)
  PROVE  Inv'
<1>0. PICK b \in Cached(n) : /\ refcnt' = [refcnt EXCEPT ![b] = @ + 1]
                             /\ buf' = [buf EXCEPT ![p] = b]
  BY DEF bget_hit
<1>a. b \in Bufs /\ blockno[b] = n
  BY DEF Cached
<1>b. buf[p] = None
  BY DEF Inv, Given, bget_hit
<1> USE <1>0, <1>a, <1>b, Buffers DEF Inv, bget_hit, Goto
<1>2. Distinct'
  BY DEF TypeOK, Distinct
<1>3. Given'
  BY DEF TypeOK, Given
<1>4. Counted'
  <2>1. \A a \in Bufs : Cardinality(UsersOf(a)') =
                           IF a = b THEN Cardinality(UsersOf(a)) + 1 ELSE Cardinality(UsersOf(a))
    BY UsersJoin
  <2> QED
    BY <2>1, UsersFinite DEF TypeOK, Counted, PinOf
<1>5. Pins'
  BY DEF TypeOK, Pins
<1>1. TypeOK'
  <2>1. RefInt'
    BY RefType DEF RefInt
  <2>2. RefBounded'
    BY <1>4, <1>5, <2>1, RefBound, PTL
  <2> QED
    BY <2>2 DEF TypeOK, RefBounded
<1>6. Locking'
  BY DEF TypeOK, Locking, Given
<1>7. Asleep'
  BY DEF TypeOK, Asleep, Given, Locking
<1>8. Coherent'
  BY DEF TypeOK, Coherent, Given, Distinct, Locking
<1>9. PanicsOnlyFull'
  BY DEF TypeOK, PanicsOnlyFull, LockFree
<1> QED
  BY <1>1, <1>2, <1>3, <1>4, <1>5, <1>6, <1>7, <1>8, <1>9 DEF Inv

\* bget() recycles a buffer
LEMMA BgetMissInv ==
  ASSUME Inv, NEW p \in Procs, NEW n \in Blocks, bget_miss(p, n), Unused # {}
  PROVE  Inv'
<1>a. Unused # {} /\ LockFree
  BY DEF bget_miss
<1> DEFINE b == LeastRecent
<1>b. b \in Bufs /\ refcnt[b] = 0
  BY <1>a, Recycled DEF Inv
<1>c. (\A q \in Procs : buf[q] # b) /\ blockno[b] \notin pinned
  BY <1>b, UnusedFree DEF Inv
<1>d. /\ pc[p] = "idle" /\ Cached(n) = {}
      /\ blockno' = [blockno EXCEPT ![b] = n]
      /\ valid' = [valid EXCEPT ![b] = FALSE]
      /\ refcnt' = [refcnt EXCEPT ![b] = 1]
      /\ buf' = [buf EXCEPT ![p] = b]
      /\ want' = [want EXCEPT ![p] = n]
      /\ pc' = [pc EXCEPT ![p] = "lock"]
      /\ UNCHANGED <<lru, data, locked, pinned, disk>>
  BY <1>a DEF bget_miss, Goto
<1>e. buf[p] = None
  BY <1>d DEF Inv, Given
<1>f. n \notin pinned /\ \A a \in Bufs : blockno[a] # n
  BY <1>d DEF Inv, Pins, Cached
<1> HIDE DEF b
<1> USE <1>a, <1>b, <1>c, <1>d, <1>e, <1>f, Buffers DEF Inv
<1>2. Distinct'
  BY DEF TypeOK, Distinct
<1>3. Given'
  BY DEF TypeOK, Given
<1>4. Counted'
  <2>1. \A a \in Bufs : Cardinality(UsersOf(a)') =
                           IF a = b THEN Cardinality(UsersOf(a)) + 1 ELSE Cardinality(UsersOf(a))
    BY UsersJoin
  <2> QED
    BY <2>1, UsersFinite DEF TypeOK, Counted, PinOf
<1>5. Pins'
  BY DEF TypeOK, Pins
<1>1. TypeOK'
  <2>1. RefInt'
    BY RefType DEF RefInt
  <2>2. RefBounded'
    BY <1>4, <1>5, <2>1, RefBound, PTL
  <2> QED
    BY <2>2 DEF TypeOK, RefBounded
<1>6. Locking'
  BY DEF TypeOK, Locking, Given
<1>7. Asleep'
  BY DEF TypeOK, Asleep, Given, Locking
<1>8. Coherent'
  BY DEF TypeOK, Coherent, Given, Distinct, Locking
<1>9. PanicsOnlyFull'
  BY DEF TypeOK, PanicsOnlyFull, LockFree
<1> QED
  BY <1>1, <1>2, <1>3, <1>4, <1>5, <1>6, <1>7, <1>8, <1>9 DEF Inv

\* bget() finds no unused buffer: a process has each of them, or the log has pinned it
LEMMA BgetPanicInv ==
  ASSUME Inv, NEW p \in Procs, NEW n \in Blocks, bget_miss(p, n), Unused = {}
  PROVE  Inv'
<1>1. /\ pc[p] = "idle" /\ pc' = [pc EXCEPT ![p] = "panic"]
      /\ UNCHANGED <<bufVars, disk, want, buf>>
  BY DEF bget_miss, Goto, bufVars
<1>2. \A b \in Bufs : refcnt[b] # 0
  <2>1. IsFiniteSet(Bufs)
    BY FS_Interval, BufCacheAssumption DEF Bufs
  <2>2. lru \in Injection(Bufs, Bufs)
    BY DEF Inv, TypeOK, Injection
  <2>3. lru \in Surjection(Bufs, Bufs)
    BY <2>1, <2>2, FS_Injection
  <2> QED
    BY <2>3 DEF Unused, Surjection
<1>3. PanicsOnlyFull'
  <2> SUFFICES ASSUME NEW b \in Bufs, UsersOf(b) = {} PROVE blockno[b] \in pinned
    BY <1>1 DEF PanicsOnlyFull, UsersOf, bufVars
  <2>1. Cardinality(UsersOf(b)) = 0
    BY FS_EmptySet
  <2> QED
    BY <1>2, <2>1 DEF Inv, Counted, PinOf
<1>4. TypeOK' /\ Distinct' /\ Given' /\ Pins' /\ Locking' /\ Asleep' /\ Coherent'
  BY <1>1 DEF Inv, bufVars, TypeOK, Distinct, Given, Pins, Locking, Asleep, Coherent
<1>5. Counted'
  BY <1>1 DEF Inv, bufVars, Counted, UsersOf, PinOf
<1> QED
  BY <1>3, <1>4, <1>5 DEF Inv

\* acquiresleep()
LEMMA AcquiresleepInv ==
  ASSUME Inv, NEW p \in Procs, acquiresleep(p)
  PROVE  Inv'
<1>a. buf[p] \in Bufs /\ blockno[buf[p]] = want[p] /\ want[p] \in Blocks
  BY DEF Inv, Given, acquiresleep
<1> USE <1>a, Buffers DEF Inv, acquiresleep, Goto
<1>2. Distinct'
  BY DEF TypeOK, Distinct
<1>3. Given'
  BY DEF TypeOK, Given
<1>4. Counted'
  BY UsersFinite DEF TypeOK, Distinct, Counted, PinOf, UsersOf
<1>5. Pins'
  BY DEF TypeOK, Pins
<1>1. TypeOK'
  BY DEF TypeOK, Coherent
<1>6. Locking'
  BY DEF TypeOK, Locking, Given
<1>7. Asleep'
  <2>1. \A q \in Procs : pc[q] = "asleep" => buf[q] \in Bufs
    BY DEF Given
  <2>2. CASE locked[buf[p]] = None
    BY <2>1, <2>2 DEF TypeOK, Asleep
  <2>3. CASE locked[buf[p]] # None
    BY <2>1, <2>3 DEF TypeOK, Asleep
  <2> QED
    BY <2>2, <2>3
<1>8. Coherent'
  BY DEF TypeOK, Coherent, Given, Distinct, Locking
<1>9. PanicsOnlyFull'
  BY DEF TypeOK, PanicsOnlyFull, LockFree
<1> QED
  BY <1>1, <1>2, <1>3, <1>4, <1>5, <1>6, <1>7, <1>8, <1>9 DEF Inv

\* bread() of a valid buffer
LEMMA BreadCachedInv ==
  ASSUME Inv, NEW p \in Procs, bread_cached(p)
  PROVE  Inv'
<1> USE Buffers DEF Inv, bread_cached, Goto, bufVars
<1>2. Distinct'
  BY DEF TypeOK, Distinct
<1>3. Given'
  BY DEF TypeOK, Given
<1>4. Counted'
  BY DEF bufVars, Counted, PinOf, UsersOf
<1>5. Pins'
  BY DEF TypeOK, Pins
<1>1. TypeOK'
  BY DEF TypeOK, Coherent
<1>6. Locking'
  BY DEF TypeOK, Locking, Given
<1>7. Asleep'
  BY DEF TypeOK, Asleep, Given, Locking
<1>8. Coherent'
  BY DEF TypeOK, Coherent, Given, Distinct, Locking
<1>9. PanicsOnlyFull'
  BY DEF TypeOK, PanicsOnlyFull, LockFree
<1> QED
  BY <1>1, <1>2, <1>3, <1>4, <1>5, <1>6, <1>7, <1>8, <1>9 DEF Inv

\* bread() from the disk
LEMMA BreadInv ==
  ASSUME Inv, NEW p \in Procs, bread(p)
  PROVE  Inv'
<1>a. buf[p] \in Bufs /\ blockno[buf[p]] = want[p] /\ want[p] \in Blocks
  BY DEF Inv, Given, bread
<1> USE <1>a, Buffers DEF Inv, bread, Goto
<1>2. Distinct'
  BY DEF TypeOK, Distinct
<1>3. Given'
  BY DEF TypeOK, Given
<1>4. Counted'
  BY UsersFinite DEF TypeOK, Distinct, Counted, PinOf, UsersOf
<1>5. Pins'
  BY DEF TypeOK, Pins
<1>1. TypeOK'
  BY DEF TypeOK, Coherent
<1>6. Locking'
  BY DEF TypeOK, Locking, Given
<1>7. Asleep'
  BY DEF TypeOK, Asleep, Given, Locking
<1>8. Coherent'
  BY DEF TypeOK, Coherent, Given, Distinct, Locking
<1>9. PanicsOnlyFull'
  BY DEF TypeOK, PanicsOnlyFull, LockFree
<1> QED
  BY <1>1, <1>2, <1>3, <1>4, <1>5, <1>6, <1>7, <1>8, <1>9 DEF Inv

\* bwrite()
LEMMA BwriteInv ==
  ASSUME Inv, NEW p \in Procs, NEW v \in Values, bwrite(p, v)
  PROVE  Inv'
<1>a. buf[p] \in Bufs /\ blockno[buf[p]] = want[p] /\ want[p] \in Blocks
  BY DEF Inv, Given, bwrite
<1> USE <1>a, Buffers DEF Inv, bwrite
<1>2. Distinct'
  BY DEF TypeOK, Distinct
<1>3. Given'
  BY DEF TypeOK, Given
<1>4. Counted'
  BY UsersFinite DEF TypeOK, Distinct, Counted, PinOf, UsersOf
<1>5. Pins'
  BY DEF TypeOK, Pins
<1>1. TypeOK'
  BY DEF TypeOK, Coherent
<1>6. Locking'
  BY DEF TypeOK, Locking, Given
<1>7. Asleep'
  BY DEF TypeOK, Asleep, Given, Locking
<1>8. Coherent'
  <2>1. \A b \in Bufs : b # buf[p] => blockno[b] # want[p]
    BY DEF Distinct
  <2>2. /\ disk'[want[p]] = data'[buf[p]] /\ data'[buf[p]] \in Values
        /\ \A n \in Blocks : n # want[p] => disk'[n] = disk[n] /\ (n \in pinned' <=> n \in pinned)
        /\ \A b \in Bufs : b # buf[p] => data'[b] = data[b]
    BY DEF TypeOK, Coherent
  <2> QED
    BY <2>1, <2>2 DEF TypeOK, Coherent
<1>9. PanicsOnlyFull'
  BY DEF TypeOK, PanicsOnlyFull, LockFree
<1> QED
  BY <1>1, <1>2, <1>3, <1>4, <1>5, <1>6, <1>7, <1>8, <1>9 DEF Inv

\* log_write() with bpin()
LEMMA BpinInv ==
  ASSUME Inv, NEW p \in Procs, NEW v \in Values, bpin(p, v)
  PROVE  Inv'
<1>a. buf[p] \in Bufs /\ blockno[buf[p]] = want[p] /\ want[p] \in Blocks
  BY DEF Inv, Given, bpin
<1> USE <1>a, Buffers DEF Inv, bpin
<1>2. Distinct'
  BY DEF TypeOK, Distinct
<1>3. Given'
  BY DEF TypeOK, Given
<1>4. Counted'
  <2> DEFINE d == IF want[p] \in pinned THEN 0 ELSE 1
  <2>1. RefInt /\ RefInt'
    BY RefType DEF RefInt
  <2>2. \A a \in Bufs : refcnt'[a] = IF a = buf[p] THEN refcnt[a] + d ELSE refcnt[a]
    BY <2>1 DEF RefInt
  <2>3. PinOf(buf[p])' = PinOf(buf[p]) + d
    BY DEF PinOf
  <2>4. \A a \in Bufs : a # buf[p] => blockno[a] # want[p]
    BY DEF Distinct
  <2>5. d \in {-1, 0, 1}
    OBVIOUS
  <2> HIDE DEF d
  <2> QED
    BY <2>1, <2>2, <2>3, <2>4, <2>5, PinCounted
<1>5. Pins'
  <2>1. IsFiniteSet(pinned') /\ Cardinality(pinned') <= PinLimit
    <3>1. CASE want[p] \in pinned
      <4>1. pinned' = pinned
        BY <3>1
      <4> QED
        BY <4>1 DEF Pins
    <3>2. CASE want[p] \notin pinned
      <4>1. IsFiniteSet(pinned') /\ Cardinality(pinned') = Cardinality(pinned) + 1
        BY <3>2, FS_AddElement DEF Pins
      <4>2. Cardinality(pinned) \in Nat /\ Cardinality(pinned) < PinLimit
        BY <3>2, FS_CardinalityType DEF Pins
      <4> QED
        BY <4>1, <4>2, BufCacheAssumption
    <3> QED
      BY <3>1, <3>2
  <2> QED
    BY <2>1 DEF TypeOK, Pins, Coherent
<1>1. TypeOK'
  <2>1. RefInt'
    BY RefType DEF RefInt
  <2>2. RefBounded'
    BY <1>4, <1>5, <2>1, RefBound, PTL
  <2> QED
    BY <2>2 DEF TypeOK, RefBounded
<1>6. Locking'
  BY DEF TypeOK, Locking, Given
<1>7. Asleep'
  BY DEF TypeOK, Asleep, Given, Locking
<1>8. Coherent'
  BY DEF TypeOK, Coherent, Given, Distinct, Locking
<1>9. PanicsOnlyFull'
  BY DEF TypeOK, PanicsOnlyFull, LockFree
<1> QED
  BY <1>1, <1>2, <1>3, <1>4, <1>5, <1>6, <1>7, <1>8, <1>9 DEF Inv

\* install_trans() with bunpin()
LEMMA BunpinInv ==
  ASSUME Inv, NEW p \in Procs, bunpin(p)
  PROVE  Inv'
<1>a. buf[p] \in Bufs /\ blockno[buf[p]] = want[p] /\ want[p] \in Blocks
  BY DEF Inv, Given, bunpin
<1> USE <1>a, Buffers DEF Inv, bunpin
<1>2. Distinct'
  BY DEF TypeOK, Distinct
<1>3. Given'
  BY DEF TypeOK, Given
<1>4. Counted'
  <2>1. RefInt /\ RefInt'
    BY RefType, RefDown
  <2>2. \A a \in Bufs : refcnt'[a] = IF a = buf[p] THEN refcnt[a] + (-1) ELSE refcnt[a]
    BY <2>1 DEF RefInt
  <2>3. PinOf(buf[p])' = PinOf(buf[p]) + (-1)
    BY DEF PinOf
  <2>4. \A a \in Bufs : a # buf[p] => blockno[a] # want[p]
    BY DEF Distinct
  <2> QED
    BY <2>1, <2>2, <2>3, <2>4, PinCounted
<1>5. Pins'
  <2>1. IsFiniteSet(pinned') /\ Cardinality(pinned') <= PinLimit
    <3>1. /\ pinned' \in SUBSET pinned /\ IsFiniteSet(pinned)
          /\ Cardinality(pinned) <= PinLimit
      BY DEF Pins
    <3>2. /\ IsFiniteSet(pinned') /\ Cardinality(pinned') <= Cardinality(pinned)
          /\ Cardinality(pinned') \in Nat /\ Cardinality(pinned) \in Nat
      BY <3>1, FS_Subset, FS_CardinalityType
    <3> QED
      BY <3>1, <3>2, BufCacheAssumption
  <2> QED
    BY <2>1 DEF TypeOK, Pins
<1>1. TypeOK'
  <2>1. RefInt'
    BY RefType, RefDown
  <2>2. RefBounded'
    BY <1>4, <1>5, <2>1, RefBound, PTL
  <2>3. disk' \in [Blocks -> Values]
    BY DEF TypeOK, Coherent
  <2> QED
    BY <2>2, <2>3 DEF TypeOK, RefBounded
<1>6. Locking'
  BY DEF TypeOK, Locking, Given
<1>7. Asleep'
  BY DEF TypeOK, Asleep, Given, Locking
<1>8. Coherent'
  <2>1. \A b \in Bufs : b # buf[p] => blockno[b] # want[p]
    BY DEF Distinct
  <2>2. /\ disk'[want[p]] = data'[buf[p]] /\ data'[buf[p]] \in Values
        /\ \A n \in Blocks : n # want[p] => disk'[n] = disk[n] /\ (n \in pinned' <=> n \in pinned)
        /\ \A b \in Bufs : b # buf[p] => data'[b] = data[b]
    BY DEF TypeOK, Coherent
  <2> QED
    BY <2>1, <2>2 DEF TypeOK, Coherent
<1>9. PanicsOnlyFull'
  BY DEF TypeOK, PanicsOnlyFull, LockFree
<1> QED
  BY <1>1, <1>2, <1>3, <1>4, <1>5, <1>6, <1>7, <1>8, <1>9 DEF Inv

\* releasesleep()
LEMMA ReleasesleepInv ==
  ASSUME Inv, NEW p \in Procs, releasesleep(p)
  PROVE  Inv'
<1>a. buf[p] \in Bufs /\ blockno[buf[p]] = want[p] /\ want[p] \in Blocks
  BY DEF Inv, Given, releasesleep
<1> USE <1>a, Buffers DEF Inv, releasesleep
<1>2. Distinct'
  BY DEF TypeOK, Distinct
<1>3. Given'
  BY DEF TypeOK, Given
<1>4. Counted'
  BY UsersFinite DEF TypeOK, Distinct, Counted, PinOf, UsersOf
<1>5. Pins'
  BY DEF TypeOK, Pins
<1>1. TypeOK'
  BY DEF TypeOK, Coherent
<1>6. Locking'
  BY DEF TypeOK, Locking, Given
<1>7. Asleep'
  BY DEF TypeOK, Asleep, Given, Locking
<1>8. Coherent'
  BY DEF TypeOK, Coherent, Given, Distinct, Locking
<1>9. PanicsOnlyFull'
  BY DEF TypeOK, PanicsOnlyFull, LockFree
<1> QED
  BY <1>1, <1>2, <1>3, <1>4, <1>5, <1>6, <1>7, <1>8, <1>9 DEF Inv

\* the count and the list in brelse()
LEMMA BrelseInv ==
  ASSUME Inv, NEW p \in Procs, brelse(p)
  PROVE  Inv'
<1>a. buf[p] \in Bufs
  BY DEF Inv, Given, brelse
<1> USE <1>a, Buffers DEF Inv, brelse, Goto
<1>2. Distinct'
  BY DEF TypeOK, Distinct
<1>3. Given'
  BY DEF TypeOK, Given
<1>4. Counted'
  <2>1. \A a \in Bufs : Cardinality(UsersOf(a)') =
                      IF a = buf[p] THEN Cardinality(UsersOf(a)) - 1 ELSE Cardinality(UsersOf(a))
    BY UsersLeave
  <2> QED
    BY <2>1, UsersFinite DEF TypeOK, Counted, PinOf
<1>5. Pins'
  BY DEF TypeOK, Pins
<1>1. TypeOK'
  <2>1. RefInt'
    BY RefType, RefDown
  <2>2. RefBounded'
    BY <1>4, <1>5, <2>1, RefBound, PTL
  <2>3. lru' \in [Bufs -> Bufs] /\ IsInjective(lru')
    BY Moved DEF TypeOK
  <2> QED
    BY <2>2, <2>3 DEF TypeOK, RefBounded
<1>6. Locking'
  BY DEF TypeOK, Locking, Given
<1>7. Asleep'
  BY DEF TypeOK, Asleep, Given, Locking
<1>8. Coherent'
  BY DEF TypeOK, Coherent, Given, Distinct, Locking
<1>9. PanicsOnlyFull'
  BY DEF TypeOK, PanicsOnlyFull, LockFree
<1> QED
  BY <1>1, <1>2, <1>3, <1>4, <1>5, <1>6, <1>7, <1>8, <1>9 DEF Inv

\* kill()
LEMMA KillInv ==
  ASSUME Inv, NEW p \in Procs, kill(p)
  PROVE  Inv'
<1> USE Buffers DEF Inv, kill, Goto, bufVars
<1>2. Distinct'
  BY DEF TypeOK, Distinct
<1>3. Given'
  BY DEF TypeOK, Given
<1>4. Counted'
  BY DEF bufVars, Counted, PinOf, UsersOf
<1>5. Pins'
  BY DEF TypeOK, Pins
<1>1. TypeOK'
  BY DEF TypeOK, Coherent
<1>6. Locking'
  BY DEF TypeOK, Locking, Given
<1>7. Asleep'
  BY DEF TypeOK, Asleep, Given, Locking
<1>8. Coherent'
  BY DEF TypeOK, Coherent, Given, Distinct, Locking
<1>9. PanicsOnlyFull'
  BY DEF TypeOK, PanicsOnlyFull, LockFree
<1> QED
  BY <1>1, <1>2, <1>3, <1>4, <1>5, <1>6, <1>7, <1>8, <1>9 DEF Inv

-----------------------------------------------------------------------------
(***************************************************************************)
(* The steps of the cache as steps of the block store.                     *)
(***************************************************************************)
\* what a reader gets: the data of the valid buffer of the block, else the disk's
Registers ==
  /\ \A b \in Bufs : valid[b] => Contents(blockno[b]) = data[b]
  /\ \A n \in Blocks : (\A b \in Bufs : blockno[b] = n => ~valid[b]) => Contents(n) = disk[n]

\* the holder of a block is the process that uses it, if there is one
Holding ==
  \A n \in Blocks : /\ \A p \in Procs : Holder(n) = p <=> pc[p] = "hold" /\ want[p] = n
                    /\ Holder(n) \in Procs \cup {None}

\* so it is in every state that satisfies the invariant
LEMMA Contained == Inv => Registers
<1> SUFFICES ASSUME Inv PROVE Registers
  OBVIOUS
<1>1. ASSUME NEW b \in Bufs, valid[b] PROVE Contents(blockno[b]) = data[b]
  <2>1. b \in Cached(blockno[b]) /\ blockno[b] # None
    BY <1>1, Buffers DEF Cached, Inv, Coherent
  <2>2. \A a \in Cached(blockno[b]) : a = b
    BY <2>1 DEF Cached, Inv, Distinct
  <2> QED
    BY <1>1, <2>1, <2>2 DEF Contents
<1>2. ASSUME NEW n \in Blocks, \A b \in Bufs : blockno[b] = n => ~valid[b]
      PROVE  Contents(n) = disk[n]
  BY <1>2 DEF Contents, Cached
<1> QED
  BY <1>1, <1>2 DEF Registers

\* two users of a block would hold the same sleep-lock
LEMMA OneUser ==
  ASSUME Inv, NEW p \in Procs, NEW q \in Procs, pc[p] \in {"bread", "hold"},
         pc[q] \in {"bread", "hold"}, want[p] = want[q]
  PROVE  p = q
<1>1. /\ buf[p] \in Bufs /\ blockno[buf[p]] = want[p] /\ want[p] # None
      /\ buf[q] \in Bufs /\ blockno[buf[q]] = want[q]
  BY Buffers DEF Inv, Given
<1>2. buf[p] = buf[q]
  BY <1>1 DEF Inv, Distinct
<1> QED
  BY <1>1, <1>2 DEF Inv, Locking

\* so it is in every state that satisfies the invariant
LEMMA Held == Inv => Holding
<1> SUFFICES ASSUME Inv, NEW n \in Blocks
             PROVE  /\ \A p \in Procs : Holder(n) = p <=> pc[p] = "hold" /\ want[p] = n
                    /\ Holder(n) \in Procs \cup {None}
  BY DEF Holding
<1>1. CASE Users(n) = {}
  BY <1>1, Buffers DEF Holder, Users
<1>2. CASE Users(n) # {}
  <2>1. Holder(n) \in Users(n)
    BY <1>2 DEF Holder
  <2>2. \A p, q \in Users(n) : p = q
    BY OneUser DEF Users
  <2> QED
    BY <2>1, <2>2 DEF Users
<1> QED
  BY <1>1, <1>2

\* the abstract state
Mem == [n \in Blocks |-> Contents(n)]
Hold == [n \in Blocks |-> Holder(n)]

\* a step that starts or ends nobody's use leaves the holders alone
LEMMA SameHolders ==
  ASSUME \A q \in Procs : pc'[q] = "hold" <=> pc[q] = "hold",
         \A q \in Procs : pc[q] = "hold" => want'[q] = want[q]
  PROVE  Hold' = Hold
<1>1. ASSUME NEW n \in Blocks PROVE Holder(n)' = Holder(n)
  <2>1. Users(n)' = Users(n)
    BY DEF Users
  <2> QED
    BY <2>1 DEF Holder
<1> QED
  BY <1>1 DEF Hold

\* a step that touches no data leaves the contents alone
LEMMA SameContents ==
  ASSUME UNCHANGED <<blockno, valid, data, disk>>
  PROVE  Mem' = Mem
BY DEF Mem, Contents, Cached

\* recycling a buffer leaves the contents alone: what it held is on the disk
LEMMA RecycledContents ==
  ASSUME Inv, Inv', NEW b \in Bufs, refcnt[b] = 0, NEW n \in Blocks,
         \A a \in Bufs : blockno[a] # n, blockno' = [blockno EXCEPT ![b] = n],
         valid' = [valid EXCEPT ![b] = FALSE], UNCHANGED <<data, disk>>
  PROVE  Mem' = Mem
<1>1. Registers /\ Registers'
  BY Contained, PTL
<1>2. blockno[b] \notin pinned
  BY UnusedFree DEF Inv
<1>3. ASSUME NEW m \in Blocks PROVE Contents(m)' = Contents(m)
  <2>1. CASE \E a \in Bufs : a # b /\ blockno[a] = m /\ valid[a]
    BY <1>1, <2>1 DEF Registers, Inv, TypeOK
  <2>2. CASE blockno[b] = m /\ valid[b]
    <3>1. \A a \in Bufs : blockno'[a] = m => ~valid'[a]
      BY <2>2, Buffers DEF Inv, TypeOK, Distinct
    <3>2. Contents(m)' = disk[m]
      BY <1>1, <3>1 DEF Registers
    <3> QED
      BY <1>1, <1>2, <2>2, <3>2 DEF Registers, Inv, Coherent
  <2>3. CASE \A a \in Bufs : blockno[a] = m => ~valid[a]
    <3>1. \A a \in Bufs : blockno'[a] = m => ~valid'[a]
      BY <2>3 DEF Inv, TypeOK
    <3> QED
      BY <1>1, <2>3, <3>1 DEF Registers
  <2> QED
    BY <2>1, <2>2, <2>3
<1> QED
  BY <1>3 DEF Mem

\* bread() fills the buffer with what a reader would have got from the disk
LEMMA FilledContents ==
  ASSUME Inv, Inv', NEW b \in Bufs, ~valid[b], blockno[b] \in Blocks,
         data' = [data EXCEPT ![b] = disk[blockno[b]]],
         valid' = [valid EXCEPT ![b] = TRUE], UNCHANGED <<blockno, disk>>
  PROVE  Mem' = Mem
<1>1. Registers /\ Registers'
  BY Contained, PTL
<1>2. ASSUME NEW m \in Blocks PROVE Contents(m)' = Contents(m)
  <2>1. CASE blockno[b] = m
    <3>1. \A a \in Bufs : blockno[a] = m => a = b
      BY <2>1, Buffers DEF Inv, Distinct
    <3>2. Contents(m) = disk[m]
      BY <1>1, <3>1 DEF Registers
    <3>3. valid'[b] /\ data'[b] = disk[m] /\ blockno'[b] = m
      BY <2>1 DEF Inv, TypeOK
    <3> QED
      BY <1>1, <3>2, <3>3 DEF Registers
  <2>2. CASE blockno[b] # m
    <3>1. \A a \in Bufs : blockno[a] = m => valid'[a] = valid[a] /\ data'[a] = data[a]
      BY <2>2 DEF Inv, TypeOK
    <3>2. CASE \E a \in Bufs : blockno[a] = m /\ valid[a]
      BY <1>1, <3>1, <3>2 DEF Registers
    <3>3. CASE \A a \in Bufs : blockno[a] = m => ~valid[a]
      BY <1>1, <3>1, <3>3 DEF Registers
    <3> QED
      BY <3>2, <3>3
  <2> QED
    BY <2>1, <2>2
<1> QED
  BY <1>2 DEF Mem

\* the holder of a block changes its contents and those of no other
LEMMA ChangedContents ==
  ASSUME Inv, Inv', NEW b \in Bufs, valid[b], NEW v,
         data' = [data EXCEPT ![b] = v], UNCHANGED <<blockno, valid>>,
         \A n \in Blocks : n # blockno[b] => disk'[n] = disk[n]
  PROVE  Mem' = [Mem EXCEPT ![blockno[b]] = v]
<1>1. Registers /\ Registers'
  BY Contained, PTL
<1>2. Contents(blockno[b])' = v
  BY <1>1 DEF Registers, Inv, TypeOK
<1>3. ASSUME NEW m \in Blocks, m # blockno[b] PROVE Contents(m)' = Contents(m)
  <2>1. \A a \in Bufs : blockno[a] = m => data'[a] = data[a]
    BY <1>3 DEF Inv, TypeOK
  <2> QED
    BY <1>1, <1>3, <2>1 DEF Registers
<1>4. Mem' = [n \in Blocks |-> IF n = blockno[b] THEN v ELSE Contents(n)]
  BY <1>2, <1>3 DEF Mem
<1> QED
  BY <1>4 DEF Mem

\* a process begins to use a block that nobody uses
LEMMA AcquireStep ==
  ASSUME Inv, Inv', NEW p \in Procs, pc[p] = "bread", pc' = [pc EXCEPT ![p] = "hold"],
         UNCHANGED want
  PROVE  /\ want[p] \in Blocks /\ Hold[want[p]] = None
         /\ Hold' = [Hold EXCEPT ![want[p]] = p]
<1>1. Holding /\ Holding'
  BY Held, PTL
<1>2. want[p] \in Blocks
  BY DEF Inv, Given
<1>3. Holder(want[p]) = None
  <2>1. \A q \in Procs : ~(pc[q] = "hold" /\ want[q] = want[p])
    BY OneUser
  <2> QED
    BY <1>1, <1>2, <2>1 DEF Holding
<1>4. Holder(want[p])' = p
  BY <1>1, <1>2 DEF Holding, Inv, TypeOK
<1>5. ASSUME NEW m \in Blocks, m # want[p] PROVE Holder(m)' = Holder(m)
  <2>1. Users(m)' = Users(m)
    BY <1>5 DEF Users, Inv, TypeOK
  <2> QED
    BY <2>1 DEF Holder
<1> QED
  BY <1>2, <1>3, <1>4, <1>5 DEF Hold

\* the user of a block stops using it
LEMMA ReleaseStep ==
  ASSUME Inv, Inv', NEW p \in Procs, releasesleep(p)
  PROVE  /\ want[p] \in Blocks /\ Hold[want[p]] = p
         /\ Hold' = [Hold EXCEPT ![want[p]] = None]
<1>1. Holding /\ Holding'
  BY Held, PTL
<1>2. want[p] \in Blocks /\ pc[p] = "hold" /\ want' = want
  BY DEF Inv, Given, releasesleep
<1>3. Holder(want[p]) = p
  BY <1>1, <1>2 DEF Holding
<1>4. \A q \in Procs : pc'[q] = "hold" <=> pc[q] = "hold" /\ q # p
  BY DEF releasesleep, Inv, TypeOK
<1>5. Holder(want[p])' = None
  <2>1. \A q \in Procs : ~(pc'[q] = "hold" /\ want'[q] = want[p])
    BY <1>2, <1>4, OneUser
  <2> QED
    BY <1>1, <1>2, <2>1 DEF Holding
<1>6. ASSUME NEW m \in Blocks, m # want[p] PROVE Holder(m)' = Holder(m)
  <2>1. Users(m)' = Users(m)
    BY <1>2, <1>4, <1>6 DEF Users
  <2> QED
    BY <2>1 DEF Holder
<1> QED
  BY <1>2, <1>3, <1>5, <1>6 DEF Hold

\* every step of the cache is a step of the store or leaves it alone
LEMMA StoreNext ==
  ASSUME Inv, Inv', NEW p \in Procs, Step(p)
  PROVE  Store!Next \/ (Mem' = Mem /\ Hold' = Hold)
<1>1. ASSUME NEW n \in Blocks, bget_hit(p, n) PROVE Mem' = Mem /\ Hold' = Hold
  BY <1>1, SameHolders, SameContents DEF bget_hit, Goto, Inv, TypeOK
<1>2. ASSUME NEW n \in Blocks, bget_miss(p, n), Unused # {} PROVE Mem' = Mem /\ Hold' = Hold
  <2>1. Unused # {}
    BY <1>2
  <2>2. LeastRecent \in Bufs /\ refcnt[LeastRecent] = 0
    BY <2>1, Recycled DEF Inv
  <2>3. Mem' = Mem
    BY <1>2, <2>1, <2>2, RecycledContents DEF bget_miss, Cached
  <2>4. Hold' = Hold
    BY <1>2, <2>1, SameHolders DEF bget_miss, Goto, Inv, TypeOK
  <2> QED
    BY <2>3, <2>4
<1>3. CASE acquiresleep(p)
  BY <1>3, SameHolders, SameContents DEF acquiresleep, Goto, Inv, TypeOK
<1>4. CASE bread_cached(p)
  <2>1. Mem' = Mem
    BY <1>4, SameContents DEF bread_cached, bufVars
  <2>2. /\ want[p] \in Blocks /\ Hold[want[p]] = None
        /\ Hold' = [Hold EXCEPT ![want[p]] = p]
    BY <1>4, AcquireStep DEF bread_cached, Goto
  <2> QED
    BY <2>1, <2>2 DEF Store!Next, Store!Acquire, Mem, Hold
<1>5. CASE bread(p)
  <2>1. buf[p] \in Bufs /\ blockno[buf[p]] \in Blocks
    BY <1>5 DEF bread, Inv, Given
  <2>2. Mem' = Mem
    BY <1>5, <2>1, FilledContents DEF bread
  <2>3. /\ want[p] \in Blocks /\ Hold[want[p]] = None
        /\ Hold' = [Hold EXCEPT ![want[p]] = p]
    BY <1>5, AcquireStep DEF bread, Goto
  <2> QED
    BY <2>2, <2>3 DEF Store!Next, Store!Acquire, Mem, Hold
<1>6. ASSUME NEW v \in Values, bwrite(p, v) \/ bpin(p, v) PROVE Store!Next
  <2>1. /\ pc[p] = "hold" /\ buf[p] \in Bufs /\ valid[buf[p]]
        /\ blockno[buf[p]] = want[p] /\ want[p] \in Blocks
    BY <1>6 DEF bwrite, bpin, Inv, Given, Coherent
  <2>2. \A n \in Blocks : n # want[p] => disk'[n] = disk[n]
    BY <1>6, <2>1 DEF bwrite, bpin, Inv, TypeOK
  <2>3. Mem' = [Mem EXCEPT ![want[p]] = v]
    BY <1>6, <2>1, <2>2, ChangedContents DEF bwrite, bpin
  <2>4. Hold' = Hold
    BY <1>6, SameHolders DEF bwrite, bpin
  <2>5. Hold[want[p]] = p
    BY <2>1, Held DEF Holding, Hold
  <2>6. Store!Write(p, want[p], v)
    BY <2>3, <2>4, <2>5 DEF Store!Write, Mem, Hold
  <2> QED
    BY <2>1, <2>6, <1>6 DEF Store!Next
<1>7. CASE bunpin(p)
  <2> DEFINE b == buf[p]
             v == data[b]
  <2>1. b \in Bufs /\ valid[b] /\ blockno[b] \in Blocks
    BY <1>7 DEF bunpin, Inv, Given, Coherent
  <2>2. /\ data' = [data EXCEPT ![b] = v] /\ UNCHANGED <<blockno, valid>>
        /\ \A n \in Blocks : n # blockno[b] => disk'[n] = disk[n]
    BY <1>7, <2>1 DEF bunpin, Inv, TypeOK
  <2>3. Mem[blockno[b]] = v
    BY <2>1, Contained DEF Registers, Mem
  <2> HIDE DEF b, v
  <2>4. Mem' = [Mem EXCEPT ![blockno[b]] = v]
    BY <2>1, <2>2, ChangedContents
  <2>5. Mem' = Mem
    BY <2>1, <2>3, <2>4 DEF Mem
  <2>6. Hold' = Hold
    BY <1>7, SameHolders DEF bunpin
  <2> QED
    BY <2>5, <2>6
<1>8. CASE releasesleep(p)
  <2>1. Mem' = Mem
    BY <1>8, SameContents DEF releasesleep
  <2>2. /\ want[p] \in Blocks /\ Hold[want[p]] = p
        /\ Hold' = [Hold EXCEPT ![want[p]] = None]
    BY <1>8, ReleaseStep
  <2> QED
    BY <2>1, <2>2 DEF Store!Next, Store!Release, Mem, Hold
<1>9. CASE brelse(p) \/ kill(p)
  BY <1>9, SameHolders, SameContents DEF brelse, kill, bufVars, Goto, Inv, TypeOK
<1>10. CASE panic(p)
  BY <1>10, SameHolders, SameContents DEF panic, vars
<1>11. ASSUME NEW n \in Blocks, bget_miss(p, n), Unused = {} PROVE Mem' = Mem /\ Hold' = Hold
  BY <1>11, SameHolders, SameContents DEF bget_miss, Goto, Inv, TypeOK
<1> QED
  BY <1>1, <1>2, <1>3, <1>4, <1>5, <1>6, <1>7, <1>8, <1>9, <1>10, <1>11 DEF Step

-----------------------------------------------------------------------------
(***************************************************************************)
(* The theorems.                                                           *)
(***************************************************************************)
\* binit() establishes the invariant
LEMMA InitInv == Init => Inv
<1> SUFFICES ASSUME Init PROVE Inv
  OBVIOUS
<1> USE Buffers, BufCacheAssumption DEF Init
<1>1. \A b \in Bufs : UsersOf(b) = {}
  BY DEF UsersOf
<1>2. IsFiniteSet({}) /\ Cardinality({}) = 0
  BY FS_EmptySet
<1>3. Counted
  <2>1. \A b \in Bufs : Cardinality(UsersOf(b)) = 0 /\ PinOf(b) = 0 /\ refcnt[b] = 0
    BY <1>1, <1>2 DEF PinOf
  <2> QED
    BY <2>1 DEF Counted
<1>6. Pins
  BY <1>2 DEF Pins
<1>4. TypeOK
  <2>1. Cardinality(Procs) \in Nat
    BY FS_CardinalityType
  <2>2. lru \in [Bufs -> Bufs] /\ IsInjective(lru)
    BY DEF IsInjective, Bufs
  <2>3. refcnt \in [Bufs -> 0..(Cardinality(Procs) + PinLimit)]
    BY <2>1
  <2> QED
    BY <2>2, <2>3 DEF TypeOK
<1>5. Distinct /\ Given /\ Locking /\ Asleep /\ Coherent /\ PanicsOnlyFull
  BY DEF Distinct, Given, Locking, Asleep, Coherent, PanicsOnlyFull
<1> QED
  BY <1>3, <1>4, <1>5, <1>6 DEF Inv

\* every step preserves it
LEMMA InvNext == Inv /\ [Next]_vars => Inv'
<1> SUFFICES ASSUME Inv, [Next]_vars PROVE Inv'
  OBVIOUS
<1>1. ASSUME UNCHANGED vars PROVE Inv'
  BY <1>1 DEF vars, Inv, TypeOK, Distinct, Given, Counted, UsersOf, PinOf, Pins, Locking,
              Asleep, Coherent, PanicsOnlyFull
<1>2. ASSUME NEW p \in Procs, Step(p) PROVE Inv'
  <2>1. CASE panic(p)
    BY <1>1, <2>1 DEF panic
  <2> QED
    BY <1>2, <2>1, BgetHitInv, BgetMissInv, BgetPanicInv, AcquiresleepInv, BreadCachedInv,
       BreadInv, BwriteInv, BpinInv, BunpinInv, ReleasesleepInv, BrelseInv, KillInv DEF Step
<1> QED
  BY <1>1, <1>2 DEF Next

\* THEOREM: every block is one register that one process uses at a time, through eviction,
\* re-reading, pinning and concurrent look-ups, and after a bget() that panicked.
THEOREM CacheStore == Spec => StoreSpec
<1>1. Init => Store!Init
  <2> SUFFICES ASSUME Init PROVE Store!Init
    OBVIOUS
  <2>1. Inv
    BY InitInv
  <2>2. \A n \in Blocks : Contents(n) = disk[n]
    BY <2>1, Contained DEF Registers, Init
  <2>3. \A n \in Blocks : Holder(n) = None
    BY DEF Init, Holder, Users
  <2> QED
    BY <2>2, <2>3 DEF Store!Init, Init
<1>2. Inv /\ Inv' /\ [Next]_vars => [Store!Next]_<<Mem, Hold>>
  <2> SUFFICES ASSUME Inv, Inv', [Next]_vars PROVE [Store!Next]_<<Mem, Hold>>
    OBVIOUS
  <2>1. CASE UNCHANGED vars
    BY <2>1, SameContents, SameHolders DEF vars
  <2>2. ASSUME NEW p \in Procs, Step(p) PROVE [Store!Next]_<<Mem, Hold>>
    BY <2>2, StoreNext
  <2> QED
    BY <2>1, <2>2 DEF Next
<1>3. Spec => []Inv
  BY InitInv, InvNext, PTL DEF Spec
<1> QED
  BY <1>1, <1>2, <1>3, PTL DEF Spec, StoreSpec, Store!Spec, Mem, Hold

\* THEOREM: no buffer is recycled under a process that has it, nobody sleeps on a free
\* sleep-lock, and bget() panics only if every buffer is in the hands of a process or pinned.
THEOREM CacheBuffers == Spec => []SleepersHaveHolder
<1>1. Inv => SleepersHaveHolder
  <2> SUFFICES ASSUME Inv PROVE SleepersHaveHolder
    OBVIOUS
  <2>1. ASSUME NEW p \in Procs, pc[p] \notin {"idle", "panic"} PROVE refcnt[buf[p]] > 0
    <3>1. buf[p] \in Bufs
      BY <2>1 DEF Inv, Given
    <3>2. refcnt[buf[p]] # 0
      BY <3>1, UnusedFree DEF Inv
    <3>3. refcnt[buf[p]] = Cardinality(UsersOf(buf[p])) + PinOf(buf[p])
      BY <3>1 DEF Inv, Counted
    <3> QED
      BY <3>2, <3>3, UsersFinite DEF PinOf
  <2>2. KeepsItsBuffer
    BY <2>1 DEF KeepsItsBuffer, Inv, Given
  <2> QED
    BY <2>2 DEF SleepersHaveHolder, Inv, Asleep
<1> QED
  BY <1>1, InvNext, InitInv, PTL DEF Spec

=============================================================================
