-------------------------- MODULE VirtioDiskProofs --------------------------
(***************************************************************************)
(* kernel/virtio_disk.c for any number of processes and of descriptors and *)
(* any width of the ring indices that NUM divides:                         *)
(*   DiskDescriptors   the chains in use and the free descriptors          *)
(*                     partition the descriptors                           *)
(*   DiskBuffers       the device owns a buffer until its completion has   *)
(*                     been seen                                           *)
(*   DiskAllocators    nobody sleeps on descriptors that are free          *)
(* That every request ends is not among them: it is not true               *)
(* (MCVirtioDiskRace.cfg).                                                 *)
(***************************************************************************)
EXTENDS VirtioDisk, FiniteSetTheorems, WellFoundedInduction, TLAPS

-----------------------------------------------------------------------------
(***************************************************************************)
(* The arithmetic of the ring: counters modulo M count what was put in and *)
(* taken out, and a counter modulo P is a place of the ring; P divides M.  *)
(***************************************************************************)
\* quotient and remainder are unique
LEMMA DivUnique ==
  ASSUME NEW P \in Nat \ {0}, NEW q \in Int, NEW r \in 0..(P - 1), NEW a \in Nat, a = q * P + r
  PROVE  a % P = r
<1>1. /\ a % P \in 0..(P - 1) /\ a \div P \in Int
      /\ a = P * (a \div P) + (a % P)
  OBVIOUS
<1> QED
  BY <1>1

\* a remainder below twice the modulus
LEMMA Wrap ==
  ASSUME NEW M \in Nat \ {0}, NEW x \in 0..(2 * M - 1)
  PROVE  x % M = IF x < M THEN x ELSE x - M
<1>1. CASE x < M
  <2>1. x = 0 * M + x /\ x \in 0..(M - 1) /\ x \in Nat
    BY <1>1
  <2> QED
    BY <1>1, <2>1, DivUnique
<1>2. CASE ~(x < M)
  <2>1. x = 1 * M + (x - M) /\ x - M \in 0..(M - 1) /\ x \in Nat
    BY <1>2
  <2> QED
    BY <1>2, <2>1, DivUnique
<1> QED
  BY <1>1, <1>2

\* a counter advances
LEMMA Advance ==
  ASSUME NEW M \in Nat \ {0}, NEW c \in 0..(M - 1)
  PROVE  /\ (c + 1) % M \in 0..(M - 1)
         /\ (c + 1) % M = IF c + 1 < M THEN c + 1 ELSE 0
<1> DEFINE x == c + 1
<1>1. x \in 0..(2 * M - 1)
  OBVIOUS
<1> HIDE DEF x
<1>2. x % M = IF x < M THEN x ELSE x - M
  BY <1>1, Wrap
<1> QED
  BY <1>2 DEF x

\* the distance from one counter to another
LEMMA Gap ==
  ASSUME NEW M \in Nat \ {0}, NEW r \in 0..(M - 1), NEW w \in 0..(M - 1)
  PROVE  /\ (w + M - r) % M \in 0..(M - 1)
         /\ (w + M - r) % M = IF r <= w THEN w - r ELSE w + M - r
<1> DEFINE x == w + M - r
<1>1. x \in 0..(2 * M - 1)
  OBVIOUS
<1> HIDE DEF x
<1>2. x % M = IF x < M THEN x ELSE x - M
  BY <1>1, Wrap
<1> QED
  BY <1>2 DEF x

\* places repeat with the size of the ring ...
LEMMA Periodic ==
  ASSUME NEW P \in Nat \ {0}, NEW a \in Nat, NEW k \in Nat
  PROVE  (a + k * P) % P = a % P
<1> DEFINE q == a \div P
           r == a % P
           s == q + k
           b == a + k * P
<1>1. q \in Int /\ r \in 0..(P - 1) /\ a = q * P + r
  OBVIOUS
<1> HIDE DEF q, r
<1>2. (q + k) * P = q * P + k * P
  BY <1>1
<1>3. k * P \in Nat
  OBVIOUS
<1>4. s \in Int /\ b \in Nat /\ b = s * P + r
  BY <1>1, <1>2, <1>3
<1> HIDE DEF s, b
<1>5. b % P = r
  BY <1>1, <1>4, DivUnique
<1> QED
  BY <1>5 DEF b, r

\* ... and differ less than a ring apart
LEMMA Apart ==
  ASSUME NEW P \in Nat \ {0}, NEW a \in Nat, NEW d \in 1..(P - 1)
  PROVE  (a + d) % P # a % P
<1> DEFINE q == a \div P
           s == (a + d) \div P
           m == a % P
<1>1. q \in Int /\ m \in 0..(P - 1) /\ a = q * P + m
  OBVIOUS
<1>2. s \in Int /\ a + d = s * P + ((a + d) % P)
  OBVIOUS
<1>3. SUFFICES ASSUME (a + d) % P = m PROVE FALSE
  OBVIOUS
<1>4. d = (s - q) * P
  BY <1>1, <1>2, <1>3
<1> HIDE DEF q, s
<1>5. CASE s - q >= 1
  <2>1. (s - q) * P >= P
    BY <1>1, <1>2, <1>5
  <2> QED
    BY <1>4, <2>1
<1>6. CASE s - q <= 0
  <2>1. (s - q) * P <= 0
    BY <1>1, <1>2, <1>6
  <2> QED
    BY <1>4, <2>1
<1> QED
  BY <1>1, <1>2, <1>5, <1>6

\* a place can be taken before or after an addition
LEMMA ModPlus ==
  ASSUME NEW P \in Nat \ {0}, NEW a \in Nat, NEW c \in Nat
  PROVE  (a % P) \in 0..(P - 1) /\ ((a % P) + c) % P = (a + c) % P
<1> DEFINE q == a \div P
           r == a % P
           b == r + c
<1>1. q \in Int /\ r \in 0..(P - 1) /\ a = q * P + r
  OBVIOUS
<1>2. q \in Nat
  <2> HIDE DEF q, r
  <2>1. CASE q < 0
    <3>1. q * P <= (-1) * P
      BY <1>1, <2>1
    <3> QED
      BY <1>1, <3>1
  <2> QED
    BY <1>1, <2>1
<1> HIDE DEF q, r
<1>3. b \in Nat /\ a + c = b + q * P
  BY <1>1, <1>2
<1> HIDE DEF b
<1>4. (b + q * P) % P = b % P
  BY <1>2, <1>3, Periodic
<1> QED
  BY <1>1, <1>3, <1>4 DEF b, r

-----------------------------------------------------------------------------
(***************************************************************************)
(* The inductive invariant.                                                *)
(***************************************************************************)
\* vdisk_lock across a step, and the processes with a request
Locks ==
  /\ \A p \in Procs : /\ lock = p <=> pc[p] = "publish"
                      /\ idx[p] # None <=> pc[p] \in {"publish", "asleep_buf", "wait"}
  /\ lock = "intr" <=> handler # "off"

\* the three descriptors of a request
Chained(d) ==
  /\ next[d] \in Descs /\ next[next[d]] \in Descs
  /\ d # next[d] /\ next[d] # next[next[d]] /\ d # next[next[d]]

\* a request has a chain of its own, and disk.info of its first descriptor names its process
Chains ==
  /\ \A p \in InFlight : Chained(idx[p]) /\ Chain(idx[p]) \cap free = {} /\ info[idx[p]] = p
  /\ \A p, q \in InFlight : p # q => Chain(idx[p]) \cap Chain(idx[q]) = {}
  /\ \A d \in Descs : info[d] # None => idx[info[d]] = d

\* every descriptor is free or in the chain of a request
Counts ==
  /\ IsFiniteSet(InFlight)
  /\ Cardinality(free) + 3 * Cardinality(InFlight) = NUM

\* the requests that were published and not taken by the device yet, in the avail ring
Pending == (avail_idx + IDXMOD - dev_avail) % IDXMOD
AvailAt(k) == avail[(dev_avail + k) % NUM]

\* the completions the handler has not seen, in the used ring
Completed == (used_id + NUM - used_idx) % NUM
UsedAt(k) == used[(used_idx + k) % NUM]

\* the device has the request of descriptor d, or its completion waits for the handler
Outstanding(d) == info[d] # None /\ bdisk[info[d]] /\ pc[info[d]] # "publish"

\* a request is in one place at a time: about to be published, pending, taken by the device,
\* completed, or seen
Publishing ==
  \A p \in Procs : pc[p] = "publish" => bdisk[p] /\ avail[avail_idx % NUM] = idx[p]
Avail ==
  \A k \in 0..(Pending - 1) :
     /\ Outstanding(AvailAt(k)) /\ AvailAt(k) \notin dev_busy
     /\ \A j \in 0..(Pending - 1) : AvailAt(j) = AvailAt(k) => j = k
     /\ \A j \in 0..(Completed - 1) : UsedAt(j) # AvailAt(k)
Busy ==
  \A d \in dev_busy : Outstanding(d) /\ \A j \in 0..(Completed - 1) : UsedAt(j) # d
Used ==
  \A k \in 0..(Completed - 1) :
     /\ Outstanding(UsedAt(k))
     /\ \A j \in 0..(Completed - 1) : UsedAt(j) = UsedAt(k) => j = k

Inv ==
  /\ TypeOK /\ Locks /\ Chains /\ Counts /\ Publishing /\ Avail /\ Busy /\ Used
  /\ AllocatorsNotified

-----------------------------------------------------------------------------
(***************************************************************************)
(* Descriptors and rings.                                                  *)
(***************************************************************************)
\* the ring is not larger than the range of the indices
LEMMA Sizes == NUM \in Nat \ {0} /\ IDXMOD \in Nat \ {0} /\ NUM <= IDXMOD
<1>1. PICK k \in 1..IDXMOD : IDXMOD = k * NUM
  BY VirtioAssumption
<1>2. k * NUM >= 1 * NUM
  BY <1>1, VirtioAssumption
<1> QED
  BY <1>1, <1>2, VirtioAssumption

\* the names of things
LEMMA Names ==
  /\ Descs \subseteq Nat /\ IsFiniteSet(Descs) /\ Cardinality(Descs) = NUM
  /\ None \notin Descs /\ None \notin Procs /\ "intr" \notin Procs /\ None # "intr"
  /\ \A a \in Nat : a % NUM \in Descs
<1>1. IsFiniteSet(Descs) /\ Cardinality(Descs) = NUM
  BY FS_Interval, Sizes DEF Descs
<1>2. \A a \in Nat : a % NUM \in Descs
  BY Sizes DEF Descs
<1> QED
  BY <1>1, <1>2, VirtioAssumption DEF Descs

\* places in the ring survive the wrapping of an index
LEMMA PlaceWrap ==
  ASSUME NEW a \in Nat
  PROVE  (a + IDXMOD) % NUM = a % NUM
<1>1. PICK k \in 1..IDXMOD : IDXMOD = k * NUM
  BY VirtioAssumption
<1>2. k \in Nat
  BY <1>1
<1>3. (a + k * NUM) % NUM = a % NUM
  BY <1>2, Sizes, Periodic
<1> QED
  BY <1>1, <1>3

\* the place after that of an index is the place of the next index
LEMMA PlaceNext ==
  ASSUME NEW c \in 0..(IDXMOD - 1), NEW k \in Nat
  PROVE  /\ (c + 1) % IDXMOD \in 0..(IDXMOD - 1)
         /\ (((c + 1) % IDXMOD) + k) % NUM = (c + k + 1) % NUM
<1>1. /\ (c + 1) % IDXMOD \in 0..(IDXMOD - 1)
      /\ (c + 1) % IDXMOD = IF c + 1 < IDXMOD THEN c + 1 ELSE 0
  BY Sizes, Advance
<1>2. CASE c + 1 < IDXMOD
  <2>1. ((c + 1) % IDXMOD) + k = c + k + 1
    BY <1>1, <1>2
  <2> QED
    BY <1>1, <2>1
<1>3. CASE ~(c + 1 < IDXMOD)
  <2>1. ((c + 1) % IDXMOD) + k = k /\ c + k + 1 = k + IDXMOD
    BY <1>1, <1>3, Sizes
  <2> QED
    BY <1>1, <2>1, PlaceWrap
<1> QED
  BY <1>2, <1>3

\* the avail ring: the requests from dev_avail on, up to where the next one is put
AvailRing ==
  /\ Pending \in 0..(IDXMOD - 1)
  /\ Pending = IF dev_avail <= avail_idx THEN avail_idx - dev_avail
               ELSE avail_idx + IDXMOD - dev_avail
  /\ avail_idx % NUM = (dev_avail + Pending) % NUM

\* so it is in every state that satisfies the type invariant
LEMMA AvailRingIs == TypeOK => AvailRing
<1> SUFFICES ASSUME TypeOK PROVE AvailRing
  OBVIOUS
<1>1. avail_idx \in 0..(IDXMOD - 1) /\ dev_avail \in 0..(IDXMOD - 1)
  BY DEF TypeOK
<1>2. /\ Pending \in 0..(IDXMOD - 1)
      /\ Pending = IF dev_avail <= avail_idx THEN avail_idx - dev_avail
                   ELSE avail_idx + IDXMOD - dev_avail
  BY <1>1, Gap, Sizes DEF Pending
<1>3. dev_avail + Pending = avail_idx \/ dev_avail + Pending = avail_idx + IDXMOD
  BY <1>1, <1>2, Sizes
<1>4. avail_idx % NUM = (dev_avail + Pending) % NUM
  BY <1>1, <1>3, PlaceWrap
<1> QED
  BY <1>2, <1>4 DEF AvailRing

\* the used ring: the completions from used_idx on, up to where the device puts the next one
UsedRing ==
  /\ Completed \in 0..(NUM - 1)
  /\ Completed = IF used_idx <= used_id % NUM THEN (used_id % NUM) - used_idx
                 ELSE (used_id % NUM) + NUM - used_idx
  /\ used_id % NUM \in 0..(NUM - 1)
  /\ used_id % NUM = (used_idx + Completed) % NUM

\* so it is in every state that satisfies the type invariant
LEMMA UsedRingIs == TypeOK => UsedRing
<1> SUFFICES ASSUME TypeOK PROVE UsedRing
  OBVIOUS
<1> DEFINE u == used_id % NUM
           c == NUM - used_idx
<1>1. used_id \in Nat /\ used_idx \in 0..(NUM - 1) /\ c \in Nat
  BY Sizes DEF TypeOK, Descs
<1>2. u \in 0..(NUM - 1) /\ (u + c) % NUM = (used_id + c) % NUM
  BY <1>1, Sizes, ModPlus
<1> HIDE DEF u
<1>3. /\ (u + NUM - used_idx) % NUM \in 0..(NUM - 1)
      /\ (u + NUM - used_idx) % NUM = IF used_idx <= u THEN u - used_idx ELSE u + NUM - used_idx
  BY <1>1, <1>2, Gap, Sizes
<1>4. u + c = u + NUM - used_idx /\ used_id + c = used_id + NUM - used_idx
  BY <1>1, <1>2, Sizes
<1>5. Completed = (u + NUM - used_idx) % NUM
  BY <1>2, <1>4 DEF Completed
<1>6. used_idx + Completed = u \/ used_idx + Completed = u + NUM
  BY <1>1, <1>2, <1>3, <1>5, Sizes
<1>7. u % NUM = u /\ (u + NUM) % NUM = u
  <2>1. u \in 0..(2 * NUM - 1) /\ u + NUM \in 0..(2 * NUM - 1)
    BY <1>2, Sizes
  <2>2. u % NUM = IF u < NUM THEN u ELSE u - NUM
    BY <2>1, Sizes, Wrap
  <2> DEFINE x == u + NUM
  <2>3. x \in 0..(2 * NUM - 1)
    BY <2>1
  <2> HIDE DEF x
  <2>4. x % NUM = IF x < NUM THEN x ELSE x - NUM
    BY <2>3, Sizes, Wrap
  <2> QED
    BY <1>2, <2>2, <2>4, Sizes DEF x
<1> QED
  BY <1>2, <1>3, <1>5, <1>6, <1>7 DEF UsedRing, u

\* every set of naturals has a smallest element
LEMMA MinNat ==
  ASSUME NEW S \in SUBSET Nat, S # {}
  PROVE  Min(S) \in S
<1>1. IsWellFoundedOn(OpToRel(<, Nat), Nat)
  BY NatLessThanWellFounded
<1>2. PICK x \in S : \A y \in S : ~(<<y, x>> \in OpToRel(<, Nat))
  BY <1>1, WFMin
<1>3. \A y \in S : ~(y < x)
  BY <1>2 DEF OpToRel
<1>4. \E z \in S : \A y \in S : z <= y
  BY <1>3
<1> QED
  BY <1>4 DEF Min

\* alloc3_desc() finds three different descriptors
D0 == Min(free)
D1 == Min(free \ {D0})
D2 == Min(free \ {D0, D1})

\* and takes them from the free ones
LEMMA AllocThree ==
  ASSUME TypeOK, Cardinality(free) >= 3
  PROVE  /\ D0 \in free /\ D1 \in free /\ D2 \in free
         /\ D0 # D1 /\ D0 # D2 /\ D1 # D2
         /\ IsFiniteSet(free)
         /\ Cardinality(free \ {D0, D1, D2}) = Cardinality(free) - 3
<1>1. free \in SUBSET Descs /\ free \in SUBSET Nat
  BY Names DEF TypeOK
<1>2. IsFiniteSet(free) /\ Cardinality(free) \in Nat
  BY <1>1, Names, FS_Subset, FS_CardinalityType
<1>3. D0 \in free
  <2>1. free # {}
    BY FS_EmptySet
  <2> QED
    BY <1>1, <2>1, MinNat DEF D0
<1> DEFINE S1 == free \ {D0}
           S2 == free \ {D0, D1}
           S3 == free \ {D0, D1, D2}
<1>4. IsFiniteSet(S1) /\ Cardinality(S1) = Cardinality(free) - 1
  BY <1>2, <1>3, FS_RemoveElement
<1>5. D1 \in S1
  <2>1. S1 # {}
    BY <1>2, <1>4, FS_EmptySet
  <2> QED
    BY <1>1, <2>1, MinNat DEF D1
<1>6. IsFiniteSet(S2) /\ Cardinality(S2) = Cardinality(free) - 2
  <2>1. S2 = S1 \ {D1}
    OBVIOUS
  <2> HIDE DEF S1, S2
  <2> QED
    BY <1>2, <1>4, <1>5, <2>1, FS_RemoveElement
<1>7. D2 \in S2
  <2>1. S2 # {}
    BY <1>2, <1>6, FS_EmptySet
  <2> QED
    BY <1>1, <2>1, MinNat DEF D2
<1>8. Cardinality(S3) = Cardinality(free) - 3
  <2>1. S3 = S2 \ {D2}
    OBVIOUS
  <2> HIDE DEF S2, S3
  <2>2. Cardinality(S2 \ {D2}) = Cardinality(S2) - 1
    BY <1>6, <1>7, FS_RemoveElement
  <2> QED
    BY <1>2, <1>6, <2>1, <2>2
<1> QED
  BY <1>2, <1>3, <1>5, <1>7, <1>8

\* the chain of a request is its three descriptors
LEMMA ChainOf ==
  ASSUME TypeOK, NEW d \in Descs, Chained(d)
  PROVE  Chain(d) = {d, next[d], next[next[d]]} /\ Cardinality(Chain(d)) = 3
<1>1. Chain(d) = {d, next[d], next[next[d]]}
  BY Names DEF Chained, Chain
<1>2. IsFiniteSet({d}) /\ Cardinality({d}) = 1
  BY FS_Singleton
<1> DEFINE T == {d} \cup {next[d]}
<1>3. IsFiniteSet(T) /\ Cardinality(T) = 2
  BY <1>2, FS_AddElement DEF Chained
<1>4. next[next[d]] \notin T /\ Chain(d) = T \cup {next[next[d]]}
  BY <1>1 DEF Chained
<1> HIDE DEF T
<1>5. Cardinality(T \cup {next[next[d]]}) = 3
  BY <1>3, <1>4, FS_AddElement
<1> QED
  BY <1>1, <1>4, <1>5

\* a request is found from its descriptor
LEMMA Owner ==
  ASSUME Inv, NEW d \in Descs, info[d] # None
  PROVE  info[d] \in InFlight /\ idx[info[d]] = d
BY Names DEF Inv, TypeOK, Chains, InFlight

\* different descriptors of requests are of different requests
LEMMA Few ==
  ASSUME Inv, NEW S \in SUBSET InFlight, NEW n \in Nat, NEW g \in [0..(n - 1) -> Descs],
         \A k \in 0..(n - 1) : info[g[k]] # None /\ info[g[k]] \in S,
         \A j, k \in 0..(n - 1) : g[j] = g[k] => j = k
  PROVE  n <= Cardinality(S)
<1> DEFINE f == [k \in 0..(n - 1) |-> info[g[k]]]
<1>1. IsFiniteSet(S)
  BY FS_Subset DEF Inv, Counts
<1>2. f \in [0..(n - 1) -> S]
  OBVIOUS
<1>3. \A j, k \in 0..(n - 1) : f[j] = f[k] => j = k
  <2> SUFFICES ASSUME NEW j \in 0..(n - 1), NEW k \in 0..(n - 1), info[g[j]] = info[g[k]]
               PROVE  j = k
    OBVIOUS
  <2>1. g[j] \in Descs /\ g[k] \in Descs
    OBVIOUS
  <2>2. idx[info[g[j]]] = g[j] /\ idx[info[g[k]]] = g[k]
    BY <2>1, Owner
  <2> QED
    BY <2>2
<1> HIDE DEF f
<1>4. f \in Injection(0..(n - 1), S)
  BY <1>2, <1>3 DEF Injection, IsInjective
<1>5. Cardinality(0..(n - 1)) <= Cardinality(S)
  BY <1>1, <1>4, FS_Injection
<1>6. Cardinality(0..(n - 1)) = n
  BY FS_Interval
<1> QED
  BY <1>5, <1>6

\* the requests in progress fit into the descriptors
LEMMA RequestsFit ==
  ASSUME Inv
  PROVE  /\ Cardinality(InFlight) \in Nat /\ Cardinality(free) \in Nat
         /\ 3 * Cardinality(InFlight) <= NUM
         /\ \A p \in InFlight : /\ InFlight \ {p} \in SUBSET InFlight
                                /\ Cardinality(InFlight \ {p}) = Cardinality(InFlight) - 1
<1>1. IsFiniteSet(free)
  BY Names, FS_Subset DEF Inv, TypeOK
<1>2. Cardinality(InFlight) \in Nat /\ Cardinality(free) \in Nat
  BY <1>1, FS_CardinalityType DEF Inv, Counts
<1>3. \A p \in InFlight : Cardinality(InFlight \ {p}) = Cardinality(InFlight) - 1
  BY FS_RemoveElement DEF Inv, Counts
<1> QED
  BY <1>2, <1>3, Sizes DEF Inv, Counts

\* the places of the rings hold descriptors
LEMMA Places ==
  ASSUME TypeOK, NEW k \in Nat
  PROVE  AvailAt(k) \in Descs /\ UsedAt(k) \in Descs
<1>1. dev_avail + k \in Nat /\ used_idx + k \in Nat
  BY Sizes DEF TypeOK, Descs
<1>2. (dev_avail + k) % NUM \in Descs /\ (used_idx + k) % NUM \in Descs
  BY <1>1, Names
<1> QED
  BY <1>2 DEF AvailAt, UsedAt, TypeOK

\* the avail ring has room for a request that is about to be published
LEMMA AvailRoom ==
  ASSUME Inv
  PROVE  /\ Pending < NUM
         /\ \A p \in Procs : pc[p] = "publish" => Pending + 1 < NUM
<1> DEFINE n == Pending
           g == [k \in 0..(n - 1) |-> AvailAt(k)]
<1>1. n \in Nat /\ NUM \in Nat \ {0}
  BY AvailRingIs, Sizes DEF Inv, AvailRing
<1>2. g \in [0..(n - 1) -> Descs]
  BY <1>1, Places DEF Inv
<1>3. \A k \in 0..(n - 1) : g[k] = AvailAt(k)
  OBVIOUS
<1>4. \A k \in 0..(n - 1) : info[g[k]] # None /\ info[g[k]] \in InFlight /\ pc[info[g[k]]] # "publish"
  BY <1>2, <1>3, Owner DEF Inv, Avail, Outstanding
<1>5. \A j, k \in 0..(n - 1) : g[j] = g[k] => j = k
  BY <1>3 DEF Inv, Avail
<1> HIDE DEF g, n
<1>6. n <= Cardinality(InFlight)
  BY <1>1, <1>2, <1>4, <1>5, Few
<1>7. ASSUME NEW p \in Procs, pc[p] = "publish"
      PROVE  n + 1 < NUM
  <2>1. p \in InFlight
    BY <1>7 DEF Inv, Locks, InFlight
  <2> DEFINE S == InFlight \ {p}
  <2>2. S \in SUBSET InFlight /\ \A k \in 0..(n - 1) : info[g[k]] \in S
    BY <1>4, <1>7
  <2>3. Cardinality(S) = Cardinality(InFlight) - 1
    BY <2>1, RequestsFit
  <2> HIDE DEF S
  <2>4. n <= Cardinality(S)
    BY <1>1, <1>2, <1>4, <1>5, <2>2, Few
  <2> QED
    BY <1>1, <2>3, <2>4, RequestsFit
<1> QED
  BY <1>1, <1>6, <1>7, RequestsFit DEF n

\* the used ring has room for the completion of what the device works on
LEMMA UsedRoom ==
  ASSUME Inv, NEW d \in dev_busy
  PROVE  Completed + 1 < NUM
<1> DEFINE n == Completed
           g == [k \in 0..(n - 1) |-> UsedAt(k)]
           S == InFlight \ {info[d]}
<1>1. n \in Nat /\ NUM \in Nat \ {0} /\ d \in Descs
  BY UsedRingIs, Sizes DEF Inv, UsedRing, TypeOK
<1>2. g \in [0..(n - 1) -> Descs]
  BY <1>1, Places DEF Inv
<1>3. \A k \in 0..(n - 1) : g[k] = UsedAt(k)
  OBVIOUS
<1>4. info[d] \in InFlight /\ idx[info[d]] = d
  BY <1>1, Owner DEF Inv, Busy, Outstanding
<1>5. \A k \in 0..(n - 1) : info[g[k]] # None /\ idx[info[g[k]]] = g[k] /\ info[g[k]] \in InFlight
  BY <1>2, <1>3, Owner DEF Inv, Used, Outstanding
<1>6. \A k \in 0..(n - 1) : g[k] # d
  BY <1>3 DEF Inv, Busy
<1>7. \A k \in 0..(n - 1) : info[g[k]] # None /\ info[g[k]] \in S
  BY <1>4, <1>5, <1>6
<1>8. \A j, k \in 0..(n - 1) : g[j] = g[k] => j = k
  BY <1>3 DEF Inv, Used
<1>9. S \in SUBSET InFlight /\ Cardinality(S) = Cardinality(InFlight) - 1
  BY <1>4, RequestsFit
<1> HIDE DEF g, n, S
<1>10. n <= Cardinality(S)
  BY <1>1, <1>2, <1>7, <1>8, <1>9, Few
<1> QED
  BY <1>1, <1>9, <1>10, RequestsFit DEF n

\* the place of the next request is not among the pending ones
LEMMA AvailApart ==
  ASSUME TypeOK, Pending < NUM, NEW k \in 0..(Pending - 1)
  PROVE  (dev_avail + k) % NUM # avail_idx % NUM
<1> DEFINE a == dev_avail + k
           d == Pending - k
<1>1. dev_avail \in Nat /\ Pending \in Nat /\ avail_idx % NUM = (dev_avail + Pending) % NUM
  BY AvailRingIs DEF AvailRing, TypeOK
<1>2. a \in Nat /\ d \in 1..(NUM - 1) /\ dev_avail + Pending = a + d
  BY <1>1, Sizes
<1> HIDE DEF a, d
<1>3. (a + d) % NUM # a % NUM
  BY <1>2, Sizes, Apart
<1> QED
  BY <1>1, <1>2, <1>3 DEF a

\* the place of the next completion is not among those that wait
LEMMA UsedApart ==
  ASSUME TypeOK, NEW k \in 0..(Completed - 1)
  PROVE  (used_idx + k) % NUM # used_id % NUM
<1> DEFINE a == used_idx + k
           d == Completed - k
<1>1. used_idx \in Nat /\ Completed \in 0..(NUM - 1) /\ used_id % NUM = (used_idx + Completed) % NUM
  BY Names, UsedRingIs DEF UsedRing, TypeOK
<1>2. a \in Nat /\ d \in 1..(NUM - 1) /\ used_idx + Completed = a + d
  BY <1>1, Sizes
<1> HIDE DEF a, d
<1>3. (a + d) % NUM # a % NUM
  BY <1>2, Sizes, Apart
<1> QED
  BY <1>1, <1>2, <1>3 DEF a

\* publishing makes one request more pending
LEMMA PublishStep ==
  ASSUME TypeOK, TypeOK', Pending + 1 < NUM,
         avail_idx' = (avail_idx + 1) % IDXMOD, dev_avail' = dev_avail
  PROVE  Pending' = Pending + 1
<1>1. AvailRing /\ AvailRing'
  BY AvailRingIs, PTL
<1>2. avail_idx \in 0..(IDXMOD - 1) /\ dev_avail \in 0..(IDXMOD - 1)
  BY DEF TypeOK
<1>3. avail_idx' = IF avail_idx + 1 < IDXMOD THEN avail_idx + 1 ELSE 0
  BY <1>2, Sizes, Advance
<1>4. /\ Pending \in Nat
      /\ Pending = IF dev_avail <= avail_idx THEN avail_idx - dev_avail
                   ELSE avail_idx + IDXMOD - dev_avail
      /\ Pending' = IF dev_avail <= avail_idx' THEN avail_idx' - dev_avail
                    ELSE avail_idx' + IDXMOD - dev_avail
  BY <1>1 DEF AvailRing
<1> HIDE DEF Pending
<1> QED
  BY <1>2, <1>3, <1>4, Sizes

\* taking a request makes one less pending, and moves the others up
LEMMA TakeStep ==
  ASSUME TypeOK, TypeOK', dev_avail # avail_idx,
         dev_avail' = (dev_avail + 1) % IDXMOD, avail_idx' = avail_idx, avail' = avail
  PROVE  /\ Pending > 0 /\ Pending' = Pending - 1
         /\ \A k \in Nat : AvailAt(k)' = AvailAt(k + 1)
         /\ AvailAt(0) = avail[dev_avail % NUM]
<1>1. AvailRing /\ AvailRing'
  BY AvailRingIs, PTL
<1>2. avail_idx \in 0..(IDXMOD - 1) /\ dev_avail \in 0..(IDXMOD - 1)
  BY DEF TypeOK
<1>3. dev_avail' = IF dev_avail + 1 < IDXMOD THEN dev_avail + 1 ELSE 0
  BY <1>2, Sizes, Advance
<1>4. /\ Pending \in Nat
      /\ Pending = IF dev_avail <= avail_idx THEN avail_idx - dev_avail
                   ELSE avail_idx + IDXMOD - dev_avail
      /\ Pending' = IF dev_avail' <= avail_idx THEN avail_idx - dev_avail'
                    ELSE avail_idx + IDXMOD - dev_avail'
  BY <1>1 DEF AvailRing
<1> HIDE DEF Pending
<1>5. Pending > 0 /\ Pending' = Pending - 1
  BY <1>2, <1>3, <1>4, Sizes
<1>6. ASSUME NEW k \in Nat
      PROVE  AvailAt(k)' = AvailAt(k + 1)
  <2>1. (((dev_avail + 1) % IDXMOD) + k) % NUM = (dev_avail + k + 1) % NUM
    BY <1>2, PlaceNext
  <2>2. dev_avail + k + 1 = dev_avail + (k + 1)
    BY <1>2
  <2> QED
    BY <2>1, <2>2 DEF AvailAt
<1>7. dev_avail + 0 = dev_avail
  BY <1>2
<1> QED
  BY <1>5, <1>6, <1>7 DEF AvailAt

\* completing a request makes one more completion wait
LEMMA CompleteStep ==
  ASSUME TypeOK, TypeOK', Completed + 1 < NUM,
         used_id' = (used_id + 1) % IDXMOD, used_idx' = used_idx
  PROVE  Completed' = Completed + 1
<1> DEFINE u == used_id % NUM
           v == used_id' % NUM
<1>1. UsedRing /\ UsedRing'
  BY UsedRingIs, PTL
<1>2. used_id \in 0..(IDXMOD - 1) /\ used_idx \in 0..(NUM - 1)
  BY DEF TypeOK, Descs
<1>3. u \in 0..(NUM - 1) /\ (u + 1) % NUM = (used_id + 1) % NUM
  <2>1. used_id \in Nat /\ 1 \in Nat
    BY <1>2
  <2> QED
    BY <2>1, Sizes, ModPlus
<1>4. v = (used_id + 1) % NUM
  <2>1. /\ (used_id + 1) % IDXMOD \in 0..(IDXMOD - 1)
        /\ (((used_id + 1) % IDXMOD) + 0) % NUM = (used_id + 0 + 1) % NUM
    BY <1>2, PlaceNext
  <2>2. ((used_id + 1) % IDXMOD) + 0 = (used_id + 1) % IDXMOD /\ used_id + 0 + 1 = used_id + 1
    BY <1>2, <2>1
  <2> QED
    BY <2>1, <2>2
<1>5. /\ Completed \in Nat
      /\ Completed = IF used_idx <= u THEN u - used_idx ELSE u + NUM - used_idx
      /\ Completed' = IF used_idx <= v THEN v - used_idx ELSE v + NUM - used_idx
  BY <1>1 DEF UsedRing
<1> HIDE DEF u, v, Completed
<1>6. v = IF u + 1 < NUM THEN u + 1 ELSE 0
  BY <1>3, <1>4, Sizes, Advance
<1> QED
  BY <1>2, <1>3, <1>5, <1>6, Sizes

\* the handler sees a completion: one less waits, and the others move up
LEMMA SeeStep ==
  ASSUME TypeOK, TypeOK', used_idx % NUM # used_id % NUM,
         used_idx' = (used_idx + 1) % NUM, used_id' = used_id, used' = used
  PROVE  /\ Completed > 0 /\ Completed' = Completed - 1
         /\ \A k \in Nat : UsedAt(k)' = UsedAt(k + 1)
         /\ UsedAt(0) = used[used_idx]
<1> DEFINE u == used_id % NUM
<1>1. UsedRing /\ UsedRing'
  BY UsedRingIs, PTL
<1>2. used_idx \in 0..(NUM - 1) /\ u \in 0..(NUM - 1)
  BY <1>1 DEF TypeOK, Descs, UsedRing
<1>3. used_idx' = IF used_idx + 1 < NUM THEN used_idx + 1 ELSE 0
  BY <1>2, Sizes, Advance
<1>4. used_idx \in 0..(2 * NUM - 1)
  BY <1>2, Sizes
<1>5. used_idx % NUM = used_idx
  <2>1. used_idx % NUM = IF used_idx < NUM THEN used_idx ELSE used_idx - NUM
    BY <1>4, Sizes, Wrap
  <2> QED
    BY <1>2, <2>1, Sizes
<1>6. /\ Completed \in Nat
      /\ Completed = IF used_idx <= u THEN u - used_idx ELSE u + NUM - used_idx
      /\ Completed' = IF used_idx' <= u THEN u - used_idx' ELSE u + NUM - used_idx'
  BY <1>1 DEF UsedRing
<1>7. ASSUME NEW k \in Nat
      PROVE  UsedAt(k)' = UsedAt(k + 1)
  <2> DEFINE a == used_idx + 1
  <2>1. a \in Nat /\ a + k = used_idx + (k + 1)
    BY <1>2
  <2> HIDE DEF a
  <2>2. ((a % NUM) + k) % NUM = (a + k) % NUM
    BY <2>1, Sizes, ModPlus
  <2> QED
    BY <2>1, <2>2 DEF UsedAt, a
<1>8. UsedAt(0) = used[used_idx]
  <2>1. used_idx + 0 = used_idx
    BY <1>2
  <2> QED
    BY <1>5, <2>1 DEF UsedAt
<1>9. used_idx # u
  BY <1>5
<1> HIDE DEF u, Completed
<1>10. Completed > 0 /\ Completed' = Completed - 1
  BY <1>2, <1>3, <1>6, <1>9, Sizes
<1> QED
  BY <1>7, <1>8, <1>10

-----------------------------------------------------------------------------
(***************************************************************************)
(* The steps keep the invariant.                                           *)
(***************************************************************************)
\* what a step keeps that leaves the rings alone, up to where requests wait in them
LEMMA SameRings ==
  ASSUME Inv, Pending' = Pending, \A k \in 0..(Pending - 1) : AvailAt(k)' = AvailAt(k),
         UNCHANGED <<used, used_id, used_idx, dev_busy>>,
         \A d \in Descs : Outstanding(d) => Outstanding(d)'
  PROVE  Avail' /\ Busy' /\ Used'
<1>1. Completed' = Completed /\ \A k \in Nat : UsedAt(k)' = UsedAt(k)
  BY DEF Completed, UsedAt
<1>2. Pending \in Nat /\ Completed \in Nat
  BY AvailRingIs, UsedRingIs DEF Inv, AvailRing, UsedRing
<1>3. \A k \in Nat : AvailAt(k) \in Descs /\ UsedAt(k) \in Descs
  BY Places DEF Inv
<1>4. dev_busy \subseteq Descs
  BY DEF Inv, TypeOK
<1> HIDE DEF Pending, Completed, AvailAt, UsedAt, Outstanding
<1>5. Avail'
  BY <1>1, <1>2, <1>3 DEF Inv, Avail
<1>6. Busy'
  BY <1>1, <1>2, <1>4 DEF Inv, Busy
<1>7. Used'
  BY <1>1, <1>2, <1>3 DEF Inv, Used
<1> QED
  BY <1>5, <1>6, <1>7

\* and one that allocates and frees nothing
LEMMA SameChains ==
  ASSUME Inv, UNCHANGED <<free, next, info, idx>>
  PROVE  Chains' /\ Counts'
<1>1. InFlight' = InFlight
  BY DEF InFlight
<1>2. \A d : Chain(d)' = Chain(d) /\ (Chained(d)' <=> Chained(d))
  BY DEF Chain, Chained
<1>3. Chains'
  BY <1>1, <1>2 DEF Inv, Chains
<1>4. Counts'
  BY <1>1 DEF Inv, Counts
<1> QED
  BY <1>3, <1>4

\* and one that only moves threads about, without publishing
LEMMA SameRequests ==
  ASSUME Inv,
         UNCHANGED <<free, next, info, avail, avail_idx, used_idx, bdisk, idx,
                     used, used_id, dev_avail, dev_busy>>,
         \A q \in Procs : pc'[q] = "publish" <=> pc[q] = "publish"
  PROVE  Chains' /\ Counts' /\ Publishing' /\ Avail' /\ Busy' /\ Used'
<1>1. Chains' /\ Counts'
  BY SameChains
<1>2. Publishing'
  BY DEF Inv, Publishing
<1>3. Pending' = Pending /\ \A k \in 0..(Pending - 1) : AvailAt(k)' = AvailAt(k)
  BY DEF Pending, AvailAt
<1>4. \A d \in Descs : Outstanding(d) => Outstanding(d)'
  BY DEF Inv, TypeOK, Outstanding
<1>5. Avail' /\ Busy' /\ Used'
  BY <1>3, <1>4, SameRings
<1> QED
  BY <1>1, <1>2, <1>5

\* virtio_disk_init()
LEMMA InitInv == Init => Inv
<1> SUFFICES ASSUME Init PROVE Inv
  OBVIOUS
<1> USE Sizes, Names DEF Init
<1>1. TypeOK
  <2>1. 0 \in Descs /\ 0 \in 0..(IDXMOD - 1)
    BY DEF Descs
  <2> QED
    BY <2>1 DEF TypeOK
<1>2. Locks
  BY DEF Locks
<1>3. InFlight = {}
  BY DEF InFlight
<1>4. Chains
  BY <1>3 DEF Chains
<1>5. Counts
  BY <1>3, FS_EmptySet DEF Counts
<1>6. Pending = 0 /\ Completed = 0
  <2>1. AvailRing /\ UsedRing
    BY <1>1, AvailRingIs, UsedRingIs
  <2>2. 0 % NUM = 0
    BY <2>1 DEF UsedRing, AvailRing
  <2> QED
    BY <2>1, <2>2 DEF AvailRing, UsedRing
<1> HIDE DEF Pending, Completed
<1>7. Publishing /\ Avail /\ Busy /\ Used
  BY <1>6 DEF Publishing, Avail, Busy, Used
<1>8. AllocatorsNotified
  BY DEF AllocatorsNotified
<1> QED
  BY <1>1, <1>2, <1>4, <1>5, <1>7, <1>8 DEF Inv

\* no descriptors: the others that wait try again, the process sleeps
LEMMA NoDescInv ==
  ASSUME Inv, NEW p \in Procs, rw_no_desc(p)
  PROVE  Inv'
<1> USE Names DEF Inv, rw_no_desc, WakeAllocators, deviceVars
<1>1. \A q \in Procs : /\ pc'[q] = "publish" <=> pc[q] = "publish"
                       /\ pc'[q] \in {"asleep_buf", "wait"} <=> pc[q] \in {"asleep_buf", "wait"}
  BY DEF TypeOK
<1>2. TypeOK'
  BY DEF TypeOK
<1>3. Locks'
  BY <1>1 DEF Locks
<1>4. Chains' /\ Counts' /\ Publishing' /\ Avail' /\ Busy' /\ Used'
  BY <1>1, SameRequests
<1>5. AllocatorsNotified'
  BY DEF AllocatorsNotified
<1> QED
  BY <1>2, <1>3, <1>4, <1>5

\* a wakeup for something else
LEMMA AgainInv ==
  ASSUME Inv, NEW p \in Procs, rw_again(p)
  PROVE  Inv'
<1> USE Names DEF Inv, rw_again, deviceVars
<1>1. \A q \in Procs : pc'[q] = "publish" <=> pc[q] = "publish"
  BY DEF TypeOK
<1>2. TypeOK'
  BY DEF TypeOK
<1>3. Locks'
  BY DEF Locks, TypeOK
<1>4. Chains' /\ Counts' /\ Publishing' /\ Avail' /\ Busy' /\ Used'
  BY <1>1, SameRequests
<1>5. AllocatorsNotified'
  BY DEF AllocatorsNotified, TypeOK
<1> QED
  BY <1>2, <1>3, <1>4, <1>5

\* kill()
LEMMA KillInv ==
  ASSUME Inv, NEW p \in Procs, kill(p)
  PROVE  Inv'
<1> USE Names DEF Inv, kill, deviceVars
<1>1. \A q \in Procs : pc'[q] = "publish" <=> pc[q] = "publish"
  BY DEF TypeOK
<1>2. TypeOK'
  BY DEF TypeOK
<1>3. Locks'
  BY DEF Locks, TypeOK
<1>4. Chains' /\ Counts' /\ Publishing' /\ Avail' /\ Busy' /\ Used'
  BY <1>1, SameRequests
<1>5. AllocatorsNotified'
  BY DEF AllocatorsNotified, TypeOK
<1> QED
  BY <1>2, <1>3, <1>4, <1>5

\* the handler begins, leaves its loop, acknowledges
LEMMA HandlerInv ==
  ASSUME Inv, intr_begin \/ intr_loop_end \/ intr_ack
  PROVE  Inv'
<1> USE Names DEF Inv, intr_begin, intr_loop_end, intr_ack, deviceVars
<1>1. TypeOK'
  BY DEF TypeOK
<1>2. Locks'
  BY DEF Locks, TypeOK
<1>3. Chains' /\ Counts' /\ Publishing' /\ Avail' /\ Busy' /\ Used'
  BY SameRequests
<1>4. AllocatorsNotified'
  BY DEF AllocatorsNotified
<1> QED
  BY <1>1, <1>2, <1>3, <1>4

\* three descriptors are taken, and the request is put into the avail ring
LEMMA AllocInv ==
  ASSUME Inv, NEW p \in Procs, rw_alloc(p)
  PROVE  Inv'
<1>1. /\ D0 \in free /\ D1 \in free /\ D2 \in free
      /\ D0 # D1 /\ D0 # D2 /\ D1 # D2
      /\ IsFiniteSet(free)
      /\ Cardinality(free \ {D0, D1, D2}) = Cardinality(free) - 3
  BY AllocThree DEF Inv, rw_alloc
<1>2. /\ free' = free \ {D0, D1, D2}
      /\ next' = [next EXCEPT ![D0] = D1, ![D1] = D2, ![D2] = None]
      /\ info' = [info EXCEPT ![D0] = p]
      /\ avail' = [avail EXCEPT ![avail_idx % NUM] = D0]
      /\ idx' = [idx EXCEPT ![p] = D0]
      /\ bdisk' = [bdisk EXCEPT ![p] = TRUE]
      /\ lock = None /\ lock' = p
      /\ pc[p] \in {"idle", "alloc"} /\ pc' = [pc EXCEPT ![p] = "publish"]
      /\ UNCHANGED <<avail_idx, used_idx, handler, used, used_id, dev_avail, dev_busy, irq>>
  BY DEF rw_alloc, D0, D1, D2, deviceVars
<1>3. TypeOK /\ D0 \in Descs /\ D1 \in Descs /\ D2 \in Descs /\ avail_idx % NUM \in Descs
  <2>1. TypeOK /\ avail_idx \in Nat
    BY DEF Inv, TypeOK
  <2> QED
    BY <1>1, <2>1, Names DEF TypeOK
<1> HIDE DEF D0, D1, D2
<1>4. TypeOK'
  BY <1>2, <1>3 DEF TypeOK
<1>5. Locks'
  BY <1>2, <1>3, Names DEF Inv, Locks, TypeOK
<1>6. p \notin InFlight /\ InFlight' = InFlight \cup {p}
  BY <1>2, <1>3, Names DEF Inv, Locks, InFlight, TypeOK
<1>7. ASSUME NEW q \in InFlight
      PROVE  /\ q # p /\ idx'[q] = idx[q] /\ idx[q] \in Descs
             /\ Chain(idx[q])' = Chain(idx[q]) /\ Chained(idx[q])'
             /\ info'[idx[q]] = q
             /\ Chain(idx[q]) \cap {D0, D1, D2} = {}
  <2>1. q # p /\ q \in Procs /\ idx[q] \in Descs
    BY <1>3, <1>6 DEF InFlight, TypeOK
  <2>2. Chained(idx[q]) /\ Chain(idx[q]) \cap free = {} /\ info[idx[q]] = q
    BY DEF Inv, Chains
  <2>3. Chain(idx[q]) = {idx[q], next[idx[q]], next[next[idx[q]]]}
    BY <1>3, <2>1, <2>2, ChainOf
  <2>4. Chain(idx[q]) \cap {D0, D1, D2} = {}
    BY <1>1, <2>2
  <2>5. next'[idx[q]] = next[idx[q]] /\ next'[next[idx[q]]] = next[next[idx[q]]]
    BY <1>2, <1>3, <2>1, <2>2, <2>3, <2>4 DEF TypeOK, Chained
  <2>6. idx'[q] = idx[q]
    BY <1>2, <1>3, <2>1 DEF TypeOK
  <2>7. Chain(idx[q])' = Chain(idx[q]) /\ Chained(idx[q])'
    BY <2>2, <2>5, <2>6 DEF Chain, Chained
  <2>8. info'[idx[q]] = q
    BY <1>2, <1>3, <2>1, <2>2, <2>3, <2>4 DEF TypeOK
  <2> QED
    BY <2>1, <2>4, <2>6, <2>7, <2>8
<1>8. /\ idx'[p] = D0 /\ Chained(idx[p])' /\ info'[D0] = p
      /\ Chain(idx[p])' = {D0, D1, D2}
  <2>1. idx'[p] = D0 /\ info'[D0] = p
    BY <1>2, <1>3 DEF TypeOK
  <2>2. next'[D0] = D1 /\ next'[D1] = D2
    BY <1>1, <1>2, <1>3 DEF TypeOK
  <2> QED
    BY <1>1, <1>3, <2>1, <2>2, Names DEF Chained, Chain
<1>9. Chains'
  <2>1. \A q \in InFlight' : (Chained(idx[q]) /\ Chain(idx[q]) \cap free = {} /\ info[idx[q]] = q)'
    BY <1>2, <1>6, <1>7, <1>8 DEF Inv, Chains
  <2>2. \A q, r \in InFlight' : q # r => (Chain(idx[q]) \cap Chain(idx[r]) = {})'
    BY <1>6, <1>7, <1>8 DEF Inv, Chains
  <2>3. ASSUME NEW d \in Descs, info'[d] # None
        PROVE  idx'[info'[d]] = d
    <3>1. CASE d = D0
      BY <1>8, <3>1
    <3>2. CASE d # D0
      <4>1. info'[d] = info[d]
        BY <1>2, <1>3, <3>2 DEF TypeOK
      <4>2. info[d] \in InFlight /\ idx[info[d]] = d
        BY <2>3, <4>1, Owner
      <4> QED
        BY <1>7, <4>1, <4>2
    <3> QED
      BY <3>1, <3>2
  <2> QED
    BY <2>1, <2>2, <2>3 DEF Chains
<1>10. Counts'
  <2>1. Cardinality(free') = Cardinality(free) - 3
    BY <1>1, <1>2
  <2>2. IsFiniteSet(InFlight') /\ Cardinality(InFlight') = Cardinality(InFlight) + 1
    BY <1>6, FS_AddElement DEF Inv, Counts
  <2>3. Cardinality(InFlight) \in Nat /\ Cardinality(free) \in Nat
    BY RequestsFit
  <2> QED
    BY <2>1, <2>2, <2>3 DEF Inv, Counts
<1>11. Publishing'
  <2>1. \A q \in Procs : pc'[q] = "publish" => q = p
    BY <1>2, <1>3, Names DEF Inv, Locks, TypeOK
  <2> QED
    BY <1>2, <1>3, <1>8, <2>1 DEF Publishing, TypeOK
<1>12. Avail' /\ Busy' /\ Used'
  <2>1. Pending' = Pending
    BY <1>2 DEF Pending
  <2>2. ASSUME NEW k \in 0..(Pending - 1)
        PROVE  AvailAt(k)' = AvailAt(k)
    <3>1. (dev_avail + k) % NUM # avail_idx % NUM
      BY <1>3, AvailRoom, AvailApart
    <3>2. dev_avail + k \in Nat
      BY <1>3, AvailRingIs DEF TypeOK, AvailRing
    <3>3. (dev_avail + k) % NUM \in Descs
      BY <3>2, Names
    <3> QED
      BY <1>2, <1>3, <3>1, <3>3 DEF AvailAt, TypeOK
  <2>3. ASSUME NEW d \in Descs, Outstanding(d)
        PROVE  Outstanding(d)'
    <3>1. info[d] \in InFlight /\ idx[info[d]] = d
      BY <2>3, Owner DEF Outstanding
    <3>2. info'[d] = info[d] /\ info[d] # p
      BY <1>7, <3>1
    <3> QED
      BY <1>2, <1>3, <2>3, <3>1, <3>2 DEF Outstanding, InFlight, TypeOK
  <2> QED
    BY <1>2, <2>1, <2>2, <2>3, SameRings
<1>13. AllocatorsNotified'
  <2>1. Cardinality(free') < 3 \/ Cardinality(free) >= 3
    BY DEF rw_alloc
  <2>2. \A q \in Procs : pc'[q] # "asleep_free"
    BY <1>2, <1>3, RequestsFit DEF Inv, AllocatorsNotified, TypeOK, rw_alloc
  <2> QED
    BY <2>2 DEF AllocatorsNotified
<1> QED
  BY <1>4, <1>5, <1>9, <1>10, <1>11, <1>12, <1>13 DEF Inv

\* the device is told
LEMMA PublishInv ==
  ASSUME Inv, NEW p \in Procs, rw_publish(p)
  PROVE  Inv'
<1> USE Names DEF Inv, rw_publish, deviceVars
<1>1. /\ pc[p] = "publish" /\ Pending + 1 < NUM /\ Pending \in Nat
      /\ avail_idx \in 0..(IDXMOD - 1) /\ dev_avail \in Nat
  BY AvailRoom, AvailRingIs DEF AvailRing, TypeOK
<1>2. TypeOK'
  <2>1. avail_idx' \in 0..(IDXMOD - 1)
    BY <1>1, Sizes, Advance
  <2> QED
    BY <2>1 DEF TypeOK
<1>3. Locks'
  BY DEF Locks, TypeOK
<1>4. Chains' /\ Counts'
  BY SameChains
<1>5. Publishing'
  BY DEF Publishing, Locks, TypeOK
<1>6. /\ Pending' = Pending + 1 /\ \A k \in Nat : AvailAt(k)' = AvailAt(k)
      /\ Completed' = Completed /\ \A k \in Nat : UsedAt(k)' = UsedAt(k)
  BY <1>1, <1>2, PublishStep DEF AvailAt, UsedAt, Completed
<1>7. AvailAt(Pending) = idx[p] /\ idx[p] \in Descs /\ info[idx[p]] = p
  <2>1. avail[avail_idx % NUM] = idx[p] /\ p \in InFlight
    BY DEF Publishing, Locks, InFlight
  <2>2. idx[p] \in Descs /\ info[idx[p]] = p
    BY <2>1 DEF InFlight, TypeOK, Chains
  <2> QED
    BY <2>1, <2>2, AvailRingIs DEF AvailRing, AvailAt
<1>8. Pending \in Nat /\ Completed \in Nat /\ dev_busy \subseteq Descs
      /\ \A k \in Nat : AvailAt(k) \in Descs /\ UsedAt(k) \in Descs
  BY AvailRingIs, UsedRingIs, Places DEF AvailRing, UsedRing, TypeOK
<1>9. \A d \in Descs : Outstanding(d) => Outstanding(d)'
  BY <1>7 DEF Outstanding, TypeOK
<1>10. Outstanding(idx[p])' /\ ~Outstanding(idx[p])
  BY <1>7 DEF Outstanding, TypeOK, Publishing
<1>11. AllocatorsNotified'
  BY DEF AllocatorsNotified, TypeOK
<1>12. UNCHANGED dev_busy /\ Avail /\ Busy /\ Used
  OBVIOUS
<1> HIDE Names DEF Inv, rw_publish, deviceVars
<1>13. PICK e \in Descs : AvailAt(Pending) = e /\ Outstanding(e)' /\ \A d \in Descs : Outstanding(d) => d # e
  <2>1. idx'[p] = idx[p]
    BY DEF rw_publish
  <2> QED
    BY <1>7, <1>10, <2>1
<1> HIDE DEF Pending, Completed, AvailAt, UsedAt, Outstanding
<1>14. Avail'
  <2>1. \A k \in 0..(Pending + 1 - 1) : k \in 0..(Pending - 1) \/ k = Pending
    BY <1>8
  <2>2. \A k \in 0..(Pending - 1) : AvailAt(k) # e /\ Outstanding(AvailAt(k))' /\ AvailAt(k) \notin dev_busy
    BY <1>6, <1>8, <1>9, <1>12, <1>13 DEF Avail
  <2>3. e \notin dev_busy /\ \A j \in 0..(Completed - 1) : UsedAt(j) # e
    BY <1>8, <1>12, <1>13 DEF Busy, Used
  <2> QED
    BY <1>6, <1>8, <1>12, <1>13, <2>1, <2>2, <2>3 DEF Avail
<1>15. Busy'
  BY <1>6, <1>8, <1>9, <1>12 DEF Busy
<1>16. Used'
  BY <1>6, <1>8, <1>9, <1>12 DEF Used
<1> QED
  BY <1>2, <1>3, <1>4, <1>5, <1>11, <1>14, <1>15, <1>16 DEF Inv

\* the request is done: its chain is freed, and whoever waits for descriptors is woken up
LEMMA DoneInv ==
  ASSUME Inv, NEW p \in Procs, rw_done(p)
  PROVE  Inv'
<1>1. TypeOK /\ p \in InFlight /\ idx[p] \in Descs /\ Chained(idx[p]) /\ info[idx[p]] = p
      /\ Chain(idx[p]) \cap free = {}
  BY DEF Inv, Locks, InFlight, TypeOK, Chains, rw_done
<1>2. /\ Chain(idx[p]) = {idx[p], next[idx[p]], next[next[idx[p]]]}
      /\ Cardinality(Chain(idx[p])) = 3 /\ IsFiniteSet(Chain(idx[p]))
      /\ Chain(idx[p]) \subseteq Descs
  <2>1. Chain(idx[p]) = {idx[p], next[idx[p]], next[next[idx[p]]]} /\ Cardinality(Chain(idx[p])) = 3
    BY <1>1, ChainOf
  <2>2. Chain(idx[p]) \subseteq Descs
    BY <1>1, <2>1 DEF Chained
  <2> QED
    BY <2>1, <2>2, Names, FS_Subset
<1>3. /\ pc[p] = "wait" /\ lock = None /\ ~bdisk[p]
      /\ info' = [info EXCEPT ![idx[p]] = None]
      /\ free' = free \cup Chain(idx[p])
      /\ idx' = [idx EXCEPT ![p] = None]
      /\ UNCHANGED <<next, avail, avail_idx, used_idx, bdisk, handler, lock,
                     used, used_id, dev_avail, dev_busy, irq>>
  BY DEF rw_done, deviceVars
<1>4. pc' = [q \in Procs |-> IF q = p THEN "idle"
                             ELSE IF pc[q] = "asleep_free" THEN "alloc" ELSE pc[q]]
  BY <1>1 DEF rw_done, WakeAllocators, TypeOK
<1>5. TypeOK'
  BY <1>1, <1>2, <1>3, <1>4 DEF TypeOK
<1>6. Locks'
  BY <1>1, <1>3, <1>4, Names DEF Inv, Locks, TypeOK
<1>7. InFlight' = InFlight \ {p}
  BY <1>1, <1>3 DEF InFlight, TypeOK
<1>8. ASSUME NEW q \in InFlight, q # p
      PROVE  /\ idx'[q] = idx[q] /\ info'[idx[q]] = q
             /\ Chain(idx[q])' = Chain(idx[q]) /\ (Chained(idx[q])' <=> Chained(idx[q]))
  <2>1. idx'[q] = idx[q] /\ idx[q] \in Descs
    BY <1>1, <1>3, <1>8 DEF TypeOK, InFlight
  <2>2. idx[q] # idx[p] /\ info[idx[q]] = q
    BY <1>1, <1>8 DEF Inv, Chains
  <2>3. Chain(idx[q])' = Chain(idx[q]) /\ (Chained(idx[q])' <=> Chained(idx[q]))
    BY <1>3, <2>1 DEF Chain, Chained
  <2> QED
    BY <1>1, <1>3, <2>1, <2>2, <2>3 DEF TypeOK
<1>9. Chains'
  <2>1. ASSUME NEW q \in InFlight'
        PROVE  (Chained(idx[q]) /\ Chain(idx[q]) \cap free = {} /\ info[idx[q]] = q)'
    <3>1. q \in InFlight /\ q # p
      BY <1>7
    <3>2. Chained(idx[q]) /\ Chain(idx[q]) \cap free = {} /\ Chain(idx[q]) \cap Chain(idx[p]) = {}
      BY <1>1, <3>1 DEF Inv, Chains
    <3>3. Chain(idx[q]) \cap free' = {}
      BY <1>3, <3>2
    <3> QED
      BY <1>8, <3>1, <3>2, <3>3
  <2>2. \A q, r \in InFlight' : q # r => (Chain(idx[q]) \cap Chain(idx[r]) = {})'
    BY <1>7, <1>8 DEF Inv, Chains
  <2>3. ASSUME NEW d \in Descs, info'[d] # None
        PROVE  idx'[info'[d]] = d
    <3>1. d # idx[p] /\ info'[d] = info[d]
      BY <1>1, <1>3, <2>3 DEF TypeOK
    <3>2. info[d] \in InFlight /\ idx[info[d]] = d
      BY <2>3, <3>1, Owner
    <3> QED
      BY <1>8, <3>1, <3>2
  <2> QED
    BY <2>1, <2>2, <2>3 DEF Chains
<1>10. Counts'
  <2>1. IsFiniteSet(free)
    BY <1>1, Names, FS_Subset DEF TypeOK
  <2> DEFINE C == Chain(idx[p])
  <2>2. Cardinality(C) = 3 /\ IsFiniteSet(C) /\ free' = free \cup C /\ free \cap C = {}
    BY <1>1, <1>2, <1>3
  <2> HIDE DEF C
  <2>3. Cardinality(free \cup C) = Cardinality(free) + Cardinality(C) - Cardinality(free \cap C)
    BY <2>1, <2>2, FS_Union
  <2>4. Cardinality(free \cap C) = 0
    BY <2>2, FS_EmptySet
  <2>5. IsFiniteSet(InFlight') /\ Cardinality(InFlight') = Cardinality(InFlight) - 1
    BY <1>1, <1>7, FS_RemoveElement DEF Inv, Counts
  <2>6. Cardinality(InFlight) \in Nat /\ Cardinality(free) \in Nat
    BY RequestsFit
  <2>7. Cardinality(free') = Cardinality(free) + 3
    BY <2>2, <2>3, <2>4, <2>6
  <2> QED
    BY <2>5, <2>6, <2>7 DEF Inv, Counts
<1>11. Publishing'
  <2>1. \A q \in Procs : pc'[q] = "publish" => pc[q] = "publish" /\ q # p
    BY <1>1, <1>4 DEF TypeOK
  <2> QED
    BY <1>1, <1>3, <2>1 DEF Inv, Publishing, TypeOK
<1>12. Avail' /\ Busy' /\ Used'
  <2>1. Pending' = Pending /\ \A k \in 0..(Pending - 1) : AvailAt(k)' = AvailAt(k)
    BY <1>3 DEF Pending, AvailAt
  <2>2. ASSUME NEW d \in Descs, Outstanding(d)
        PROVE  Outstanding(d)'
    <3>1. info[d] \in Procs /\ info[d] # p /\ info'[d] = info[d]
      BY <1>1, <1>3, <2>2 DEF Outstanding, TypeOK
    <3>2. pc'[info[d]] # "publish"
      BY <1>4, <2>2, <3>1 DEF Outstanding
    <3> QED
      BY <1>3, <2>2, <3>1, <3>2 DEF Outstanding
  <2> QED
    BY <1>3, <2>1, <2>2, SameRings
<1>13. AllocatorsNotified'
  BY <1>4 DEF AllocatorsNotified
<1> QED
  BY <1>5, <1>6, <1>9, <1>10, <1>11, <1>12, <1>13 DEF Inv

\* the handler sees a completion, and wakes up the process it is for
LEMMA LoopInv ==
  ASSUME Inv, intr_loop
  PROVE  Inv'
<1> DEFINE e == used[used_idx]
           p == info[e]
<1>1. TypeOK /\ used_idx \in Descs
  BY DEF Inv, TypeOK
<1>2. TypeOK'
  <2>1. used_idx' \in Descs
    BY <1>1, Names DEF intr_loop
  <2>2. bdisk' \in [Procs -> BOOLEAN]
    BY <1>1 DEF TypeOK, intr_loop
  <2>3. pc' \in [Procs -> {"idle", "alloc", "publish", "asleep_free", "asleep_buf", "wait"}]
    BY <1>1 DEF TypeOK, intr_loop
  <2> QED
    BY <1>1, <2>1, <2>2, <2>3 DEF TypeOK, intr_loop, deviceVars
<1>3. /\ Completed > 0 /\ Completed' = Completed - 1
      /\ \A k \in Nat : UsedAt(k)' = UsedAt(k + 1)
      /\ UsedAt(0) = e
  BY <1>1, <1>2, SeeStep DEF intr_loop, deviceVars
<1>4. Pending \in Nat /\ Completed \in Nat /\ dev_busy \subseteq Descs
      /\ \A k \in Nat : AvailAt(k) \in Descs /\ UsedAt(k) \in Descs
  BY <1>1, AvailRingIs, UsedRingIs, Places DEF AvailRing, UsedRing, TypeOK
<1>5. e \in Descs /\ p \in InFlight /\ p \in Procs /\ idx[p] = e /\ bdisk[p] /\ pc[p] # "publish"
  <2>1. 0 \in 0..(Completed - 1)
    BY <1>3, <1>4
  <2>2. e \in Descs /\ Outstanding(e)
    BY <1>3, <1>4, <2>1 DEF Inv, Used
  <2> QED
    BY <2>2, Owner DEF Outstanding, InFlight
<1>6. \A q \in Procs : /\ bdisk'[q] = IF q = p THEN FALSE ELSE bdisk[q]
                       /\ pc'[q] = IF q = p /\ pc[q] = "asleep_buf" THEN "wait" ELSE pc[q]
  BY <1>1 DEF intr_loop, TypeOK
<1>7. UNCHANGED <<free, next, info, avail, avail_idx, idx, handler, lock,
                  used, used_id, dev_avail, dev_busy, irq>>
  BY DEF intr_loop, deviceVars
<1> HIDE DEF p
<1>8. Locks'
  BY <1>6, <1>7 DEF Inv, Locks
<1>9. Chains' /\ Counts'
  BY <1>7, SameChains
<1>10. Publishing'
  BY <1>5, <1>6, <1>7 DEF Inv, Publishing
<1>11. Pending' = Pending /\ \A k \in Nat : AvailAt(k)' = AvailAt(k)
  BY <1>7 DEF Pending, AvailAt
<1>12. \A d \in Descs : Outstanding(d) /\ d # e => Outstanding(d)'
  <2> SUFFICES ASSUME NEW d \in Descs, Outstanding(d), d # e PROVE Outstanding(d)'
    OBVIOUS
  <2>1. info[d] \in Procs /\ info[d] # p
    BY <1>5, Owner DEF Outstanding, InFlight
  <2> QED
    BY <1>6, <1>7, <2>1 DEF Outstanding
<1>13. AllocatorsNotified'
  BY <1>6, <1>7 DEF Inv, AllocatorsNotified
<1>14. Avail /\ Busy /\ Used /\ dev_busy' = dev_busy
  BY <1>7 DEF Inv
<1>15. PICK c \in Descs : c = e
  BY <1>5
<1>16. /\ UsedAt(0) = c /\ 0 \in 0..(Completed - 1)
       /\ \A k \in 0..(Completed - 1 - 1) : k \in Nat /\ k + 1 \in Nat /\ k + 1 # 0 /\ k + 1 \in 0..(Completed - 1)
       /\ \A d \in Descs : Outstanding(d) /\ d # c => Outstanding(d)'
  BY <1>3, <1>4, <1>12, <1>15
<1> HIDE DEF e, Pending, Completed, AvailAt, UsedAt, Outstanding
<1>17. Avail'
  <2>1. \A k \in 0..(Pending - 1) : k \in Nat /\ AvailAt(k) # c
    BY <1>4, <1>14, <1>16 DEF Avail
  <2> QED
    BY <1>3, <1>4, <1>11, <1>14, <1>16, <2>1 DEF Avail
<1>18. Busy'
  <2>1. \A d \in dev_busy : d # c
    BY <1>14, <1>16 DEF Busy
  <2> QED
    BY <1>3, <1>4, <1>14, <1>16, <2>1 DEF Busy
<1>19. Used'
  <2>1. \A k \in 0..(Completed - 1 - 1) : UsedAt(k + 1) # c
    BY <1>14, <1>16 DEF Used
  <2>2. \A j, k \in 0..(Completed - 1 - 1) : UsedAt(j + 1) = UsedAt(k + 1) => j = k
    <3> SUFFICES ASSUME NEW j \in 0..(Completed - 1 - 1), NEW k \in 0..(Completed - 1 - 1),
                        UsedAt(j + 1) = UsedAt(k + 1)
                 PROVE  j = k
      OBVIOUS
    <3>1. j + 1 = k + 1
      BY <1>14, <1>16 DEF Used
    <3> QED
      BY <1>16, <3>1
  <2> QED
    BY <1>3, <1>4, <1>14, <1>16, <2>1, <2>2 DEF Used
<1> QED
  BY <1>2, <1>8, <1>9, <1>10, <1>13, <1>17, <1>18, <1>19 DEF Inv

\* the device takes the oldest pending request
LEMMA TakeInv ==
  ASSUME Inv, dev_take
  PROVE  Inv'
<1> DEFINE e == avail[dev_avail % NUM]
<1>1. TypeOK /\ dev_avail \in 0..(IDXMOD - 1) /\ dev_avail \in Nat
  BY DEF Inv, TypeOK
<1>2. UNCHANGED <<free, next, info, avail, avail_idx, used_idx, bdisk, idx, pc, handler, lock,
                  used, used_id, irq>>
  BY DEF dev_take, driverVars
<1>3. TypeOK'
  <2>1. dev_avail' \in 0..(IDXMOD - 1)
    BY <1>1, Sizes, Advance DEF dev_take
  <2>2. e \in Descs
    BY <1>1, Names DEF TypeOK
  <2> QED
    BY <1>1, <1>2, <2>1, <2>2 DEF TypeOK, dev_take
<1>4. /\ Pending > 0 /\ Pending' = Pending - 1
      /\ \A k \in Nat : AvailAt(k)' = AvailAt(k + 1)
      /\ AvailAt(0) = e
  BY <1>1, <1>2, <1>3, TakeStep DEF dev_take
<1>5. Completed' = Completed /\ \A k \in Nat : UsedAt(k)' = UsedAt(k)
  BY <1>2 DEF Completed, UsedAt
<1>6. Pending \in Nat /\ Completed \in Nat /\ dev_busy \subseteq Descs
      /\ \A k \in Nat : AvailAt(k) \in Descs /\ UsedAt(k) \in Descs
  BY <1>1, AvailRingIs, UsedRingIs, Places DEF AvailRing, UsedRing, TypeOK
<1>7. Locks'
  BY <1>2 DEF Inv, Locks
<1>8. Chains' /\ Counts'
  BY <1>2, SameChains
<1>9. Publishing' /\ AllocatorsNotified'
  BY <1>2 DEF Inv, Publishing, AllocatorsNotified
<1>10. \A d \in Descs : Outstanding(d) => Outstanding(d)'
  BY <1>2 DEF Outstanding
<1>11. Avail /\ Busy /\ Used
  BY DEF Inv
<1>12. PICK c \in Descs : c = e
  BY <1>4, <1>6
<1>13. /\ dev_busy' = dev_busy \cup {c} /\ AvailAt(0) = c /\ 0 \in 0..(Pending - 1)
       /\ \A k \in 0..(Pending - 1 - 1) : k \in Nat /\ k + 1 \in Nat /\ k + 1 # 0 /\ k + 1 \in 0..(Pending - 1)
  BY <1>4, <1>6, <1>12 DEF dev_take
<1> HIDE DEF e, Pending, Completed, AvailAt, UsedAt, Outstanding
<1>14. Avail'
  <2>1. \A k \in 0..(Pending - 1 - 1) : AvailAt(k + 1) # c
    BY <1>11, <1>13 DEF Avail
  <2>2. \A j, k \in 0..(Pending - 1 - 1) : AvailAt(j + 1) = AvailAt(k + 1) => j = k
    <3> SUFFICES ASSUME NEW j \in 0..(Pending - 1 - 1), NEW k \in 0..(Pending - 1 - 1),
                        AvailAt(j + 1) = AvailAt(k + 1)
                 PROVE  j = k
      OBVIOUS
    <3>1. j + 1 = k + 1
      BY <1>11, <1>13 DEF Avail
    <3> QED
      BY <1>13, <3>1
  <2> QED
    BY <1>4, <1>5, <1>6, <1>10, <1>11, <1>13, <2>1, <2>2 DEF Avail
<1>15. Busy'
  <2>1. Outstanding(c)' /\ \A j \in 0..(Completed - 1) : UsedAt(j) # c
    BY <1>10, <1>11, <1>13 DEF Avail
  <2> QED
    BY <1>5, <1>6, <1>10, <1>11, <1>13, <2>1 DEF Busy
<1>16. Used'
  BY <1>5, <1>6, <1>10, <1>11 DEF Used
<1> QED
  BY <1>3, <1>7, <1>8, <1>9, <1>14, <1>15, <1>16 DEF Inv

\* the device completes a request, in the used ring
LEMMA CompleteInv ==
  ASSUME Inv, NEW d \in Descs, dev_complete(d)
  PROVE  Inv'
<1>1. TypeOK /\ used_id \in 0..(IDXMOD - 1) /\ used_id % NUM \in Descs /\ d \in dev_busy
  <2>1. TypeOK /\ used_id \in 0..(IDXMOD - 1) /\ used_id \in Nat
    BY DEF Inv, TypeOK
  <2> QED
    BY <2>1, Names DEF dev_complete
<1>2. UNCHANGED <<free, next, info, avail, avail_idx, used_idx, bdisk, idx, pc, handler, lock,
                  dev_avail>>
  BY DEF dev_complete, driverVars
<1>3. TypeOK'
  <2>1. used_id' \in 0..(IDXMOD - 1)
    BY <1>1, Sizes, Advance DEF dev_complete
  <2> QED
    BY <1>1, <1>2, <2>1 DEF TypeOK, dev_complete
<1>4. Completed' = Completed + 1
  BY <1>1, <1>2, <1>3, UsedRoom, CompleteStep DEF dev_complete
<1>5. Pending' = Pending /\ \A k \in Nat : AvailAt(k)' = AvailAt(k)
  BY <1>2 DEF Pending, AvailAt
<1>6. Pending \in Nat /\ Completed \in Nat /\ dev_busy \subseteq Descs
      /\ \A k \in Nat : AvailAt(k) \in Descs /\ UsedAt(k) \in Descs
  BY <1>1, AvailRingIs, UsedRingIs, Places DEF AvailRing, UsedRing, TypeOK
<1>7. PICK n \in Nat : n = Completed
  BY <1>6
<1>8. UsedAt(n)' = d
  <2>1. used_id % NUM = (used_idx + n) % NUM
    BY <1>1, <1>7, UsedRingIs DEF UsedRing
  <2> QED
    BY <1>1, <1>2, <2>1 DEF UsedAt, TypeOK, dev_complete
<1>9. \A k \in 0..(Completed - 1) : UsedAt(k)' = UsedAt(k)
  <2> SUFFICES ASSUME NEW k \in 0..(Completed - 1) PROVE UsedAt(k)' = UsedAt(k)
    OBVIOUS
  <2>1. (used_idx + k) % NUM # used_id % NUM
    BY <1>1, UsedApart
  <2>2. used_idx + k \in Nat
    BY <1>1, <1>6, Names DEF TypeOK
  <2>3. (used_idx + k) % NUM \in Descs
    BY <2>2, Names
  <2> QED
    BY <1>1, <1>2, <2>1, <2>3 DEF UsedAt, TypeOK, dev_complete
<1>10. Locks'
  BY <1>2 DEF Inv, Locks
<1>11. Chains' /\ Counts'
  BY <1>2, SameChains
<1>12. Publishing' /\ AllocatorsNotified'
  BY <1>2 DEF Inv, Publishing, AllocatorsNotified
<1>13. \A x \in Descs : Outstanding(x) => Outstanding(x)'
  BY <1>2 DEF Outstanding
<1>14. Avail /\ Busy /\ Used /\ dev_busy' = dev_busy \ {d}
  BY DEF Inv, dev_complete
<1>15. \A k \in 0..(Completed + 1 - 1) : k \in Nat /\ (k \in 0..(Completed - 1) \/ k = Completed)
  BY <1>6
<1> HIDE DEF Pending, Completed, AvailAt, UsedAt, Outstanding
<1>16. Avail'
  BY <1>1, <1>4, <1>5, <1>6, <1>9, <1>13, <1>14, <1>15, <1>7, <1>8 DEF Avail
<1>17. Busy'
  BY <1>1, <1>4, <1>6, <1>9, <1>13, <1>14, <1>15, <1>7, <1>8 DEF Busy
<1>18. Used'
  <2>1. Outstanding(d)' /\ \A j \in 0..(n - 1) : UsedAt(j) # d
    BY <1>1, <1>13, <1>14, <1>7 DEF Busy
  <2> QED
    BY <1>4, <1>6, <1>9, <1>13, <1>14, <1>15, <1>7, <1>8, <2>1 DEF Used
<1> QED
  BY <1>3, <1>10, <1>11, <1>12, <1>16, <1>17, <1>18 DEF Inv

-----------------------------------------------------------------------------
(***************************************************************************)
(* The theorems.                                                           *)
(***************************************************************************)
\* Every reachable state of virtio_disk.c satisfies the invariant: the type invariant, and
\* that a request is in one place at a time.
THEOREM Invariance == Spec => []Inv
<1>1. Init => Inv
  BY InitInv
<1>2. Inv /\ [Next]_vars => Inv'
  <2> SUFFICES ASSUME Inv, [Next]_vars PROVE Inv'
    OBVIOUS
  <2>1. CASE \E p \in Procs : Driver(p) \/ Alloc(p) \/ kill(p)
    BY <2>1, PublishInv, AgainInv, DoneInv, AllocInv, NoDescInv, KillInv DEF Driver, Alloc
  <2>2. CASE Handler
    BY <2>2, HandlerInv, LoopInv DEF Handler
  <2>3. CASE dev_take
    BY <2>3, TakeInv
  <2>4. CASE \E d \in Descs : dev_complete(d)
    BY <2>4, CompleteInv
  <2>5. CASE UNCHANGED vars
    <3>1. TypeOK' /\ Locks' /\ AllocatorsNotified'
      BY <2>5 DEF Inv, TypeOK, Locks, AllocatorsNotified, vars
    <3>2. Chains' /\ Counts' /\ Publishing' /\ Avail' /\ Busy' /\ Used'
      BY <2>5, SameRequests DEF vars
    <3> QED
      BY <3>1, <3>2 DEF Inv
  <2> QED
    BY <2>1, <2>2, <2>3, <2>4, <2>5 DEF Next
<1> QED
  BY <1>1, <1>2, PTL DEF Spec

\* alloc3_desc() and free_chain() lose no descriptor and hand out none twice, and the "virtio_disk_intr 2"
\* panic of free_desc() is unreachable, for every number of processes.
THEOREM DiskDescriptors == Spec => []DescriptorsPartitioned
<1>1. Inv => DescriptorsPartitioned
  <2> SUFFICES ASSUME Inv PROVE DescriptorsPartitioned
    OBVIOUS
  <2>1. \A p \in InFlight : Cardinality(Chain(idx[p])) = 3
    <3> SUFFICES ASSUME NEW p \in InFlight PROVE Cardinality(Chain(idx[p])) = 3
      OBVIOUS
    <3>1. TypeOK /\ idx[p] \in Descs /\ Chained(idx[p])
      BY DEF Inv, TypeOK, InFlight, Chains
    <3> QED
      BY <3>1, ChainOf
  <2> QED
    BY <2>1 DEF Inv, Chains, Counts, DescriptorsPartitioned
<1> QED
  BY <1>1, Invariance, PTL

\* The process that made a request takes its buffer and its descriptors back only after the
\* handler has seen the completion of it, so that the device writes into memory that waits for
\* it and virtio_disk_intr() finds the right buf, whatever order requests complete in.
THEOREM DiskBuffers == Spec => []DeviceOwnsBuffer
<1>1. Inv => DeviceOwnsBuffer
  <2> SUFFICES ASSUME Inv, NEW d \in dev_busy \cup {UsedAt(k) : k \in Unseen}
               PROVE  info[d] # None /\ idx[info[d]] = d /\ bdisk[info[d]]
    BY DEF DeviceOwnsBuffer, UsedAt
  <2>1. Outstanding(d) /\ d \in Descs
    <3>1. CASE d \in dev_busy
      BY <3>1 DEF Inv, Busy, TypeOK
    <3>2. CASE d \in {UsedAt(k) : k \in Unseen}
      <4>1. PICK k \in Unseen : d = UsedAt(k)
        BY <3>2
      <4>2. k \in Nat /\ k < Completed /\ Completed \in Nat
        BY <4>1, Names, UsedRingIs DEF Unseen, Completed, Inv, UsedRing
      <4>3. k \in 0..(Completed - 1)
        BY <4>2
      <4> QED
        BY <4>1, <4>2, <4>3, Places DEF Inv, Used
    <3> QED
      BY <3>1, <3>2
  <2> QED
    BY <2>1, Owner DEF Outstanding
<1> QED
  BY <1>1, Invariance, PTL

\* The wakeup in free_desc() reaches everyone: no process sleeps on descriptors while three of
\* them are free.
THEOREM DiskAllocators == Spec => []AllocatorsNotified
<1>1. Inv => AllocatorsNotified
  BY DEF Inv
<1> QED
  BY <1>1, Invariance, PTL

=============================================================================
