-------------------------- MODULE FileBlocksProofs --------------------------
(***************************************************************************)
(* The blocks of files (kernel/fs.c, kernel/file.c) for any number of      *)
(* processes and files and any sizes of blocks, inodes and disk:           *)
(*   FilesBlocksOwned   a block is marked in the bitmap exactly if one     *)
(*                      place of one inode names it, and files have no     *)
(*                      holes                                              *)
(*   FilesOpFits        a piece of filewrite(), and an itrunc(), logs no   *)
(*                      more blocks than begin_op() has admitted           *)
(*   FilesImplement     the files are the byte sequences of ByteFiles      *)
(* All need an image whose root directory does not fill its last block:    *)
(* mkfs rounds its size up to a block it does not have otherwise           *)
(* (MCFileBlocksCopy.cfg with Boot = 2 and INVARIANT NoHoles).             *)
(***************************************************************************)
EXTENDS FileBlocks, FiniteSetTheorems, WellFoundedInduction, TLAPS

-----------------------------------------------------------------------------
(***************************************************************************)
(* The inductive invariant.                                                *)
(***************************************************************************)
\* where a process has the inode locked
Working == {"itrunc", "writei", "writei_end"}
Writing == {"writei", "writei_end"}

Typed ==
  /\ bitmap \subseteq Blocks
  /\ blk \in [Blocks -> [Units -> Int]]
  /\ addrs \in [Files -> [0..NDIRECT -> 0..FSSIZE]]
  /\ size \in [Files -> 0..(MAXFILE * BSIZE)]
  /\ off \in [Procs -> [Files -> Nat]]
  /\ lock \in [Files -> Procs \cup {NoProc}]
  /\ st \in [Procs -> [pc : Working \cup {"user", "filewrite"}, f : Nat, n : Nat, n1 : Nat, tot : Nat]]
  /\ logged \in [Procs -> SUBSET Int]
  /\ unlogged \subseteq Blocks

\* the sleep-lock of an inode is held by the process that is at work on it
Locks ==
  /\ \A p \in Procs : /\ st[p].pc # "user" => st[p].f \in Files
                      /\ st[p].pc \in Working => lock[st[p].f] = p
  /\ \A i \in Files : lock[i] # NoProc => st[lock[i]].pc \in Working /\ st[lock[i]].f = i

\* how far itrunc() is with inode i
Cut(i) == IF lock[i] # NoProc /\ st[lock[i]].pc = "itrunc" THEN st[lock[i]].tot ELSE 0

\* what place k of inode i names, 0 if nothing: its blocks and then its indirect block
Dom == Files \X (0..MAXFILE)
Name(i, k) == IF k < Cut(i) THEN 0 ELSE TruncBlock(i, k)
Names == [h \in Dom |-> Name(h[1], h[2])]

\* the blocks marked in bm are those that nm names, each at one place
Owned(nm, bm) ==
  /\ \A h \in Dom : nm[h] \in bm \cup {0}
  /\ \A h, g \in Dom : nm[h] = nm[g] /\ nm[h] # 0 => h = g
  /\ \A b \in bm : \E h \in Dom : nm[h] = b

\* itrunc() clears what it has freed
Cleared ==
  \A i \in Files : /\ Cut(i) <= MAXFILE + 1
                   /\ \A k \in 0..(NDIRECT - 1) : k < Cut(i) => addrs[i][k] = 0
                   /\ Cut(i) > MAXFILE => addrs[i][NDIRECT] = 0

\* no block below the size is missing, nor below where writei() is
Reaches(i, n) == \A bn \in 0..(MAXFILE - 1) : bn * BSIZE < n => Names[<<i, bn>>] # 0
FileFilled(i) == lock[i] = NoProc \/ st[lock[i]].pc # "itrunc" => Reaches(i, size[i])
WriteFilled(p) ==
  st[p].pc \in Writing =>
    LET s == st[p]
        o == off[p][s.f]
    IN  /\ o <= size[s.f] /\ o + s.n1 <= MAXFILE * BSIZE
        /\ s.tot <= s.n1 /\ s.n1 <= s.n /\ s.n1 <= max
        /\ Reaches(s.f, o + s.tot)
Filled == (\A i \in Files : FileFilled(i)) /\ (\A p \in Procs : WriteFilled(p))

\* the blocks of file i that a write of n units at o touches, and those it may allocate
Touched(i, o, n) == {bn \in 0..(MAXFILE - 1) :
                       /\ o \div BSIZE <= bn /\ bn * BSIZE < o + n
                       /\ Names[<<i, bn>>] # 0}
Added(i, o, n) == {bn \in Touched(i, o, n) : o <= bn * BSIZE}

\* the bitmap blocks of the disk
Bitmaps == {BBLOCK(b) : b \in Blocks}

\* the data blocks, bitmap blocks and indirect block of a write of n units at o
WriteLog(i, o, n) ==
  LET d == Names[<<i, MAXFILE>>]
  IN  {Names[<<i, bn>>] : bn \in Touched(i, o, n)}
      \cup {BBLOCK(Names[<<i, bn>>]) : bn \in Added(i, o, n)}
      \cup (IF d = 0 THEN {} ELSE {d, BBLOCK(d)})

\* what a transaction has logged so far
LogsOf(p) ==
  /\ st[p].pc = "itrunc" => logged[p] \subseteq Bitmaps
  /\ st[p].pc \in Writing => logged[p] \subseteq WriteLog(st[p].f, off[p][st[p].f], st[p].n1)
  /\ st[p].pc \notin Working => logged[p] = {}
Logs == \A p \in Procs : LogsOf(p)

Inv == Typed /\ Locks /\ Owned(Names, bitmap) /\ Cleared /\ Filled /\ Logs
       /\ panicked # "freeing free block"

\* the root directory of the image does not fill its last block
RootFits == Boot = 0 \/ Boot % BSIZE # 0

-----------------------------------------------------------------------------
(***************************************************************************)
(* Arithmetic of blocks.                                                   *)
(***************************************************************************)
\* the sizes of things
LEMMA Sizes ==
  /\ BSIZE \in Nat /\ BSIZE > 0 /\ NDIRECT \in Nat /\ NDIRECT > 0 /\ FSSIZE \in Nat
  /\ MAXFILE \in Nat /\ MAXFILE = NDIRECT + BSIZE
  /\ MAXOPBLOCKS \in Nat /\ MAXOPBLOCKS >= 6 /\ BPB \in Nat /\ BPB > 0
  /\ Blocks \subseteq Nat /\ 0 \notin Blocks /\ 0..FSSIZE = Blocks \cup {0}
  /\ Files \subseteq Nat /\ 1 \in Files /\ NoProc \notin Procs
BY BlocksAssumption DEF MAXFILE, NINDIRECT, Blocks

\* quotient and remainder
LEMMA Div ==
  ASSUME NEW a \in Nat
  PROVE  /\ a \div BSIZE \in Nat /\ a % BSIZE \in 0..(BSIZE - 1)
         /\ a = (a \div BSIZE) * BSIZE + (a % BSIZE)
<1> DEFINE q == a \div BSIZE
           r == a % BSIZE
<1>1. q \in Int /\ r \in 0..(BSIZE - 1) /\ a = q * BSIZE + r
  BY Sizes
<1> HIDE DEF q, r
<1>2. ASSUME q < 0 PROVE FALSE
  <2>1. q * BSIZE <= (-1) * BSIZE
    BY <1>1, <1>2, Sizes
  <2> QED
    BY <1>1, <2>1, Sizes
<1>3. q \in Nat
  BY <1>1, <1>2
<1> QED
  BY <1>1, <1>3 DEF q, r

\* products are monotonic
LEMMA Times ==
  ASSUME NEW a \in Nat, NEW b \in Nat
  PROVE  /\ a * BSIZE \in Nat
         /\ a < b => a * BSIZE + BSIZE <= b * BSIZE
         /\ a <= b => a * BSIZE <= b * BSIZE
<1>1. a * BSIZE \in Nat /\ b * BSIZE \in Nat
  BY Sizes
<1>2. ASSUME a < b PROVE a * BSIZE + BSIZE <= b * BSIZE
  <2>1. PICK c \in Nat : b = a + 1 + c
    <3>1. b - a - 1 \in Nat /\ b = a + 1 + (b - a - 1)
      BY <1>2
    <3> QED
      BY <3>1
  <2>2. (a + 1 + c) * BSIZE = a * BSIZE + BSIZE + c * BSIZE /\ c * BSIZE \in Nat
    BY <2>1, Sizes
  <2> QED
    BY <1>1, <2>1, <2>2, Sizes
<1> QED
  BY <1>1, <1>2, Sizes

\* the block of a place
LEMMA BlockOf ==
  ASSUME NEW a \in Nat, NEW c \in Nat
  PROVE  /\ a < c * BSIZE <=> a \div BSIZE < c
         /\ c * BSIZE <= a <=> c <= a \div BSIZE
<1> DEFINE q == a \div BSIZE
<1>1. q \in Nat /\ q * BSIZE <= a /\ a < q * BSIZE + BSIZE /\ q * BSIZE \in Nat /\ c * BSIZE \in Nat
  BY Div, Times, Sizes
<1> HIDE DEF q
<1>2. /\ q < c => q * BSIZE + BSIZE <= c * BSIZE
      /\ c <= q => c * BSIZE <= q * BSIZE
  BY <1>1, Times
<1>3. q < c => a < c * BSIZE
  BY <1>1, <1>2, Sizes
<1>4. c <= q => c * BSIZE <= a
  BY <1>1, <1>2, Sizes
<1> QED
  BY <1>1, <1>3, <1>4 DEF q

\* every set of blocks has a first one
LEMMA FirstIs ==
  ASSUME NEW S \in SUBSET Nat, S # {}
  PROVE  First(S) \in S
<1>1. IsWellFoundedOn(OpToRel(<, Nat), Nat)
  BY NatLessThanWellFounded
<1>2. PICK x \in S : \A y \in S : ~(<<y, x>> \in OpToRel(<, Nat))
  BY <1>1, WFMin
<1>3. \A y \in S : ~(y < x)
  BY <1>2 DEF OpToRel
<1>4. \E z \in S : \A y \in S : z <= y
  BY <1>3
<1> QED
  BY <1>4 DEF First

-----------------------------------------------------------------------------
(***************************************************************************)
(* Names of blocks.                                                        *)
(***************************************************************************)
\* a block is given back
LEMMA FreePlace ==
  ASSUME NEW nm \in [Dom -> 0..FSSIZE], NEW bm \in SUBSET Blocks, Owned(nm, bm), NEW h \in Dom
  PROVE  Owned([nm EXCEPT ![h] = 0], bm \ {nm[h]})
BY Sizes DEF Owned

\* a free block is given to a place
LEMMA AllocPlace ==
  ASSUME NEW nm \in [Dom -> 0..FSSIZE], NEW bm \in SUBSET Blocks, Owned(nm, bm),
         NEW h \in Dom, nm[h] = 0, NEW b \in Blocks \ bm
  PROVE  Owned([nm EXCEPT ![h] = b], bm \cup {b})
<1> DEFINE m == [nm EXCEPT ![h] = b]
<1>1. \A g \in Dom : m[g] = IF g = h THEN b ELSE nm[g]
  OBVIOUS
<1> HIDE DEF m
<1>2. \A g \in Dom : m[g] \in (bm \cup {b}) \cup {0}
  BY <1>1 DEF Owned
<1>3. \A g, k \in Dom : m[g] = m[k] /\ m[g] # 0 => g = k
  BY <1>1, Sizes DEF Owned
<1>4. \A c \in bm \cup {b} : \E g \in Dom : m[g] = c
  BY <1>1, Sizes DEF Owned
<1> QED
  BY <1>2, <1>3, <1>4 DEF Owned, m

\* itrunc() is where the holder of the lock is
LEMMA CutIs ==
  ASSUME Inv, NEW i \in Files
  PROVE  TruncAt(i) = Cut(i) /\ (Truncating(i) <=> lock[i] # NoProc /\ st[lock[i]].pc = "itrunc")
<1>1. Truncating(i) <=> lock[i] # NoProc /\ st[lock[i]].pc = "itrunc"
  <2>1. lock[i] \in Procs \cup {NoProc}
    BY DEF Inv, Typed
  <2>2. ASSUME Truncating(i) PROVE lock[i] # NoProc /\ st[lock[i]].pc = "itrunc"
    <3>1. PICK p \in Procs : st[p].pc = "itrunc" /\ st[p].f = i
      BY <2>2 DEF Truncating
    <3>2. lock[i] = p
      BY <3>1 DEF Inv, Locks, Working
    <3> QED
      BY <3>1, <3>2, Sizes
  <2>3. ASSUME lock[i] # NoProc, st[lock[i]].pc = "itrunc" PROVE Truncating(i)
    BY <2>1, <2>3 DEF Inv, Locks, Truncating
  <2> QED
    BY <2>2, <2>3
<1>2. ASSUME Truncating(i)
      PROVE  TruncAt(i) = st[lock[i]].tot
  <2>1. \A p \in Procs : st[p].pc = "itrunc" /\ st[p].f = i => p = lock[i]
    BY DEF Inv, Locks, Working
  <2>2. \E p \in Procs : st[p].pc = "itrunc" /\ st[p].f = i
    BY <1>2 DEF Truncating
  <2> QED
    BY <1>2, <2>1, <2>2 DEF TruncAt
<1> QED
  BY <1>1, <1>2 DEF Cut, TruncAt

\* names are blocks
LEMMA NamesType ==
  ASSUME Inv
  PROVE  Names \in [Dom -> 0..FSSIZE]
<1>1. \A h \in Dom : Names[h] \in 0..FSSIZE
  BY Sizes DEF Inv, Typed, Owned
<1> QED
  BY <1>1 DEF Names

\* and what Names says at a place
LEMMA NameAt ==
  ASSUME NEW i \in Files, NEW k \in 0..MAXFILE
  PROVE  <<i, k>> \in Dom /\ Names[<<i, k>>] = Name(i, k)
BY DEF Dom, Names

-----------------------------------------------------------------------------
(***************************************************************************)
(* The steps keep the invariant.                                           *)
(***************************************************************************)
\* places name what they named if nothing is written and itrunc() is where it was
LEMMA SameNames ==
  ASSUME UNCHANGED <<blk, addrs>>, \A i \in Files : Cut(i)' = Cut(i)
  PROVE  Names' = Names
<1>1. \A i \in Files, k \in 0..MAXFILE : Name(i, k)' = Name(i, k)
  BY DEF Name, TruncBlock
<1> QED
  BY <1>1 DEF Names, Dom

\* what a process has
LEMMA ProcType ==
  ASSUME Inv, NEW p \in Procs
  PROVE  /\ st[p] \in [pc : Working \cup {"user", "filewrite"}, f : Nat, n : Nat, n1 : Nat, tot : Nat]
         /\ st[p].f \in Nat /\ st[p].n \in Nat /\ st[p].n1 \in Nat /\ st[p].tot \in Nat
         /\ off[p] \in [Files -> Nat] /\ logged[p] \subseteq Int
         /\ st[p].pc # "user" => st[p].f \in Files /\ off[p][st[p].f] \in Nat
         /\ st[p].pc \in Working => st[p].f \in Files /\ off[p][st[p].f] \in Nat /\ lock[st[p].f] = p
<1>1. st[p] \in [pc : Working \cup {"user", "filewrite"}, f : Nat, n : Nat, n1 : Nat, tot : Nat]
  BY DEF Inv, Typed
<1>2. off[p] \in [Files -> Nat] /\ logged[p] \subseteq Int
  BY DEF Inv, Typed
<1>3. st[p].f \in Nat /\ st[p].n \in Nat /\ st[p].n1 \in Nat /\ st[p].tot \in Nat
  BY <1>1
<1>4. st[p].pc # "user" => st[p].f \in Files
  BY DEF Inv, Locks
<1>5. st[p].pc \in Working => st[p].pc # "user" /\ lock[st[p].f] = p
  BY DEF Inv, Locks, Working
<1> QED
  BY <1>1, <1>2, <1>3, <1>4, <1>5

\* a write log is what the names of the file make it
LEMMA SameWriteLog ==
  ASSUME NEW i \in Files, NEW o \in Nat, NEW n \in Nat,
         \A k \in 0..MAXFILE : Names'[<<i, k>>] = Names[<<i, k>>]
  PROVE  WriteLog(i, o, n)' = WriteLog(i, o, n)
<1>1. MAXFILE \in 0..MAXFILE /\ \A bn \in 0..(MAXFILE - 1) : bn \in 0..MAXFILE
  BY Sizes
<1>2. Touched(i, o, n)' = Touched(i, o, n)
  BY <1>1 DEF Touched
<1>3. Added(i, o, n)' = Added(i, o, n)
  BY <1>2 DEF Added
<1>4. /\ \A bn \in Touched(i, o, n) : bn \in 0..MAXFILE
      /\ \A bn \in Added(i, o, n) : bn \in 0..MAXFILE
  BY <1>1 DEF Touched, Added
<1> DEFINE T == Touched(i, o, n)
           A == Added(i, o, n)
<1>5. \A bn \in T : Names'[<<i, bn>>] = Names[<<i, bn>>]
  BY <1>4
<1>6. \A bn \in A : BBLOCK(Names[<<i, bn>>])' = BBLOCK(Names[<<i, bn>>])
  BY <1>4 DEF BBLOCK
<1>7. Names'[<<i, MAXFILE>>] = Names[<<i, MAXFILE>>]
  BY <1>1
<1>8. {Names[<<i, bn>>] : bn \in T}' = {Names[<<i, bn>>] : bn \in T}
  <2> HIDE DEF Names, Touched
  <2> QED
    BY <1>2, <1>5
<1>9. {BBLOCK(Names[<<i, bn>>]) : bn \in A}' = {BBLOCK(Names[<<i, bn>>]) : bn \in A}
  BY <1>3, <1>6
<1> QED
  BY <1>7, <1>8, <1>9 DEF WriteLog, BBLOCK

\* a process keeps its part of the invariant if nobody touches its file
LEMMA OtherProc ==
  ASSUME Inv, NEW q \in Procs, st'[q] = st[q], off'[q] = off[q], logged'[q] = logged[q],
         st[q].pc \in Writing =>
           /\ size'[st[q].f] = size[st[q].f]
           /\ \A k \in 0..MAXFILE : Names'[<<st[q].f, k>>] = Names[<<st[q].f, k>>]
  PROVE  WriteFilled(q)' /\ LogsOf(q)'
<1>1. CASE st[q].pc \in Writing
  <2>1. st[q].f \in Files /\ off[q][st[q].f] \in Nat /\ st[q].n1 \in Nat
    BY <1>1, ProcType DEF Writing, Working
  <2>2. PICK i \in Files, o \in Nat, n \in Nat : i = st[q].f /\ o = off[q][st[q].f] /\ n = st[q].n1
    BY <2>1
  <2>3. /\ size'[i] = size[i]
        /\ \A k \in 0..MAXFILE : Names'[<<i, k>>] = Names[<<i, k>>]
    BY <1>1, <2>2
  <2>4. \A bn \in 0..(MAXFILE - 1) : bn \in 0..MAXFILE
    BY Sizes
  <2>5. PICK t \in Nat : t = o + st[q].tot
    BY ProcType
  <2>6. Reaches(i, t)'
    BY <1>1, <2>2, <2>3, <2>4, <2>5 DEF Inv, Filled, WriteFilled, Reaches
  <2>7. WriteFilled(q)'
    BY <1>1, <2>2, <2>3, <2>5, <2>6 DEF Inv, Filled, WriteFilled, max
  <2>8. WriteLog(i, o, n)' = WriteLog(i, o, n)
    BY <2>3, SameWriteLog
  <2>9. logged'[q] \subseteq WriteLog(i, o, n)'
    <3>1. logged[q] \subseteq WriteLog(i, o, n)
      BY <1>1, <2>2 DEF Inv, Logs, LogsOf
    <3> QED
      BY <2>8, <3>1
  <2>10. LogsOf(q)'
    BY <1>1, <2>2, <2>9 DEF LogsOf, Writing, Working
  <2> QED
    BY <2>7, <2>10
<1>2. CASE st[q].pc \notin Writing
  BY <1>2 DEF Inv, Logs, LogsOf, WriteFilled, Bitmaps, BBLOCK
<1> QED
  BY <1>1, <1>2

\* two processes at work have different files
LEMMA OtherFile ==
  ASSUME Inv, NEW p \in Procs, NEW q \in Procs, p # q, st[p].pc \in Working, st[q].pc \in Working
  PROVE  st[p].f # st[q].f /\ st[p].f \in Files /\ st[q].f \in Files
<1>1. lock[st[p].f] = p /\ lock[st[q].f] = q
  BY DEF Inv, Locks
<1>2. st[p].f \in Files /\ st[q].f \in Files
  BY DEF Inv, Locks, Working
<1> QED
  BY <1>1, <1>2

\* a step that changes nothing
LEMMA SameInv ==
  ASSUME Inv, UNCHANGED <<bitmap, blk, addrs, size, off, lock, st, logged, unlogged>>,
         panicked' # "freeing free block"
  PROVE  Inv'
<1>1. \A i \in Files : Cut(i)' = Cut(i)
  BY DEF Cut
<1>2. Names' = Names
  BY <1>1, SameNames
<1>3. Typed' /\ Locks'
  BY DEF Inv, Typed, Locks
<1>4. Owned(Names, bitmap)'
  BY <1>2 DEF Inv
<1>5. Cleared'
  BY <1>1 DEF Inv, Cleared
<1>6. \A i \in Files : FileFilled(i)'
  BY <1>2 DEF Inv, Filled, FileFilled, Reaches
<1>7. \A q \in Procs : WriteFilled(q)' /\ LogsOf(q)'
  BY <1>2, OtherProc
<1> QED
  BY <1>3, <1>4, <1>5, <1>6, <1>7 DEF Inv, Filled, Logs

\* the image that mkfs makes
LEMMA InitInv ==
  ASSUME RootFits
  PROVE  Init => Inv
<1> SUFFICES ASSUME Init PROVE Inv
  OBVIOUS
<1>1. /\ mkfs_blocks \in Nat /\ mkfs_blocks <= NDIRECT /\ mkfs_blocks <= FSSIZE
      /\ Boot > 0 => mkfs_size \in 0..(MAXFILE * BSIZE)
      /\ Boot > 0 => \A bn \in Nat : bn * BSIZE < mkfs_size => bn < mkfs_blocks
  <2> DEFINE a == Boot + BSIZE - 1
             q == Boot \div BSIZE
             c == q + 1
  <2>1. Boot \in Nat /\ a \in Nat
    BY BlocksAssumption, Sizes
  <2>2. q \in Nat /\ c \in Nat /\ a \div BSIZE \in Nat /\ mkfs_blocks = a \div BSIZE /\ mkfs_size = c * BSIZE
    BY <2>1, Div DEF mkfs_blocks, mkfs_size
  <2> HIDE DEF c
  <2>3. \A d \in Nat : Boot <= d * BSIZE => a \div BSIZE <= d
    <3> SUFFICES ASSUME NEW d \in Nat, Boot <= d * BSIZE PROVE a \div BSIZE < d + 1
      BY <2>2
    <3>1. d + 1 \in Nat /\ (d + 1) * BSIZE = d * BSIZE + BSIZE /\ d * BSIZE \in Nat
      BY Sizes
    <3> DEFINE e == d + 1
    <3>2. e \in Nat /\ a < e * BSIZE
      BY <2>1, <3>1, Sizes
    <3> HIDE DEF a, e
    <3>3. a \div BSIZE < e
      BY <2>1, <3>2, BlockOf
    <3> QED
      BY <3>3 DEF e
  <2>4. mkfs_blocks <= NDIRECT /\ mkfs_blocks <= FSSIZE
    BY <2>2, <2>3, BlocksAssumption, Sizes
  <2>5. ASSUME Boot > 0
        PROVE  /\ c <= MAXFILE
               /\ c <= a \div BSIZE
    <3>1. q <= NDIRECT
      <4>1. NDIRECT * BSIZE \in Nat /\ Boot < NDIRECT * BSIZE + BSIZE
        BY <2>1, BlocksAssumption, Sizes
      <4>2. (NDIRECT + 1) * BSIZE = NDIRECT * BSIZE + BSIZE
        BY Sizes
      <4> DEFINE e == NDIRECT + 1
      <4>3. e \in Nat /\ Boot < e * BSIZE
        BY <4>1, <4>2, Sizes
      <4> HIDE DEF e
      <4>4. q < e
        BY <2>1, <4>3, BlockOf
      <4> QED
        BY <2>2, <4>4, Sizes DEF e
    <3>2. Boot % BSIZE # 0
      BY <2>5 DEF RootFits
    <3>3. c * BSIZE <= a
      <4>1. Boot = q * BSIZE + (Boot % BSIZE) /\ Boot % BSIZE \in 0..(BSIZE - 1)
        BY <2>1, Div
      <4>2. (q + 1) * BSIZE = q * BSIZE + BSIZE /\ q * BSIZE \in Nat
        BY <2>2, Sizes
      <4> DEFINE r == Boot % BSIZE
      <4> HIDE DEF q, r
      <4> QED
        BY <2>1, <3>2, <4>1, <4>2, Sizes DEF c, r
    <3> HIDE DEF a
    <3>4. c <= a \div BSIZE
      BY <2>1, <2>2, <3>3, BlockOf
    <3> QED
      BY <2>2, <3>1, <3>4, Sizes DEF c
  <2>6. ASSUME Boot > 0 PROVE mkfs_size \in 0..(MAXFILE * BSIZE)
    BY <2>2, <2>5, <2>6, Times, Sizes
  <2>7. ASSUME Boot > 0, NEW bn \in Nat, bn * BSIZE < mkfs_size PROVE bn < mkfs_blocks
    <3>1. ~(c <= bn)
      BY <2>2, <2>7, Times
    <3> QED
      BY <2>2, <2>5, <2>7, <3>1
  <2> QED
    BY <2>2, <2>4, <2>6, <2>7
<1> DEFINE K == mkfs_blocks
           Z == mkfs_size
           M == MAXFILE * BSIZE
<1>k. K \in Nat /\ K <= NDIRECT /\ K <= FSSIZE /\ M \in Nat /\ Boot \in Nat
  BY <1>1, BlocksAssumption, Sizes
<1>z. (Boot > 0 => Z \in 0..M) /\ (Boot > 0 => \A bn \in Nat : bn * BSIZE < Z => bn < K)
  BY <1>1
<1>i. /\ bitmap = 1..K
      /\ blk = [b \in Blocks |-> IF b \in bitmap THEN Zeroes ELSE Junk]
      /\ addrs = [i \in Files |-> [k \in 0..NDIRECT |-> IF i = 1 /\ k < K THEN k + 1 ELSE 0]]
      /\ size = [i \in Files |-> IF i = 1 /\ Boot > 0 THEN Z ELSE 0]
      /\ off = [p \in Procs |-> [i \in Files |-> 0]]
      /\ lock = [i \in Files |-> NoProc]
      /\ st = [p \in Procs |-> Idle]
      /\ logged = [p \in Procs |-> {}]
      /\ unlogged = {} /\ panicked = ""
  BY DEF Init
<1> HIDE DEF K, Z, M
<1>2. \A i \in Files : Cut(i) = 0 /\ lock[i] = NoProc
  BY <1>i DEF Cut
<1>3. \A i \in Files, k \in 0..NDIRECT : addrs[i][k] = IF i = 1 /\ k < K THEN k + 1 ELSE 0
  BY <1>i
<1>4. ASSUME NEW i \in Files, NEW k \in 0..MAXFILE
      PROVE  Name(i, k) = IF i = 1 /\ k < K THEN k + 1 ELSE 0
  <2>1. NDIRECT \in 0..NDIRECT /\ ~(NDIRECT < K) /\ k \in Nat
    BY <1>k, Sizes
  <2>2. addrs[i][NDIRECT] = 0
    BY <1>3, <2>1
  <2>3. Cut(i) = 0 /\ ~(k < 0)
    BY <1>2, <2>1
  <2>4. CASE k < NDIRECT
    <3>1. k \in 0..NDIRECT
      BY <2>1, <2>4, Sizes
    <3> QED
      BY <1>3, <2>3, <2>4, <3>1 DEF Name, TruncBlock
  <2>5. CASE ~(k < NDIRECT)
    <3>1. ~(k < K)
      BY <1>k, <2>1, <2>5, Sizes
    <3> QED
      BY <2>2, <2>3, <2>5, <3>1 DEF Name, TruncBlock
  <2> QED
    BY <2>4, <2>5
<1>5. ASSUME NEW h \in Dom PROVE Names[h] = IF h[1] = 1 /\ h[2] < K THEN h[2] + 1 ELSE 0
  BY <1>4 DEF Names, Dom
<1>6. Typed
  <2>1. bitmap \subseteq Blocks /\ unlogged \subseteq Blocks
    <3>1. FSSIZE \in Nat
      BY Sizes
    <3>2. 1..K \subseteq 1..FSSIZE
      BY <1>k, <3>1
    <3> QED
      BY <1>i, <3>2 DEF Blocks
  <2>2. blk \in [Blocks -> [Units -> Int]]
    <3>1. Zeroes \in [Units -> Int] /\ Junk \in [Units -> Int]
      BY DEF Zeroes, Junk
    <3> QED
      BY <1>i, <3>1
  <2>3. addrs \in [Files -> [0..NDIRECT -> 0..FSSIZE]]
    <3>1. \A i \in Files : \A k \in 0..NDIRECT : (IF i = 1 /\ k < K THEN k + 1 ELSE 0) \in 0..FSSIZE
      BY <1>k, Sizes
    <3> QED
      BY <1>i, <3>1
  <2>4. size \in [Files -> 0..M]
    <3>1. \A i \in Files : (IF i = 1 /\ Boot > 0 THEN Z ELSE 0) \in 0..M
      BY <1>k, <1>z
    <3> QED
      BY <1>i, <3>1
  <2>5. off \in [Procs -> [Files -> Nat]] /\ lock \in [Files -> Procs \cup {NoProc}]
        /\ logged \in [Procs -> SUBSET Int]
    BY <1>i
  <2>6. st \in [Procs -> [pc : Working \cup {"user", "filewrite"}, f : Nat, n : Nat, n1 : Nat, tot : Nat]]
    BY <1>i DEF Idle
  <2> QED
    BY <2>1, <2>2, <2>3, <2>4, <2>5, <2>6 DEF Typed, M
<1>7. Locks
  BY <1>i DEF Locks, Idle, Working
<1>8. Owned(Names, bitmap)
  <2>1. bitmap = 1..K
    BY <1>i
  <2>2. \A h \in Dom : Names[h] \in bitmap \cup {0}
    BY <1>k, <1>5, <2>1 DEF Dom
  <2>3. \A h, g \in Dom : Names[h] = Names[g] /\ Names[h] # 0 => h = g
    BY <1>5 DEF Dom
  <2>4. ASSUME NEW b \in bitmap PROVE \E h \in Dom : Names[h] = b
    <3>1. b - 1 \in 0..MAXFILE /\ b - 1 < K /\ (b - 1) + 1 = b
      BY <1>k, <2>1, Sizes
    <3>2. <<1, b - 1>> \in Dom
      BY <3>1, Sizes DEF Dom
    <3>3. Names[<<1, b - 1>>] = b
      BY <1>5, <3>1, <3>2
    <3> QED
      BY <3>2, <3>3
  <2> HIDE DEF Names
  <2> QED
    BY <2>2, <2>3, <2>4 DEF Owned
<1>9. Cleared
  <2>1. ASSUME NEW i \in Files PROVE Cut(i) = 0 /\ MAXFILE \in Nat
    BY <1>2, Sizes
  <2> QED
    BY <2>1 DEF Cleared
<1>10. Filled
  <2>1. ASSUME NEW i \in Files PROVE FileFilled(i)
    <3> SUFFICES ASSUME NEW bn \in 0..(MAXFILE - 1), bn * BSIZE < size[i]
                 PROVE  Names[<<i, bn>>] # 0
      BY DEF FileFilled, Reaches
    <3>1. bn \in Nat /\ bn \in 0..MAXFILE /\ <<i, bn>> \in Dom
      BY Sizes DEF Dom
    <3>2. bn * BSIZE \in Nat /\ ~(bn * BSIZE < 0)
      BY <3>1, Times
    <3>3. i = 1 /\ Boot > 0 /\ size[i] = Z
      BY <1>i, <3>2
    <3>4. bn < K
      BY <1>z, <3>1, <3>3
    <3>5. Names[<<i, bn>>] = bn + 1
      BY <1>5, <3>1, <3>3, <3>4
    <3> QED
      BY <3>1, <3>5
  <2>2. \A p \in Procs : WriteFilled(p)
    BY <1>i DEF WriteFilled, Idle, Writing
  <2> QED
    BY <2>1, <2>2 DEF Filled
<1>11. Logs
  BY <1>i DEF Logs, LogsOf, Idle, Working, Writing
<1> QED
  BY <1>i, <1>6, <1>7, <1>8, <1>9, <1>10, <1>11 DEF Inv

\* the other processes keep theirs if only files that p has locked, or nobody, are changed
LEMMA Others ==
  ASSUME Inv, NEW p \in Procs,
         \A q \in Procs \ {p} : st'[q] = st[q] /\ off'[q] = off[q] /\ logged'[q] = logged[q],
         \A i \in Files : lock[i] \notin {p, NoProc} =>
           /\ size'[i] = size[i]
           /\ \A k \in 0..MAXFILE : Names'[<<i, k>>] = Names[<<i, k>>],
         NEW q \in Procs, q # p
  PROVE  WriteFilled(q)' /\ LogsOf(q)'
<1>1. st'[q] = st[q] /\ off'[q] = off[q] /\ logged'[q] = logged[q]
  OBVIOUS
<1>2. ASSUME st[q].pc \in Writing
      PROVE  st[q].f \in Files /\ lock[st[q].f] \notin {p, NoProc}
  BY <1>2, ProcType, Sizes DEF Writing, Working
<1> QED
  BY <1>1, <1>2, OtherProc

\* a step that changes no block and no name
LEMMA LightStep ==
  ASSUME Inv, NEW p \in Procs, UNCHANGED <<bitmap, blk, addrs, size, unlogged, panicked>>,
         Typed', Locks', \A i \in Files : Cut(i)' = Cut(i),
         \A q \in Procs \ {p} : st'[q] = st[q] /\ off'[q] = off[q] /\ logged'[q] = logged[q],
         \A i \in Files : lock'[i] = NoProc \/ st'[lock'[i]].pc # "itrunc" =>
                          lock[i] = NoProc \/ st[lock[i]].pc # "itrunc",
         WriteFilled(p)', LogsOf(p)'
  PROVE  Inv'
<1>1. Names' = Names
  BY SameNames
<1>2. Owned(Names, bitmap)'
  BY <1>1 DEF Inv
<1>3. Cleared'
  BY DEF Inv, Cleared
<1>4. ASSUME NEW i \in Files PROVE FileFilled(i)'
  <2>1. PICK n : n = size[i]
    OBVIOUS
  <2>2. Reaches(i, n)' <=> Reaches(i, n)
    BY <1>1 DEF Reaches
  <2> QED
    BY <2>1, <2>2 DEF Inv, Filled, FileFilled
<1>5. ASSUME NEW q \in Procs PROVE WriteFilled(q)' /\ LogsOf(q)'
  <2>1. CASE q = p
    BY <2>1
  <2>2. CASE q # p
    BY <1>1, <2>2, Others
  <2> QED
    BY <2>1, <2>2
<1> QED
  BY <1>2, <1>3, <1>4, <1>5 DEF Inv, Filled, Logs

\* the largest piece is a number of blocks
LEMMA MaxIs ==
  \E m \in Nat : max = m * BSIZE /\ max \in Nat /\ 2 * m + 4 <= MAXOPBLOCKS
<1> DEFINE m == (MAXOPBLOCKS - 1 - 1 - 2) \div 2
<1>1. m \in Nat /\ 2 * m + 4 <= MAXOPBLOCKS
  BY Sizes
<1>2. m * BSIZE \in Nat
  BY <1>1, Sizes
<1> QED
  BY <1>1, <1>2 DEF max

\* who holds the lock of an inode
LEMMA Holder ==
  ASSUME Inv, NEW i \in Files
  PROVE  /\ lock[i] \in Procs \cup {NoProc}
         /\ lock[i] # NoProc => /\ lock[i] \in Procs /\ st[lock[i]].pc \in Working
                               /\ st[lock[i]].f = i
<1>1. lock[i] \in Procs \cup {NoProc}
  BY DEF Inv, Typed
<1>2. lock[i] # NoProc => st[lock[i]].pc \in Working /\ st[lock[i]].f = i
  BY DEF Inv, Locks
<1> QED
  BY <1>1, <1>2

\* p goes to s and leaves inode i with l as the holder of its lock
LEMMA LockStep ==
  ASSUME Inv, NEW p \in Procs, NEW i \in Files, NEW s, NEW l,
         lock[i] \in {p, NoProc}, st[p].pc \in Working => st[p].f = i,
         \A q \in Procs : st'[q] = IF q = p THEN s ELSE st[q],
         \A j \in Files : lock'[j] = IF j = i THEN l ELSE lock[j],
         s.pc # "user" => s.f \in Files,
         IF s.pc \in Working THEN l = p /\ s.f = i ELSE l = NoProc
  PROVE  /\ Locks'
         /\ \A j \in Files : j # i => lock[j] # p /\ Cut(j)' = Cut(j)
         /\ Cut(i)' = IF s.pc = "itrunc" THEN s.tot ELSE 0
         /\ Cut(i) = IF st[p].pc = "itrunc" THEN st[p].tot ELSE 0
         /\ \A q \in Procs \ {p} : st'[q] = st[q]
<1>1. ASSUME NEW j \in Files, j # i
      PROVE  /\ lock[j] # p /\ lock'[j] = lock[j]
             /\ lock[j] # NoProc => lock[j] \in Procs /\ st'[lock[j]] = st[lock[j]]
  BY <1>1, Holder, Sizes
<1>2. \A q \in Procs : /\ st'[q].pc # "user" => st'[q].f \in Files
                       /\ st'[q].pc \in Working => lock'[st'[q].f] = q
  <2> TAKE q \in Procs
  <2>1. CASE q = p
    <3>1. st'[q] = s
      BY <2>1
    <3> QED
      BY <2>1, <3>1
  <2>2. CASE q # p
    <3>1. st'[q] = st[q]
      BY <2>2
    <3>2. st[q].pc # "user" => st[q].f \in Files
      BY ProcType
    <3>3. st[q].pc \in Working => st[q].f \in Files /\ lock[st[q].f] = q
      BY ProcType
    <3>4. st[q].pc \in Working => st[q].f # i
      BY <2>2, <3>3, Sizes
    <3> QED
      BY <3>1, <3>2, <3>3, <3>4
  <2> QED
    BY <2>1, <2>2
<1>3. \A j \in Files : lock'[j] # NoProc => st'[lock'[j]].pc \in Working /\ st'[lock'[j]].f = j
  <2> TAKE j \in Files
  <2>1. CASE j = i
    BY <2>1
  <2>2. CASE j # i
    BY <1>1, <2>2, Holder
  <2> QED
    BY <2>1, <2>2
<1>4. Locks'
  BY <1>2, <1>3 DEF Locks
<1>5. \A j \in Files : j # i => lock[j] # p /\ Cut(j)' = Cut(j)
  BY <1>1 DEF Cut
<1>6. Cut(i)' = IF s.pc = "itrunc" THEN s.tot ELSE 0
  BY Sizes DEF Cut, Working
<1>7. Cut(i) = IF st[p].pc = "itrunc" THEN st[p].tot ELSE 0
  <2>1. st[p].pc = "itrunc" => lock[i] = p
    BY ProcType DEF Working
  <2> QED
    BY <2>1, Sizes DEF Cut
<1> QED
  BY <1>4, <1>5, <1>6, <1>7

\* sys_open() keeps the invariant: itrunc() begins with nothing cut
LEMMA OpenInv ==
  ASSUME Inv, NEW p \in Procs, NEW i \in Files, NEW trunc \in BOOLEAN, sys_open(p, i, trunc)
  PROVE  Inv'
<1> DEFINE s == [Idle EXCEPT !.pc = "itrunc", !.f = i]
<1>1. st[p].pc = "user" /\ st[p].pc \notin Working /\ st[p].pc \notin Writing /\ lock[i] = NoProc
  BY DEF sys_open, At, Working, Writing
<1>2. /\ off' = [off EXCEPT ![p][i] = 0]
      /\ UNCHANGED <<bitmap, blk, addrs, size, logged, unlogged, panicked>>
      /\ IF trunc THEN lock' = [lock EXCEPT ![i] = p] /\ st' = [st EXCEPT ![p] = s]
                  ELSE UNCHANGED <<lock, st>>
  BY DEF sys_open, Goto
<1>3. /\ s \in [pc : Working \cup {"user", "filewrite"}, f : Nat, n : Nat, n1 : Nat, tot : Nat]
      /\ s.pc = "itrunc" /\ s.f = i /\ s.tot = 0 /\ i \in Nat
  BY Sizes DEF Idle, Working
<1> HIDE DEF s
<1>4. /\ st \in [Procs -> [pc : Working \cup {"user", "filewrite"}, f : Nat, n : Nat, n1 : Nat, tot : Nat]]
      /\ lock \in [Files -> Procs \cup {NoProc}] /\ off \in [Procs -> [Files -> Nat]]
  BY DEF Inv, Typed
<1>6. Typed'
  <2>1. /\ st' \in [Procs -> [pc : Working \cup {"user", "filewrite"}, f : Nat, n : Nat, n1 : Nat, tot : Nat]]
        /\ lock' \in [Files -> Procs \cup {NoProc}]
    BY <1>2, <1>3, <1>4
  <2>2. off' \in [Procs -> [Files -> Nat]]
    BY <1>2, <1>4
  <2> QED
    BY <1>2, <2>1, <2>2 DEF Inv, Typed
<1>7. CASE trunc
  <2>1. /\ \A q \in Procs : st'[q] = IF q = p THEN s ELSE st[q]
        /\ \A j \in Files : lock'[j] = IF j = i THEN p ELSE lock[j]
        /\ \A q \in Procs \ {p} : off'[q] = off[q]
    BY <1>2, <1>4, <1>7
  <2>2. /\ Locks'
        /\ \A j \in Files : j # i => lock[j] # p /\ Cut(j)' = Cut(j)
        /\ Cut(i)' = 0 /\ Cut(i) = 0
    BY <1>1, <1>3, <2>1, LockStep DEF Working
  <2>3. \A j \in Files : Cut(j)' = Cut(j)
    BY <2>2
  <2>4. \A j \in Files : lock'[j] = NoProc \/ st'[lock'[j]].pc # "itrunc" =>
                         lock[j] = NoProc \/ st[lock[j]].pc # "itrunc"
    BY <1>1, <2>1, <2>2, Holder
  <2>5. WriteFilled(p)'
    BY <1>3, <2>1 DEF WriteFilled, Writing
  <2>6. LogsOf(p)'
    BY <1>1, <1>2, <1>3, <2>1 DEF LogsOf, Writing, Working, Inv, Logs
  <2> QED
    BY <1>2, <1>6, <2>1, <2>2, <2>3, <2>4, <2>5, <2>6, LightStep
<1>8. CASE ~trunc
  <2>1. UNCHANGED <<lock, st, logged>> /\ \A q \in Procs \ {p} : off'[q] = off[q]
    BY <1>2, <1>4, <1>8
  <2>2. Locks' /\ \A j \in Files : Cut(j)' = Cut(j)
    BY <2>1 DEF Inv, Locks, Cut
  <2>3. WriteFilled(p)' /\ LogsOf(p)'
    BY <1>1, <2>1 DEF WriteFilled, LogsOf, Inv, Logs, Working
  <2> QED
    BY <1>2, <1>6, <2>1, <2>2, <2>3, LightStep
<1> QED
  BY <1>7, <1>8

\* fileread() moves an offset only
LEMMA ReadInv ==
  ASSUME Inv, NEW p \in Procs, NEW f \in Files, NEW n \in Nat, fileread(p, f, n)
  PROVE  Inv'
<1>1. st[p].pc = "user" /\ st[p].pc \notin Working /\ st[p].pc \notin Writing
  BY DEF fileread, At, Working, Writing
<1>2. /\ UNCHANGED <<bitmap, blk, addrs, size, lock, st, logged, unlogged, panicked>>
      /\ \E r \in Nat : off' = [off EXCEPT ![p][f] = @ + r]
  <2> DEFINE a == IF off[p][f] > size[f] THEN 0 ELSE min(n, size[f] - off[p][f])
  <2>1. /\ UNCHANGED <<bitmap, blk, addrs, size, lock, st, logged, unlogged, panicked>>
        /\ \E r \in 0..a : off' = [off EXCEPT ![p][f] = @ + r]
    BY DEF fileread
  <2>2. \A r \in 0..a : r \in Nat
    <3> HIDE DEF a
    <3> QED
      OBVIOUS
  <2> HIDE DEF a
  <2> QED
    BY <2>1, <2>2
<1>3. off \in [Procs -> [Files -> Nat]]
  BY DEF Inv, Typed
<1>4. off' \in [Procs -> [Files -> Nat]] /\ \A q \in Procs \ {p} : off'[q] = off[q]
  BY <1>2, <1>3
<1>5. Typed' /\ Locks' /\ \A j \in Files : Cut(j)' = Cut(j)
  BY <1>2, <1>4 DEF Inv, Typed, Locks, Cut
<1>6. WriteFilled(p)' /\ LogsOf(p)'
  BY <1>1, <1>2 DEF WriteFilled, LogsOf, Inv, Logs, Working
<1> QED
  BY <1>2, <1>4, <1>5, <1>6, LightStep

\* the places of data blocks are places
LEMMA DataPlaces ==
  MAXFILE \in 0..MAXFILE /\ \A bn \in 0..(MAXFILE - 1) : bn \in 0..MAXFILE /\ bn \in Nat
BY Sizes

\* sizes are numbers
LEMMA SizeType ==
  ASSUME Inv, NEW i \in Files
  PROVE  size[i] \in Nat /\ size[i] \in 0..(MAXFILE * BSIZE) /\ MAXFILE * BSIZE \in Nat
<1>1. size[i] \in 0..(MAXFILE * BSIZE)
  BY DEF Inv, Typed
<1>2. MAXFILE * BSIZE \in Nat
  BY Sizes
<1> DEFINE M == MAXFILE * BSIZE
<1> HIDE DEF M
<1> QED
  BY <1>1, <1>2 DEF M

\* a step of p on inode i: the parts of the invariant it has to keep
LEMMA FileStep ==
  ASSUME Inv, NEW p \in Procs, NEW i \in Files, lock[i] \in {p, NoProc},
         \A j \in Files : j # i => lock[j] # p,
         \A q \in Procs \ {p} : st'[q] = st[q] /\ off'[q] = off[q] /\ logged'[q] = logged[q],
         \A j \in Files : j # i =>
           /\ size'[j] = size[j] /\ addrs'[j] = addrs[j] /\ lock'[j] = lock[j] /\ Cut(j)' = Cut(j)
           /\ \A k \in 0..MAXFILE : Names'[<<j, k>>] = Names[<<j, k>>],
         Typed', Locks', Owned(Names, bitmap)', panicked' # "freeing free block",
         Cut(i)' <= MAXFILE + 1,
         \A k \in 0..(NDIRECT - 1) : k < Cut(i)' => addrs'[i][k] = 0,
         Cut(i)' > MAXFILE => addrs'[i][NDIRECT] = 0,
         FileFilled(i)', WriteFilled(p)', LogsOf(p)'
  PROVE  Inv'
<1>1. Cleared'
  <2> SUFFICES ASSUME NEW j \in Files
               PROVE  /\ Cut(j)' <= MAXFILE + 1
                      /\ \A k \in 0..(NDIRECT - 1) : k < Cut(j)' => addrs'[j][k] = 0
                      /\ Cut(j)' > MAXFILE => addrs'[j][NDIRECT] = 0
    BY DEF Cleared
  <2>1. CASE j = i
    BY <2>1
  <2>2. CASE j # i
    <3>1. Cut(j)' = Cut(j) /\ addrs'[j] = addrs[j]
      BY <2>2
    <3>2. /\ Cut(j) <= MAXFILE + 1
          /\ \A k \in 0..(NDIRECT - 1) : k < Cut(j) => addrs[j][k] = 0
          /\ Cut(j) > MAXFILE => addrs[j][NDIRECT] = 0
      BY DEF Inv, Cleared
    <3> HIDE DEF Cut
    <3> QED
      BY <3>1, <3>2
  <2> QED
    BY <2>1, <2>2
<1>2. ASSUME NEW j \in Files PROVE FileFilled(j)'
  <2>1. CASE j = i
    BY <2>1
  <2>2. CASE j # i
    <3>1. PICK n : n = size[j]
      OBVIOUS
    <3>2. \A bn \in 0..(MAXFILE - 1) : Names'[<<j, bn>>] = Names[<<j, bn>>]
      <4>1. \A bn \in 0..(MAXFILE - 1) : bn \in 0..MAXFILE
        BY DataPlaces
      <4> QED
        BY <2>2, <4>1
    <3>3. Reaches(j, n)' <=> Reaches(j, n)
      BY <3>2 DEF Reaches
    <3>4. lock[j] # NoProc => st'[lock[j]] = st[lock[j]]
      BY <2>2, Holder
    <3>5. lock'[j] = lock[j] /\ size'[j] = n
      BY <2>2, <3>1
    <3>6. FileFilled(j)
      BY DEF Inv, Filled
    <3> QED
      BY <3>1, <3>3, <3>4, <3>5, <3>6 DEF FileFilled
  <2> QED
    BY <2>1, <2>2
<1>3. ASSUME NEW q \in Procs PROVE WriteFilled(q)' /\ LogsOf(q)'
  <2>1. CASE q = p
    BY <2>1
  <2>2. CASE q # p
    <3>1. \A j \in Files : lock[j] \notin {p, NoProc} => j # i
      OBVIOUS
    <3> QED
      BY <2>2, <3>1, Others
  <2> QED
    BY <2>1, <2>2
<1> QED
  BY <1>1, <1>2, <1>3 DEF Inv, Filled, Logs

\* filewrite() takes the lock, and what writei() checks is what WriteFilled asks for
LEMMA TurnInv ==
  ASSUME Inv, NEW p \in Procs, NEW f \in Files, NEW n \in Nat,
         st[p].pc \in {"user", "filewrite"}, Turn(p, f, n)
  PROVE  Inv'
<1> DEFINE m == min(n, max)
           w == [pc |-> "writei", f |-> f, n |-> n, n1 |-> m, tot |-> 0]
           out == OutOfRange(p, f, m)
           s == IF out THEN Idle ELSE w
           l == IF out THEN NoProc ELSE p
           S == [pc : Working \cup {"user", "filewrite"}, f : Nat, n : Nat, n1 : Nat, tot : Nat]
<1>1. m \in Nat /\ m <= n /\ m <= max
  BY MaxIs DEF min
<1>2. /\ lock[f] = NoProc /\ st[p].pc \notin Working /\ st[p].pc \notin Writing
      /\ lock' = [lock EXCEPT ![f] = l] /\ st' = [st EXCEPT ![p] = s]
      /\ UNCHANGED <<bitmap, blk, addrs, size, off, logged, unlogged, panicked>>
  <2>1. lock \in [Files -> Procs \cup {NoProc}]
    BY DEF Inv, Typed
  <2>2. lock[f] = NoProc => lock = [lock EXCEPT ![f] = NoProc]
    BY <2>1
  <2> QED
    BY <2>2 DEF Turn, Goto, Working, Writing
<1>3. s \in S
  BY <1>1, Sizes DEF Idle, Working
<1>4. /\ out => s = Idle /\ l = NoProc
      /\ ~out => s = w /\ l = p
  OBVIOUS
<1>5. /\ out => s.pc = "user" /\ s.pc \notin Working /\ s.pc \notin Writing
      /\ ~out => s.pc = "writei" /\ s.pc \in Working /\ s.f = f /\ s.n = n /\ s.n1 = m /\ s.tot = 0
  BY <1>4 DEF Idle, Working, Writing
<1> HIDE DEF s, l, out, m
<1>6. /\ \A q \in Procs : st'[q] = IF q = p THEN s ELSE st[q]
      /\ \A j \in Files : lock'[j] = IF j = f THEN l ELSE lock[j]
      /\ st' \in [Procs -> S] /\ lock' \in [Files -> Procs \cup {NoProc}]
  <2>1. st \in [Procs -> S] /\ lock \in [Files -> Procs \cup {NoProc}]
    BY DEF Inv, Typed
  <2> QED
    BY <1>2, <1>3, <1>4, <2>1
<1>7. Typed'
  BY <1>2, <1>6 DEF Inv, Typed
<1>8. /\ Locks'
      /\ \A j \in Files : j # f => lock[j] # p /\ Cut(j)' = Cut(j)
      /\ Cut(f)' = 0 /\ Cut(f) = 0
      /\ \A q \in Procs \ {p} : st'[q] = st[q]
  <2>1. s.pc # "user" => s.f \in Files
    BY <1>5
  <2>2. IF s.pc \in Working THEN l = p /\ s.f = f ELSE l = NoProc
    BY <1>4, <1>5
  <2>3. s.pc # "itrunc" /\ st[p].pc # "itrunc"
    BY <1>2, <1>5 DEF Working
  <2> QED
    BY <1>2, <1>6, <2>1, <2>2, <2>3, LockStep
<1>9. \A j \in Files : lock'[j] = NoProc \/ st'[lock'[j]].pc # "itrunc" =>
                       lock[j] = NoProc \/ st[lock[j]].pc # "itrunc"
  BY <1>2, <1>6, <1>8, Holder
<1>10. \A j \in Files : Cut(j)' = Cut(j)
  BY <1>8
<1>11. Names' = Names
  BY <1>2, <1>10, SameNames
<1>12. WriteFilled(p)'
  <2>1. CASE out
    BY <1>5, <1>6, <2>1 DEF WriteFilled
  <2>2. CASE ~out
    <3>1. PICK o \in Nat, z \in Nat : o = off[p][f] /\ z = size[f]
      BY ProcType, SizeType
    <3>2. o <= z /\ o + m <= MAXFILE * BSIZE
      <4>1. MAXFILE * BSIZE \in Nat
        BY Sizes
      <4> DEFINE M == MAXFILE * BSIZE
      <4> HIDE DEF M
      <4>2. ~(o > z) /\ ~(o + m > M)
        BY <2>2, <3>1 DEF out, OutOfRange, M
      <4> QED
        BY <1>1, <4>1, <4>2 DEF M
    <3>3. Reaches(f, z)
      BY <1>2, <3>1 DEF Inv, Filled, FileFilled
    <3>4. Reaches(f, o)'
      <4> SUFFICES ASSUME NEW bn \in 0..(MAXFILE - 1), bn * BSIZE < o PROVE Names'[<<f, bn>>] # 0
        BY DEF Reaches
      <4>1. bn * BSIZE \in Nat
        BY Times, Sizes
      <4> QED
        BY <1>11, <3>1, <3>2, <3>3, <4>1 DEF Reaches
    <3>5. st'[p] = s /\ off'[p][f] = o /\ size'[f] = z /\ o + 0 = o /\ max' = max /\ 0 <= m
      BY <1>1, <1>2, <1>6, <3>1 DEF max
    <3> QED
      BY <1>1, <1>5, <2>2, <3>2, <3>4, <3>5 DEF WriteFilled
  <2> QED
    BY <2>1, <2>2
<1>13. LogsOf(p)'
  <2>1. logged'[p] = {}
    BY <1>2 DEF Inv, Logs, LogsOf
  <2> QED
    BY <2>1 DEF LogsOf
<1> QED
  BY <1>2, <1>7, <1>8, <1>9, <1>10, <1>12, <1>13, LightStep

\* writei() ends: the size does not grow past where its loop stopped
LEMMA WriteEndInv ==
  ASSUME Inv, NEW p \in Procs, writei_end(p)
  PROVE  Inv'
<1> DEFINE S == [pc : Working \cup {"user", "filewrite"}, f : Nat, n : Nat, n1 : Nat, tot : Nat]
           M == MAXFILE * BSIZE
<1>1. st[p].pc \in Writing /\ st[p].pc \in Working /\ st[p].pc # "itrunc"
  BY DEF writei_end, At, Writing, Working
<1>2. PICK f \in Files, n \in Nat, n1 \in Nat, t \in Nat, o \in Nat :
        f = st[p].f /\ n = st[p].n /\ n1 = st[p].n1 /\ t = st[p].tot /\ o = off[p][f]
  BY <1>1, ProcType
<1>3. PICK z \in Nat : z = size[f] /\ z <= M /\ M \in Nat
  BY SizeType
<1>4. o <= z /\ o + n1 <= M /\ t <= n1 /\ n1 <= n /\ Reaches(f, o + t)
  BY <1>1, <1>2, <1>3 DEF Inv, Filled, WriteFilled
<1> DEFINE y == IF o + t > z THEN o + t ELSE z
           s == IF n = n1 THEN Idle ELSE [Idle EXCEPT !.pc = "filewrite", !.f = f, !.n = n - n1]
<1> HIDE DEF M
<1>5. y \in Nat /\ y <= M /\ y \in 0..M
  BY <1>3, <1>4
<1>6. s \in S /\ s.pc \in {"user", "filewrite"} /\ (s.pc # "user" => s.f = f)
  <2>1. n - n1 \in Nat /\ f \in Nat
    BY <1>4, Sizes
  <2>2. CASE n = n1
    BY <2>2 DEF Idle, Working
  <2>3. CASE n # n1
    BY <2>1, <2>3 DEF Idle, Working
  <2> QED
    BY <2>2, <2>3
<1>7. /\ size' = [size EXCEPT ![f] = y]
      /\ off' = [off EXCEPT ![p][f] = o + n1]
      /\ lock' = [lock EXCEPT ![f] = NoProc]
      /\ logged' = [logged EXCEPT ![p] = {}]
      /\ st' = [st EXCEPT ![p] = s]
      /\ UNCHANGED <<bitmap, blk, addrs, unlogged, panicked>>
  BY <1>2, <1>3 DEF writei_end, Goto
<1> HIDE DEF s, y
<1>8. /\ st \in [Procs -> S] /\ lock \in [Files -> Procs \cup {NoProc}]
      /\ size \in [Files -> 0..M] /\ off \in [Procs -> [Files -> Nat]]
      /\ logged \in [Procs -> SUBSET Int]
  BY DEF Inv, Typed, M
<1>9. /\ \A q \in Procs : st'[q] = IF q = p THEN s ELSE st[q]
      /\ \A j \in Files : lock'[j] = IF j = f THEN NoProc ELSE lock[j]
      /\ st' \in [Procs -> S] /\ lock' \in [Files -> Procs \cup {NoProc}]
  BY <1>6, <1>7, <1>8
<1>10. /\ \A j \in Files : size'[j] = IF j = f THEN y ELSE size[j]
       /\ size' \in [Files -> 0..M]
  BY <1>5, <1>7, <1>8
<1>11. /\ \A q \in Procs \ {p} : off'[q] = off[q] /\ logged'[q] = logged[q]
       /\ logged'[p] = {}
       /\ off' \in [Procs -> [Files -> Nat]] /\ logged' \in [Procs -> SUBSET Int]
  <2>1. o + n1 \in Nat
    OBVIOUS
  <2> QED
    BY <1>7, <1>8, <2>1
<1>12. Typed'
  BY <1>7, <1>9, <1>10, <1>11 DEF Inv, Typed, M
<1>13. s.pc \notin Working /\ s.pc \notin Writing /\ s.pc # "itrunc"
  BY <1>6 DEF Working, Writing
<1>14. lock[f] = p
  BY <1>1, <1>2, ProcType
<1>15. /\ Locks'
       /\ \A j \in Files : j # f => lock[j] # p /\ Cut(j)' = Cut(j)
       /\ Cut(f)' = 0 /\ Cut(f) = 0
       /\ \A q \in Procs \ {p} : st'[q] = st[q]
  <2>1. lock[f] \in {p, NoProc} /\ (st[p].pc \in Working => st[p].f = f)
    BY <1>2, <1>14
  <2>2. s.pc # "user" => s.f \in Files
    BY <1>6
  <2>3. IF s.pc \in Working THEN NoProc = p /\ s.f = f ELSE NoProc = NoProc
    BY <1>13
  <2> HIDE DEF S
  <2> QED
    BY <1>1, <1>9, <1>13, <2>1, <2>2, <2>3, LockStep
<1>16. Names' = Names
  BY <1>7, <1>15, SameNames
<1>17. Owned(Names, bitmap)'
  BY <1>7, <1>16 DEF Inv
<1>18. FileFilled(f)'
  <2>1. Reaches(f, z)
    BY <1>1, <1>3, <1>14 DEF Inv, Filled, FileFilled
  <2>2. Reaches(f, y)
    BY <1>4, <2>1 DEF y
  <2>3. Reaches(f, y)'
    BY <1>16, <2>2 DEF Reaches
  <2> QED
    BY <1>10, <2>3 DEF FileFilled
<1>19. WriteFilled(p)' /\ LogsOf(p)'
  BY <1>9, <1>11, <1>13 DEF WriteFilled, LogsOf
<1>20. \A j \in Files : j # f =>
         /\ size'[j] = size[j] /\ addrs'[j] = addrs[j] /\ lock'[j] = lock[j] /\ Cut(j)' = Cut(j)
         /\ \A k \in 0..MAXFILE : Names'[<<j, k>>] = Names[<<j, k>>]
  BY <1>7, <1>9, <1>10, <1>15, <1>16
<1>21. /\ Cut(f)' <= MAXFILE + 1
       /\ \A k \in 0..(NDIRECT - 1) : ~(k < Cut(f)')
       /\ ~(Cut(f)' > MAXFILE)
  BY <1>15, Sizes
<1>22. panicked' # "freeing free block"
  BY <1>7 DEF Inv
<1>23. /\ \A j \in Files : j # f => lock[j] # p
       /\ \A q \in Procs \ {p} : st'[q] = st[q] /\ off'[q] = off[q] /\ logged'[q] = logged[q]
       /\ lock[f] \in {p, NoProc}
  BY <1>11, <1>14, <1>15
<1> HIDE DEF Cut, Names
<1> QED
  BY <1>12, <1>15, <1>17, <1>18, <1>19, <1>20, <1>21, <1>22, <1>23, FileStep

\* itrunc() ends: all that it has gone through is cleared, so that nothing is named again
LEMMA TruncEndInv ==
  ASSUME Inv, NEW p \in Procs, itrunc_end(p)
  PROVE  Inv'
<1> DEFINE S == [pc : Working \cup {"user", "filewrite"}, f : Nat, n : Nat, n1 : Nat, tot : Nat]
           M == MAXFILE * BSIZE
<1>1. st[p].pc = "itrunc" /\ st[p].pc \in Working
  BY DEF itrunc_end, At, Working
<1>2. PICK f \in Files, t \in Nat : f = st[p].f /\ t = st[p].tot /\ t > MAXFILE
  BY <1>1, ProcType DEF itrunc_end
<1>3. M \in Nat /\ 0 \in 0..M
  BY Sizes
<1> HIDE DEF M
<1>4. /\ size' = [size EXCEPT ![f] = 0]
      /\ lock' = [lock EXCEPT ![f] = NoProc]
      /\ logged' = [logged EXCEPT ![p] = {}]
      /\ st' = [st EXCEPT ![p] = Idle]
      /\ UNCHANGED <<bitmap, blk, addrs, off, unlogged, panicked>>
  BY <1>2 DEF itrunc_end, Goto
<1>5. Idle \in S /\ Idle.pc = "user" /\ Idle.pc \notin Working /\ Idle.pc \notin Writing
  BY DEF Idle, Working, Writing
<1>6. /\ st \in [Procs -> S] /\ lock \in [Files -> Procs \cup {NoProc}]
      /\ size \in [Files -> 0..M] /\ logged \in [Procs -> SUBSET Int]
  BY DEF Inv, Typed, M
<1> HIDE DEF S
<1>7. /\ \A q \in Procs : st'[q] = IF q = p THEN Idle ELSE st[q]
      /\ \A j \in Files : lock'[j] = IF j = f THEN NoProc ELSE lock[j]
      /\ st' \in [Procs -> S] /\ lock' \in [Files -> Procs \cup {NoProc}]
  BY <1>4, <1>5, <1>6
<1>8. /\ \A j \in Files : size'[j] = IF j = f THEN 0 ELSE size[j]
      /\ size' \in [Files -> 0..M]
      /\ \A q \in Procs \ {p} : off'[q] = off[q] /\ logged'[q] = logged[q]
      /\ logged'[p] = {} /\ logged' \in [Procs -> SUBSET Int]
  BY <1>3, <1>4, <1>6
<1>9. Typed'
  BY <1>4, <1>7, <1>8 DEF Inv, Typed, M, S
<1>10. lock[f] = p
  BY <1>1, <1>2, ProcType
<1>11. /\ Locks'
       /\ \A j \in Files : j # f => lock[j] # p /\ Cut(j)' = Cut(j)
       /\ Cut(f)' = 0 /\ Cut(f) = t
       /\ \A q \in Procs \ {p} : st'[q] = st[q]
  <2>1. lock[f] \in {p, NoProc} /\ (st[p].pc \in Working => st[p].f = f)
    BY <1>2, <1>10
  <2> QED
    BY <1>1, <1>2, <1>5, <1>7, <2>1, LockStep
<1>12. \A k \in 0..MAXFILE : TruncBlock(f, k) = 0 /\ TruncBlock(f, k)' = 0
  <2> TAKE k \in 0..MAXFILE
  <2>1. addrs[f][NDIRECT] = 0 /\ (k < NDIRECT => addrs[f][k] = 0)
    <3>1. k < NDIRECT => k \in 0..(NDIRECT - 1) /\ k < t
      BY <1>2, Sizes
    <3> HIDE DEF Cut
    <3> QED
      BY <1>2, <1>11, <3>1 DEF Inv, Cleared
  <2>2. TruncBlock(f, k) = 0
    BY <2>1 DEF TruncBlock
  <2>3. addrs' = addrs
    BY <1>4
  <2> QED
    BY <2>1, <2>2, <2>3 DEF TruncBlock
<1>13. Names' = Names
  <2>1. \A j \in Files, k \in 0..MAXFILE : Name(j, k)' = Name(j, k)
    <3> TAKE j \in Files, k \in 0..MAXFILE
    <3>1. CASE j = f
      BY <1>12, <3>1 DEF Name
    <3>2. CASE j # f
      BY <1>4, <1>11, <3>2 DEF Name, TruncBlock
    <3> QED
      BY <3>1, <3>2
  <2> QED
    BY <2>1 DEF Names, Dom
<1>14. Owned(Names, bitmap)'
  BY <1>4, <1>13 DEF Inv
<1>15. FileFilled(f)'
  <2>1. \A bn \in 0..(MAXFILE - 1) : ~(bn * BSIZE < 0)
    <3> TAKE bn \in 0..(MAXFILE - 1)
    <3>1. bn * BSIZE \in Nat
      BY DataPlaces, Times
    <3> QED
      BY <3>1
  <2> QED
    BY <1>8, <2>1 DEF FileFilled, Reaches
<1>16. WriteFilled(p)' /\ LogsOf(p)'
  BY <1>5, <1>7, <1>8 DEF WriteFilled, LogsOf
<1>17. \A j \in Files : j # f =>
         /\ size'[j] = size[j] /\ addrs'[j] = addrs[j] /\ lock'[j] = lock[j] /\ Cut(j)' = Cut(j)
         /\ \A k \in 0..MAXFILE : Names'[<<j, k>>] = Names[<<j, k>>]
  BY <1>4, <1>7, <1>8, <1>11, <1>13
<1>18. /\ Cut(f)' <= MAXFILE + 1
       /\ \A k \in 0..(NDIRECT - 1) : ~(k < Cut(f)')
       /\ ~(Cut(f)' > MAXFILE)
  BY <1>11, Sizes
<1>19. panicked' # "freeing free block"
  BY <1>4 DEF Inv
<1>20. /\ \A j \in Files : j # f => lock[j] # p
       /\ \A q \in Procs \ {p} : st'[q] = st[q] /\ off'[q] = off[q] /\ logged'[q] = logged[q]
       /\ lock[f] \in {p, NoProc}
  BY <1>8, <1>10, <1>11
<1> HIDE DEF Cut, Names
<1> QED
  BY <1>9, <1>11, <1>14, <1>15, <1>16, <1>17, <1>18, <1>19, <1>20, FileStep

\* what a place names if the block of the indirect block is not the one that is written
LEMMA OtherName ==
  ASSUME Inv, NEW j \in Files, NEW k \in 0..MAXFILE, k >= Cut(j),
         addrs'[j][NDIRECT] = addrs[j][NDIRECT],
         k < NDIRECT => addrs'[j][k] = addrs[j][k],
         NDIRECT <= k /\ k < MAXFILE /\ addrs[j][NDIRECT] # 0 =>
           blk'[addrs[j][NDIRECT]][k - NDIRECT] = blk[addrs[j][NDIRECT]][k - NDIRECT]
  PROVE  TruncBlock(j, k)' = TruncBlock(j, k)
<1>1. CASE k < NDIRECT
  BY <1>1 DEF TruncBlock
<1>2. CASE ~(k < NDIRECT)
  BY <1>2, Sizes DEF TruncBlock
<1> QED
  BY <1>1, <1>2

\* one bfree() of itrunc(): the block has the place that itrunc() is at and no other
LEMMA TruncInv ==
  ASSUME Inv, NEW p \in Procs, itrunc(p)
  PROVE  Inv'
<1> DEFINE S == [pc : Working \cup {"user", "filewrite"}, f : Nat, n : Nat, n1 : Nat, tot : Nat]
<1>1. st[p].pc = "itrunc" /\ st[p].pc \in Working
  BY DEF itrunc, At, Working
<1>2. PICK f \in Files, k \in 0..MAXFILE : f = st[p].f /\ k = st[p].tot
  <2>1. st[p].f \in Files /\ st[p].tot \in Nat
    BY <1>1, ProcType
  <2>2. st[p].tot <= MAXFILE
    BY DEF itrunc, bfree_panics
  <2>3. st[p].tot \in 0..MAXFILE
    BY <2>1, <2>2, Sizes
  <2> QED
    BY <2>1, <2>3
<1>3. lock[f] = p /\ Cut(f) = k /\ k \in Nat
  <2>1. lock[f] = p
    BY <1>1, <1>2, ProcType
  <2> QED
    BY <1>1, <1>2, <2>1, Sizes DEF Cut
<1>4. PICK b \in 0..FSSIZE : b = TruncBlock(f, k) /\ Names[<<f, k>>] = b
  <2>1. Names[<<f, k>>] = TruncBlock(f, k) /\ <<f, k>> \in Dom
    <3>1. ~(k < k)
      BY <1>3
    <3> QED
      BY <1>3, <3>1, NameAt DEF Name
  <2>2. Names[<<f, k>>] \in 0..FSSIZE
    BY <2>1, NamesType
  <2> QED
    BY <2>1, <2>2
<1>5. b # 0 => b \in bitmap /\ b \in Blocks
  BY <1>4, NameAt, Sizes DEF Inv, Owned
<1>6. /\ bitmap' = bitmap \ {b}
      /\ addrs' = IF k < NDIRECT THEN [addrs EXCEPT ![f][k] = 0]
                  ELSE IF k = MAXFILE THEN [addrs EXCEPT ![f][NDIRECT] = 0]
                  ELSE addrs
      /\ logged' = [logged EXCEPT ![p] = @ \cup (IF b = 0 THEN {} ELSE {BBLOCK(b)})]
      /\ st' = [st EXCEPT ![p].tot = k + 1]
      /\ blk' = IF b = 0 THEN blk ELSE [blk EXCEPT ![b] = Junk]
      /\ UNCHANGED <<size, off, lock, unlogged, panicked>>
  BY <1>2, <1>4, <1>5 DEF itrunc, bfree_panics
<1> DEFINE s == [st[p] EXCEPT !.tot = k + 1]
<1>7. s \in S /\ s.pc = "itrunc" /\ s.f = f /\ s.tot = k + 1
  BY <1>1, <1>2, <1>3, ProcType
<1>8. /\ st \in [Procs -> S] /\ logged \in [Procs -> SUBSET Int]
      /\ addrs \in [Files -> [0..NDIRECT -> 0..FSSIZE]] /\ blk \in [Blocks -> [Units -> Int]]
  BY DEF Inv, Typed
<1>9. st' = [st EXCEPT ![p] = s]
  BY <1>6, <1>8
<1> HIDE DEF s, S
<1>10. /\ \A q \in Procs : st'[q] = IF q = p THEN s ELSE st[q]
       /\ \A j \in Files : lock'[j] = IF j = f THEN p ELSE lock[j]
       /\ st' \in [Procs -> S]
  BY <1>3, <1>6, <1>7, <1>8, <1>9
<1>11. b # 0 => BBLOCK(b) \in Int /\ BBLOCK(b) \in Bitmaps
  BY <1>5, Sizes DEF BBLOCK, Bitmaps
<1>12. /\ \A q \in Procs \ {p} : logged'[q] = logged[q]
       /\ logged'[p] \subseteq logged[p] \cup Bitmaps
       /\ logged' \in [Procs -> SUBSET Int]
  BY <1>6, <1>8, <1>11
<1>13. /\ \A j \in Files : j # f => addrs'[j] = addrs[j]
       /\ k < NDIRECT => addrs'[f][k] = 0
       /\ k = MAXFILE => addrs'[f][NDIRECT] = 0
       /\ \A m \in 0..NDIRECT : (m = k => ~(k < NDIRECT)) /\ (m = NDIRECT => k # MAXFILE)
                                => addrs'[f][m] = addrs[f][m]
       /\ addrs' \in [Files -> [0..NDIRECT -> 0..FSSIZE]]
  <2>1. CASE k < NDIRECT
    <3>1. k # MAXFILE /\ k \in 0..NDIRECT /\ 0 \in 0..FSSIZE
      BY <1>3, <2>1, Sizes
    <3>2. addrs' = [addrs EXCEPT ![f][k] = 0]
      BY <1>6, <2>1
    <3>3. /\ \A j \in Files : j # f => addrs'[j] = addrs[j]
          /\ addrs'[f] = [addrs[f] EXCEPT ![k] = 0]
          /\ DOMAIN addrs' = Files /\ addrs' = [j \in Files |-> addrs'[j]]
      BY <1>8, <3>2
    <3>4. \A m \in 0..NDIRECT : addrs'[f][m] = IF m = k THEN 0 ELSE addrs[f][m]
      BY <1>8, <3>1, <3>3
    <3>5. addrs'[f] \in [0..NDIRECT -> 0..FSSIZE]
      BY <1>8, <3>1, <3>3
    <3>6. addrs' \in [Files -> [0..NDIRECT -> 0..FSSIZE]]
      BY <1>8, <3>3, <3>5
    <3> QED
      BY <2>1, <3>1, <3>3, <3>4, <3>6
  <2>2. CASE ~(k < NDIRECT) /\ k = MAXFILE
    <3>1. NDIRECT \in 0..NDIRECT /\ 0 \in 0..FSSIZE
      BY Sizes
    <3>2. addrs' = [addrs EXCEPT ![f][NDIRECT] = 0]
      BY <1>6, <2>2
    <3> QED
      BY <1>8, <2>2, <3>1, <3>2
  <2>3. CASE ~(k < NDIRECT) /\ k # MAXFILE
    BY <1>6, <1>8, <2>3
  <2> QED
    BY <2>1, <2>2, <2>3
<1>14. blk' \in [Blocks -> [Units -> Int]] /\ \A c \in Blocks : c # b => blk'[c] = blk[c]
  <2>1. Junk \in [Units -> Int]
    BY DEF Junk
  <2> QED
    BY <1>5, <1>6, <1>8, <2>1
<1>15. Typed'
  BY <1>6, <1>10, <1>12, <1>13, <1>14 DEF Inv, Typed, S
<1>16. /\ Locks'
       /\ \A j \in Files : j # f => lock[j] # p /\ Cut(j)' = Cut(j)
       /\ Cut(f)' = k + 1
       /\ \A q \in Procs \ {p} : st'[q] = st[q]
  <2>1. lock[f] \in {p, NoProc} /\ (st[p].pc \in Working => st[p].f = f)
    BY <1>2, <1>3
  <2>2. s.pc \in Working
    BY <1>7 DEF Working
  <2> QED
    BY <1>7, <1>10, <2>1, <2>2, LockStep
<1>17. ASSUME NEW j \in Files, NEW m \in 0..MAXFILE, <<j, m>> # <<f, k>>
       PROVE  Names'[<<j, m>>] = Names[<<j, m>>]
  <2> DEFINE d == addrs[j][NDIRECT]
  <2>1. <<j, m>> \in Dom /\ Names[<<j, m>>] = Name(j, m) /\ Names'[<<j, m>>] = Name(j, m)'
    BY DEF Dom, Names
  <2>2. m \in Nat /\ Cut(j) \in Nat /\ Cut(j)' = IF j = f THEN k + 1 ELSE Cut(j)
    BY <1>3, <1>16, ProcType, Holder, Sizes DEF Cut
  <2>3. CASE m < Cut(j)
    <3>1. m < Cut(j)'
      BY <1>3, <2>2, <2>3
    <3> QED
      BY <2>1, <2>3, <3>1 DEF Name
  <2>4. CASE ~(m < Cut(j))
    <3>1. ~(m < Cut(j)') /\ m >= Cut(j)
      BY <1>3, <1>17, <2>2, <2>4
    <3>2. j = f => m # k /\ k < MAXFILE
      BY <1>3, <1>17, <2>2, <2>4, Sizes
    <3>3. addrs'[j][NDIRECT] = addrs[j][NDIRECT] /\ (m < NDIRECT => addrs'[j][m] = addrs[j][m])
      <4>1. NDIRECT \in 0..NDIRECT /\ (m < NDIRECT => m \in 0..NDIRECT) /\ (k < NDIRECT => k # NDIRECT)
        BY <1>3, <2>2, Sizes
      <4>2. CASE j # f
        BY <1>13, <4>2
      <4>3. CASE j = f
        <5>1. m # k /\ k # MAXFILE
          BY <1>3, <3>2, <4>3, Sizes
        <5>2. addrs'[f][NDIRECT] = addrs[f][NDIRECT]
          BY <1>13, <4>1, <5>1
        <5>3. m < NDIRECT => addrs'[f][m] = addrs[f][m]
          BY <1>13, <4>1, <5>1
        <5> QED
          BY <4>3, <5>2, <5>3
      <4> QED
        BY <4>2, <4>3
    <3>4. ASSUME d # 0 PROVE d \in Blocks /\ (m < MAXFILE => d # b)
      <4>1. d \in Blocks
        BY <1>8, <3>4, Sizes
      <4>2. ASSUME m < MAXFILE PROVE d # b
        <5>1. ~(MAXFILE < Cut(j)) /\ ~(MAXFILE < NDIRECT) /\ ~(MAXFILE < MAXFILE)
          BY <2>2, <2>4, <4>2, Sizes
        <5>2. Names[<<j, MAXFILE>>] = d /\ <<j, MAXFILE>> \in Dom /\ <<f, k>> \in Dom
          BY <3>4, <5>1, NameAt, DataPlaces DEF Name, TruncBlock
        <5>3. <<j, MAXFILE>> # <<f, k>>
          BY <3>2
        <5> HIDE DEF d, Names
        <5> QED
          BY <1>4, <3>4, <5>2, <5>3 DEF Inv, Owned
      <4> QED
        BY <4>1, <4>2
    <3>5. TruncBlock(j, m)' = TruncBlock(j, m)
      BY <1>14, <3>1, <3>3, <3>4, OtherName
    <3> QED
      BY <2>1, <2>4, <3>1, <3>5 DEF Name
  <2> QED
    BY <2>3, <2>4
<1>18. Names'[<<f, k>>] = 0
  <2>1. k < k + 1
    BY <1>3
  <2> QED
    BY <1>16, <2>1 DEF Names, Dom, Name
<1>19. Names' = [Names EXCEPT ![<<f, k>>] = 0]
  <2>1. \A h \in Dom : Names'[h] = IF h = <<f, k>> THEN 0 ELSE Names[h]
    <3> TAKE h \in Dom
    <3>1. PICK j \in Files, m \in 0..MAXFILE : h = <<j, m>>
      BY DEF Dom
    <3> HIDE DEF Names
    <3> QED
      BY <1>17, <1>18, <3>1
  <2>2. Names = [h \in Dom |-> Names[h]] /\ Names' = [h \in Dom |-> Names'[h]]
    BY DEF Names, Dom
  <2> HIDE DEF Names, Dom
  <2> QED
    BY <2>1, <2>2
<1>20. Owned(Names, bitmap)'
  <2>1. Owned(Names, bitmap) /\ bitmap \in SUBSET Blocks /\ Names \in [Dom -> 0..FSSIZE]
    BY NamesType DEF Inv, Typed
  <2>2. <<f, k>> \in Dom
    BY NameAt
  <2>3. Owned([Names EXCEPT ![<<f, k>>] = 0], bitmap \ {Names[<<f, k>>]})
    BY <2>1, <2>2, FreePlace
  <2> QED
    BY <1>4, <1>6, <1>19, <2>3 DEF Owned, Dom
<1>21. FileFilled(f)' /\ WriteFilled(p)' /\ LogsOf(p)'
  <2>1. st'[p].pc = "itrunc" /\ lock'[f] = p /\ p # NoProc
    BY <1>7, <1>10, Sizes
  <2>2. logged'[p] \subseteq Bitmaps /\ Bitmaps' = Bitmaps
    BY <1>1, <1>12 DEF Inv, Logs, LogsOf, Bitmaps, BBLOCK
  <2>3. FileFilled(f)'
    BY <2>1 DEF FileFilled
  <2>4. WriteFilled(p)'
    BY <2>1 DEF WriteFilled, Writing
  <2>5. LogsOf(p)'
    BY <2>1, <2>2 DEF LogsOf, Writing, Working
  <2> QED
    BY <2>3, <2>4, <2>5
<1>22. \A j \in Files : j # f =>
         /\ size'[j] = size[j] /\ addrs'[j] = addrs[j] /\ lock'[j] = lock[j] /\ Cut(j)' = Cut(j)
         /\ \A m \in 0..MAXFILE : Names'[<<j, m>>] = Names[<<j, m>>]
  <2> HIDE DEF Names
  <2> QED
    BY <1>6, <1>10, <1>13, <1>16, <1>17
<1>23. /\ Cut(f)' <= MAXFILE + 1
       /\ \A m \in 0..(NDIRECT - 1) : m < Cut(f)' => addrs'[f][m] = 0
       /\ Cut(f)' > MAXFILE => addrs'[f][NDIRECT] = 0
  <2>1. Cut(f)' <= MAXFILE + 1
    BY <1>16, Sizes
  <2>2. ASSUME NEW m \in 0..(NDIRECT - 1), m < k + 1 PROVE addrs'[f][m] = 0
    <3>1. m \in 0..NDIRECT /\ m < NDIRECT /\ (m < k \/ m = k)
      BY <1>3, <2>2, Sizes
    <3>2. m < k => addrs[f][m] = 0
      BY <1>3, <2>2 DEF Inv, Cleared
    <3>3. CASE m = k
      BY <1>13, <3>1, <3>3
    <3>4. CASE m # k
      <4>1. addrs[f][m] = 0
        BY <3>1, <3>2, <3>4
      <4> QED
        BY <1>13, <3>1, <4>1
    <3> QED
      BY <3>3, <3>4
  <2>3. ASSUME k + 1 > MAXFILE PROVE addrs'[f][NDIRECT] = 0
    <3>1. NDIRECT \in 0..NDIRECT /\ k = MAXFILE
      BY <1>3, <2>3, Sizes
    <3> QED
      BY <1>13, <3>1
  <2> QED
    BY <1>16, <2>1, <2>2, <2>3
<1>24. panicked' # "freeing free block"
  BY <1>6 DEF Inv
<1>25. /\ \A j \in Files : j # f => lock[j] # p
       /\ \A q \in Procs \ {p} : st'[q] = st[q] /\ off'[q] = off[q] /\ logged'[q] = logged[q]
       /\ lock[f] \in {p, NoProc}
  BY <1>3, <1>6, <1>12, <1>16
<1> HIDE DEF Cut, Names
<1> QED
  BY <1>15, <1>16, <1>20, <1>21, <1>22, <1>23, <1>24, <1>25, FileStep

\* of an inode that is not truncated, the names are those of bmap()
LEMMA NameIsLookup ==
  ASSUME Inv, NEW i \in Files, Cut(i) = 0
  PROVE  /\ \A bn \in 0..(MAXFILE - 1) : Names[<<i, bn>>] = Lookup(i, bn)
         /\ Names[<<i, MAXFILE>>] = addrs[i][NDIRECT]
<1>1. \A k \in 0..MAXFILE : Names[<<i, k>>] = TruncBlock(i, k)
  <2> TAKE k \in 0..MAXFILE
  <2>1. ~(k < 0)
    BY Sizes
  <2> QED
    BY <2>1, NameAt DEF Name
<1>2. ~(MAXFILE < NDIRECT) /\ ~(MAXFILE < MAXFILE)
  BY Sizes
<1>3. TruncBlock(i, MAXFILE) = addrs[i][NDIRECT]
  BY <1>2 DEF TruncBlock
<1>4. \A bn \in 0..(MAXFILE - 1) : bn < MAXFILE
  BY Sizes
<1>5. \A bn \in 0..(MAXFILE - 1) : TruncBlock(i, bn) = Lookup(i, bn)
  BY <1>4 DEF TruncBlock, Lookup
<1> QED
  BY <1>1, <1>3, <1>5, DataPlaces

\* what balloc() may do for block bn of inode i: nothing, allocate the block, or the
\* indirect block too
Given(i, bn, addr, ind, new) ==
  LET a == Names[<<i, bn>>]
      d == Names[<<i, MAXFILE>>]
  IN  \/ new = {} /\ addr = a /\ ind = d /\ a # 0
      \/ new = {addr} /\ a = 0 /\ ind = d
      \/ new = {addr, ind} /\ addr # ind /\ a = 0 /\ d = 0

\* what bmap(i, bn) returns and writes then
Bmaps(i, bn, addr, ind, new) ==
  LET b == bmap(i, bn)
      d == addrs[i][NDIRECT]
  IN  /\ Given(i, bn, addr, ind, new) /\ (bn >= NDIRECT => ind # 0)
      /\ b.addr = addr /\ b.bitmap = bitmap \cup new
      /\ b.addrs = [addrs EXCEPT ![i] = [k \in 0..NDIRECT |->
           IF k = NDIRECT THEN ind ELSE IF k = bn THEN addr ELSE addrs[i][k]]]
      /\ b.blk \in [Blocks -> [Units -> Int]]
      /\ \A c \in Blocks \ new : c # ind => b.blk[c] = blk[c]
      /\ ind # 0 => \A u \in Units :
           b.blk[ind][u] = IF bn >= NDIRECT /\ u = bn - NDIRECT THEN addr
                           ELSE IF d = 0 THEN 0 ELSE blk[ind][u]
      /\ addr \in new => \A u \in Units : b.blk[addr][u] = 0
      /\ b.logs \subseteq new \cup {BBLOCK(c) : c \in new}
                      \cup (IF bn >= NDIRECT THEN {ind} ELSE {})

\* bmap() allocates as Given says, and writes the indirect block only
LEMMA BmapIs ==
  ASSUME Inv, NEW i \in Files, NEW bn \in 0..(MAXFILE - 1), Cut(i) = 0, ~bmap(i, bn).panics
  PROVE  \E addr \in Blocks, ind \in 0..FSSIZE, new \in SUBSET (Blocks \ bitmap) :
           Bmaps(i, bn, addr, ind, new)
<1> DEFINE b == bmap(i, bn)
           d == addrs[i][NDIRECT]
           L == Lookup(i, bn)
           newind == bn >= NDIRECT /\ d = 0
           ind == IF newind THEN First(FreeBlocks) ELSE d
           newblk == L = 0
           used == IF newind THEN {ind} ELSE {}
           full == newblk /\ FreeBlocks \ used = {}
           addr == IF newblk /\ ~full THEN First(FreeBlocks \ used) ELSE L
           new == used \cup (IF newblk THEN {addr} ELSE {})
           zero == [c \in Blocks |-> IF c \in new THEN Zeroes ELSE blk[c]]
<1>1. /\ b.panics = ((newind /\ FreeBlocks = {}) \/ full)
      /\ b.addr = addr /\ b.bitmap = bitmap \cup new
      /\ b.addrs = IF bn < NDIRECT THEN [addrs EXCEPT ![i][bn] = addr]
                                   ELSE [addrs EXCEPT ![i][NDIRECT] = ind]
      /\ b.blk = IF newblk /\ bn >= NDIRECT THEN [zero EXCEPT ![ind][bn - NDIRECT] = addr] ELSE zero
      /\ b.logs = new \cup {BBLOCK(c) : c \in new}
                      \cup (IF newblk /\ bn >= NDIRECT THEN {ind} ELSE {})
  BY DEF bmap, bzero
<1>2. ~(newind /\ FreeBlocks = {}) /\ ~full
  BY <1>1
<1>3. /\ addrs \in [Files -> [0..NDIRECT -> 0..FSSIZE]] /\ blk \in [Blocks -> [Units -> Int]]
      /\ bitmap \subseteq Blocks /\ addrs[i] \in [0..NDIRECT -> 0..FSSIZE] /\ d \in 0..FSSIZE
  <2>1. /\ addrs \in [Files -> [0..NDIRECT -> 0..FSSIZE]] /\ blk \in [Blocks -> [Units -> Int]]
        /\ bitmap \subseteq Blocks
    BY DEF Inv, Typed
  <2>2. NDIRECT \in 0..NDIRECT
    BY Sizes
  <2> QED
    BY <2>1, <2>2
<1>4. L = Names[<<i, bn>>] /\ d = Names[<<i, MAXFILE>>] /\ <<i, bn>> \in Dom /\ <<i, MAXFILE>> \in Dom
  BY NameIsLookup, NameAt, DataPlaces
<1>5. (L # 0 => L \in bitmap) /\ (d # 0 => d \in bitmap)
  BY <1>4 DEF Inv, Owned
<1>6. newind => newblk
  <2>1. bn >= NDIRECT => ~(bn < NDIRECT)
    BY Sizes
  <2> QED
    BY <2>1 DEF Lookup
<1>7. FreeBlocks = Blocks \ bitmap /\ FreeBlocks \in SUBSET Nat
  BY Sizes DEF FreeBlocks
<1>8. newind => ind \in Blocks \ bitmap
  BY <1>2, <1>7, FirstIs
<1>9. ~newind => ind = d /\ used = {}
  OBVIOUS
<1>10. newblk => addr \in (Blocks \ bitmap) \ used
  <2>1. FreeBlocks \ used \in SUBSET Nat
    BY <1>7
  <2> QED
    BY <1>2, <1>7, <2>1, FirstIs
<1>11. ~newblk => addr = L /\ used = {} /\ new = {}
  BY <1>6
<1> HIDE DEF L, d, addr, ind
<1>12. addr \in Blocks /\ ind \in 0..FSSIZE /\ new \in SUBSET (Blocks \ bitmap)
  BY <1>3, <1>5, <1>8, <1>9, <1>10, <1>11, Sizes
<1>13. Given(i, bn, addr, ind, new)
  <2>1. CASE ~newblk
    BY <1>4, <1>6, <1>9, <1>11, <2>1 DEF Given
  <2>2. CASE newblk /\ ~newind
    <3>1. new = {addr} /\ ind = d /\ L = 0
      BY <1>9, <2>2
    <3> QED
      BY <1>4, <3>1 DEF Given
  <2>3. CASE newind
    <3>1. new = {addr, ind} /\ addr # ind /\ L = 0 /\ d = 0
      BY <1>6, <1>10, <2>3
    <3> QED
      BY <1>4, <3>1 DEF Given
  <2> QED
    BY <2>1, <2>2, <2>3
<1>14. bn >= NDIRECT => ind # 0
  BY <1>8, <1>9, Sizes
<1>15. b.addrs = [addrs EXCEPT ![i] = [k \in 0..NDIRECT |->
         IF k = NDIRECT THEN ind ELSE IF k = bn THEN addr ELSE addrs[i][k]]]
  <2> DEFINE A == [k \in 0..NDIRECT |->
                     IF k = NDIRECT THEN ind ELSE IF k = bn THEN addr ELSE addrs[i][k]]
  <2>1. CASE bn < NDIRECT
    <3>1. ~(bn >= NDIRECT) /\ bn \in 0..NDIRECT /\ bn # NDIRECT
      BY <2>1, Sizes
    <3>2. ind = d
      BY <1>9, <3>1
    <3>3. A = [addrs[i] EXCEPT ![bn] = addr]
      BY <1>3, <3>1, <3>2 DEF d
    <3>4. b.addrs = [addrs EXCEPT ![i] = [addrs[i] EXCEPT ![bn] = addr]]
      BY <1>1, <2>1
    <3> QED
      BY <3>3, <3>4
  <2>2. CASE ~(bn < NDIRECT)
    <3>1. A = [addrs[i] EXCEPT ![NDIRECT] = ind]
      <4>1. NDIRECT \in 0..NDIRECT /\ \A k \in 0..NDIRECT : k # NDIRECT => k # bn
        BY <2>2, Sizes
      <4> QED
        BY <1>3, <4>1
    <3>2. b.addrs = [addrs EXCEPT ![i] = [addrs[i] EXCEPT ![NDIRECT] = ind]]
      BY <1>1, <2>2
    <3> QED
      BY <3>1, <3>2
  <2> QED
    BY <2>1, <2>2
<1>16. zero \in [Blocks -> [Units -> Int]] /\ \A c \in Blocks : zero[c] = IF c \in new THEN Zeroes ELSE blk[c]
  <2>1. Zeroes \in [Units -> Int]
    BY DEF Zeroes
  <2> QED
    BY <1>3, <2>1
<1>17. addr \in Int /\ (ind # 0 => ind \in Blocks) /\ (bn >= NDIRECT => bn - NDIRECT \in Units)
  BY <1>12, Sizes DEF Units
<1> HIDE DEF new, zero, newind, newblk, b
<1>18. b.blk \in [Blocks -> [Units -> Int]]
  <2>1. CASE newblk /\ bn >= NDIRECT
    BY <1>1, <1>14, <1>16, <1>17, <2>1
  <2>2. CASE ~(newblk /\ bn >= NDIRECT)
    BY <1>1, <1>16, <2>2
  <2> QED
    BY <2>1, <2>2
<1>19. \A c \in Blocks \ new : c # ind => b.blk[c] = blk[c]
  BY <1>1, <1>16
<1>20. ASSUME ind # 0, NEW u \in Units
       PROVE  b.blk[ind][u] = IF bn >= NDIRECT /\ u = bn - NDIRECT THEN addr
                              ELSE IF d = 0 THEN 0 ELSE blk[ind][u]
  <2>1. ind \in Blocks
    BY <1>17, <1>20
  <2>2. IF d = 0 THEN ind \in new ELSE ind \notin new /\ ind = d
    <3>1. CASE d = 0
      <4>1. newind
        BY <1>9, <1>20, <3>1
      <4> QED
        BY <3>1, <4>1 DEF new, newind
    <3>2. CASE d # 0
      <4>1. ind = d /\ ind \in bitmap
        BY <1>5, <1>9, <3>2 DEF newind
      <4> QED
        BY <1>12, <3>2, <4>1
    <3> QED
      BY <3>1, <3>2
  <2>3. zero[ind][u] = IF d = 0 THEN 0 ELSE blk[ind][u]
    BY <1>16, <2>1, <2>2 DEF Zeroes
  <2>4. CASE newblk /\ bn >= NDIRECT
    <3>1. b.blk[ind] = [zero[ind] EXCEPT ![bn - NDIRECT] = addr]
      BY <1>1, <1>16, <2>1, <2>4
    <3>2. DOMAIN zero[ind] = Units
      BY <1>16, <2>1
    <3> QED
      BY <2>3, <2>4, <3>1, <3>2
  <2>5. CASE ~newblk /\ bn >= NDIRECT
    <3>1. b.blk = zero /\ addr = L /\ L # 0
      BY <1>1, <1>11, <2>5 DEF newblk
    <3>2. d # 0 /\ L = blk[d][bn - NDIRECT]
      BY <2>5, <3>1, Sizes DEF L, Lookup, d
    <3> QED
      BY <2>2, <2>3, <2>5, <3>1, <3>2
  <2>6. CASE ~(bn >= NDIRECT)
    BY <1>1, <2>3, <2>6
  <2> QED
    BY <2>4, <2>5, <2>6
<1>21. b.logs \subseteq new \cup {BBLOCK(c) : c \in new} \cup (IF bn >= NDIRECT THEN {ind} ELSE {})
  BY <1>1
<1>22. b.addr = addr /\ b.bitmap = bitmap \cup new
  BY <1>1
<1>23. ASSUME addr \in new, NEW u \in Units PROVE b.blk[addr][u] = 0
  <2>1. addr # ind /\ addr \in Blocks
    <3>1. newblk => addr \notin used
      BY <1>10
    <3>2. newblk
      BY <1>11, <1>23 DEF new
    <3>3. ~newind => ind \in bitmap \cup {0}
      BY <1>5, <1>9
    <3>4. addr \in Blocks \ bitmap /\ addr # 0
      BY <1>12, <1>23, Sizes
    <3> QED
      BY <3>1, <3>2, <3>3, <3>4 DEF newind
  <2>2. zero[addr] = Zeroes
    BY <1>16, <1>23, <2>1
  <2>3. b.blk[addr] = Zeroes
    BY <1>1, <1>16, <2>1, <2>2
  <2> QED
    BY <2>3 DEF Zeroes
<1>24. Bmaps(i, bn, addr, ind, new)
  BY <1>13, <1>14, <1>15, <1>18, <1>19, <1>20, <1>21, <1>22, <1>23 DEF Bmaps, b, d
<1> QED
  BY <1>12, <1>24

\* the names after a block was mapped
Mapped(i, bn, addr, ind) == [Names EXCEPT ![<<i, MAXFILE>>] = ind, ![<<i, bn>>] = addr]

\* what Mapped() says at each place
LEMMA MappedAt ==
  ASSUME NEW i \in Files, NEW bn \in 0..(MAXFILE - 1), NEW addr, NEW ind
  PROVE  /\ Mapped(i, bn, addr, ind) = [h \in Dom |-> Mapped(i, bn, addr, ind)[h]]
         /\ Mapped(i, bn, addr, ind)[<<i, bn>>] = addr
         /\ Mapped(i, bn, addr, ind)[<<i, MAXFILE>>] = ind
         /\ \A h \in Dom : h # <<i, bn>> /\ h # <<i, MAXFILE>> =>
              Mapped(i, bn, addr, ind)[h] = Names[h]
         /\ <<i, bn>> \in Dom /\ <<i, MAXFILE>> \in Dom /\ <<i, bn>> # <<i, MAXFILE>>
<1>1. Names = [h \in Dom |-> Names[h]]
  BY DEF Names
<1>2. <<i, bn>> \in Dom /\ <<i, MAXFILE>> \in Dom
  BY NameAt, DataPlaces
<1>3. <<i, bn>> # <<i, MAXFILE>>
  BY Sizes
<1> HIDE DEF Names, Dom
<1> QED
  BY <1>1, <1>2, <1>3 DEF Mapped

\* it is owned
LEMMA MappedOwned ==
  ASSUME Inv, NEW i \in Files, NEW bn \in 0..(MAXFILE - 1), NEW addr \in Blocks,
         NEW ind \in 0..FSSIZE, NEW new \in SUBSET (Blocks \ bitmap),
         Given(i, bn, addr, ind, new)
  PROVE  Owned(Mapped(i, bn, addr, ind), bitmap \cup new)
<1> DEFINE h == <<i, bn>>
           g == <<i, MAXFILE>>
           m == [Names EXCEPT ![g] = ind]
<1>1. Names \in [Dom -> 0..FSSIZE] /\ bitmap \in SUBSET Blocks /\ Owned(Names, bitmap)
  BY NamesType DEF Inv, Typed
<1>2. h \in Dom /\ g \in Dom /\ h # g
  BY MappedAt
<1>3. Mapped(i, bn, addr, ind) = [m EXCEPT ![h] = addr]
  BY DEF Mapped
<1> HIDE DEF h, g, Names, Dom
<1>4. CASE new = {} /\ addr = Names[h] /\ ind = Names[g]
  <2>1. m = Names
    BY <1>1, <1>2, <1>4
  <2>2. [m EXCEPT ![h] = addr] = Names
    BY <1>1, <1>2, <1>4, <2>1
  <2>3. bitmap \cup new = bitmap
    BY <1>4
  <2> HIDE DEF m
  <2> QED
    BY <1>1, <1>3, <2>2, <2>3
<1>5. CASE new = {addr} /\ Names[h] = 0 /\ ind = Names[g]
  <2>1. m = Names
    BY <1>1, <1>2, <1>5
  <2>2. Owned([Names EXCEPT ![h] = addr], bitmap \cup {addr})
    BY <1>1, <1>2, <1>5, AllocPlace
  <2> HIDE DEF m
  <2> QED
    BY <1>3, <1>5, <2>1, <2>2
<1>6. CASE new = {addr, ind} /\ addr # ind /\ Names[h] = 0 /\ Names[g] = 0
  <2>1. ind \in Blocks \ bitmap /\ addr \in Blocks \ bitmap
    BY <1>6
  <2>2. Owned(m, bitmap \cup {ind})
    BY <1>1, <1>2, <1>6, <2>1, AllocPlace
  <2>3. m \in [Dom -> 0..FSSIZE] /\ m[h] = 0
    BY <1>1, <1>2, <1>6
  <2>4. bitmap \cup {ind} \in SUBSET Blocks /\ addr \in Blocks \ (bitmap \cup {ind})
    BY <1>1, <1>6, <2>1
  <2> HIDE DEF m
  <2>5. Owned([m EXCEPT ![h] = addr], (bitmap \cup {ind}) \cup {addr})
    BY <1>2, <2>2, <2>3, <2>4, AllocPlace
  <2>6. (bitmap \cup {ind}) \cup {addr} = bitmap \cup new
    BY <1>6
  <2> QED
    BY <1>3, <2>5, <2>6
<1> QED
  BY <1>4, <1>5, <1>6 DEF Given, h, g

\* the names grow
LEMMA MappedGrows ==
  ASSUME Inv, NEW i \in Files, NEW bn \in 0..(MAXFILE - 1), NEW addr \in Blocks,
         NEW ind \in 0..FSSIZE, NEW new \in SUBSET (Blocks \ bitmap),
         Given(i, bn, addr, ind, new), NEW h \in Dom, Names[h] # 0
  PROVE  Mapped(i, bn, addr, ind)[h] = Names[h]
<1> HIDE DEF Names
<1>1. /\ h = <<i, bn>> => addr = Names[h]
      /\ h = <<i, MAXFILE>> => ind = Names[h]
  BY DEF Given
<1> DEFINE m == Mapped(i, bn, addr, ind)
<1>2. /\ m[<<i, bn>>] = addr /\ m[<<i, MAXFILE>>] = ind
      /\ h # <<i, bn>> /\ h # <<i, MAXFILE>> => m[h] = Names[h]
  BY MappedAt
<1> HIDE DEF m
<1> QED
  BY <1>1, <1>2 DEF m

\* bmap() and the copy make the places name what Mapped() says
LEMMA WriteNames ==
  ASSUME Inv, NEW i \in Files, NEW bn \in 0..(MAXFILE - 1), Cut(i) = 0,
         NEW addr \in Blocks, NEW ind \in 0..FSSIZE, NEW new \in SUBSET (Blocks \ bitmap),
         Bmaps(i, bn, addr, ind, new), addrs' = bmap(i, bn).addrs,
         \A c \in Blocks : c # addr => blk'[c] = bmap(i, bn).blk[c],
         \A j \in Files : Cut(j)' = Cut(j)
  PROVE  Names' = Mapped(i, bn, addr, ind)
<1> DEFINE b == bmap(i, bn)
           d(j) == addrs[j][NDIRECT]
           mp == Mapped(i, bn, addr, ind)
<1>1. /\ Given(i, bn, addr, ind, new) /\ (bn >= NDIRECT => ind # 0)
      /\ b.addrs = [addrs EXCEPT ![i] = [k \in 0..NDIRECT |->
           IF k = NDIRECT THEN ind ELSE IF k = bn THEN addr ELSE addrs[i][k]]]
      /\ \A c \in Blocks \ new : c # ind => b.blk[c] = blk[c]
      /\ ind # 0 => \A u \in Units :
           b.blk[ind][u] = IF bn >= NDIRECT /\ u = bn - NDIRECT THEN addr
                           ELSE IF addrs[i][NDIRECT] = 0 THEN 0 ELSE blk[ind][u]
  BY DEF Bmaps
<1>2. addrs \in [Files -> [0..NDIRECT -> 0..FSSIZE]]
  BY DEF Inv, Typed
<1>3. /\ \A j \in Files : j # i => addrs'[j] = addrs[j]
      /\ addrs'[i] = [k \in 0..NDIRECT |->
           IF k = NDIRECT THEN ind ELSE IF k = bn THEN addr ELSE addrs[i][k]]
  BY <1>1, <1>2
<1>4. Owned(mp, bitmap \cup new)
  BY <1>1, MappedOwned
<1>5. /\ mp[<<i, bn>>] = addr /\ mp[<<i, MAXFILE>>] = ind
      /\ <<i, bn>> \in Dom /\ <<i, MAXFILE>> \in Dom /\ <<i, bn>> # <<i, MAXFILE>>
      /\ \A h \in Dom : h # <<i, bn>> /\ h # <<i, MAXFILE>> => mp[h] = Names[h]
  BY MappedAt
<1>6. addr # ind
  <2> HIDE DEF mp
  <2> QED
    BY <1>4, <1>5, Sizes DEF Owned
<1> HIDE DEF b
<1>7. ASSUME NEW j \in Files, j # i, NEW k \in 0..MAXFILE
      PROVE  Name(j, k)' = Names[<<j, k>>]
  <2>1. <<j, k>> \in Dom /\ Names[<<j, k>>] = Name(j, k) /\ Cut(j)' = Cut(j)
    BY NameAt
  <2>2. CASE k < Cut(j)
    BY <2>1, <2>2 DEF Name
  <2>3. CASE ~(k < Cut(j))
    <3>1. k \in Nat /\ Cut(j) \in Nat /\ k >= Cut(j)
      BY <2>3, ProcType, Holder, Sizes DEF Cut
    <3>2. ASSUME d(j) # 0, k < MAXFILE PROVE blk'[d(j)] = blk[d(j)]
      <4>1. ~(MAXFILE < Cut(j)) /\ ~(MAXFILE < NDIRECT) /\ ~(MAXFILE < MAXFILE)
        BY <3>1, <3>2, Sizes
      <4>2. Names[<<j, MAXFILE>>] = d(j) /\ <<j, MAXFILE>> \in Dom
        BY <3>2, <4>1, NameAt, DataPlaces DEF Name, TruncBlock
      <4>3. mp[<<j, MAXFILE>>] = d(j) /\ <<j, MAXFILE>> # <<i, MAXFILE>> /\ <<j, MAXFILE>> # <<i, bn>>
        BY <1>5, <1>7, <4>2
      <4>4. d(j) \in bitmap /\ bitmap \subseteq Blocks
        BY <3>2, <4>2 DEF Inv, Owned, Typed
      <4>5. d(j) # addr /\ d(j) # ind /\ d(j) \in Blocks \ new
        <5> HIDE DEF mp, d
        <5> QED
          BY <1>4, <1>5, <3>2, <4>2, <4>3, <4>4 DEF Owned
      <4> QED
        BY <1>1, <4>5 DEF b
    <3>3. addrs'[j] = addrs[j]
      BY <1>3, <1>7
    <3>4. TruncBlock(j, k)' = TruncBlock(j, k)
      BY <3>1, <3>2, <3>3, OtherName
    <3> QED
      BY <2>1, <2>3, <3>4 DEF Name
  <2> QED
    BY <2>2, <2>3
<1>8. ASSUME NEW k \in 0..MAXFILE PROVE Name(i, k)' = mp[<<i, k>>]
  <2>1. Name(i, k)' = TruncBlock(i, k)' /\ k \in Nat
    <3>1. k \in Nat /\ ~(k < 0)
      BY Sizes
    <3> QED
      BY <3>1 DEF Name
  <2>2. <<i, k>> \in Dom /\ (k # bn /\ k # MAXFILE => mp[<<i, k>>] = TruncBlock(i, k))
    <3>1. <<i, k>> \in Dom /\ Names[<<i, k>>] = TruncBlock(i, k)
      <4>1. ~(k < 0)
        BY <2>1
      <4> QED
        BY <4>1, NameAt DEF Name
    <3> HIDE DEF mp
    <3> QED
      BY <1>5, <3>1
  <2>3. NDIRECT \in 0..NDIRECT /\ addrs'[i][NDIRECT] = ind
    BY <1>3, Sizes
  <2>4. CASE k < NDIRECT
    <3>1. k \in 0..NDIRECT /\ k # NDIRECT /\ k # MAXFILE
      BY <2>1, <2>4, Sizes
    <3>2. addrs'[i][k] = IF k = bn THEN addr ELSE addrs[i][k]
      BY <1>3, <3>1
    <3>3. TruncBlock(i, k)' = addrs'[i][k] /\ TruncBlock(i, k) = addrs[i][k]
      BY <2>4 DEF TruncBlock
    <3> HIDE DEF mp
    <3> QED
      BY <1>5, <2>1, <2>2, <3>1, <3>2, <3>3
  <2>5. CASE k = MAXFILE
    <3>1. ~(k < NDIRECT) /\ ~(k < MAXFILE)
      BY <2>5, Sizes
    <3>2. TruncBlock(i, k)' = ind
      BY <2>3, <3>1 DEF TruncBlock
    <3> HIDE DEF mp
    <3> QED
      BY <1>5, <2>1, <2>5, <3>2
  <2>6. CASE ~(k < NDIRECT) /\ k # MAXFILE
    <3>1. k < MAXFILE /\ k - NDIRECT \in Units /\ bn \in Nat
      BY <2>1, <2>6, Sizes DEF Units
    <3>2. CASE ind = 0
      <4>1. TruncBlock(i, k)' = 0
        BY <2>3, <2>6, <3>2 DEF TruncBlock
      <4>2. addrs[i][NDIRECT] = 0 /\ k # bn
        <5>1. k # bn
          BY <1>1, <2>1, <2>6, <3>1, <3>2, Sizes
        <5>2. Names[<<i, MAXFILE>>] = 0
          BY <1>1, <3>2, Sizes DEF Given
        <5> QED
          BY <5>1, <5>2, NameIsLookup
      <4>3. TruncBlock(i, k) = 0
        BY <2>6, <4>2 DEF TruncBlock
      <4> HIDE DEF mp
      <4> QED
        BY <2>1, <2>2, <2>6, <4>1, <4>2, <4>3
    <3>3. CASE ind # 0
      <4>1. ind \in Blocks /\ blk'[ind] = b.blk[ind]
        BY <1>6, <3>3, Sizes DEF b
      <4>2. TruncBlock(i, k)' = b.blk[ind][k - NDIRECT]
        BY <2>3, <2>6, <3>1, <3>3, <4>1 DEF TruncBlock
      <4>3. k = bn => TruncBlock(i, k)' = addr
        BY <1>1, <2>1, <2>6, <3>1, <3>3, <4>2, Sizes
      <4>4. ASSUME k # bn PROVE TruncBlock(i, k)' = TruncBlock(i, k)
        <5>1. k - NDIRECT # bn - NDIRECT
          BY <2>1, <3>1, <4>4, Sizes
        <5>2. addrs[i][NDIRECT] # 0 => addrs[i][NDIRECT] = ind
          BY NameIsLookup, <1>1 DEF Given
        <5>3. b.blk[ind][k - NDIRECT] = IF addrs[i][NDIRECT] = 0 THEN 0 ELSE blk[ind][k - NDIRECT]
          BY <1>1, <3>1, <3>3, <5>1
        <5> QED
          BY <2>6, <3>1, <4>2, <5>2, <5>3 DEF TruncBlock
      <4> HIDE DEF mp
      <4> QED
        BY <1>5, <2>1, <2>2, <2>6, <4>3, <4>4
    <3> QED
      BY <3>2, <3>3
  <2> QED
    BY <2>4, <2>5, <2>6
<1>9. \A h \in Dom : Names'[h] = mp[h]
  <2> TAKE h \in Dom
  <2>1. PICK j \in Files, k \in 0..MAXFILE : h = <<j, k>>
    BY DEF Dom
  <2>2. Names'[h] = Name(j, k)'
    BY <2>1 DEF Names, Dom
  <2>3. CASE j = i
    BY <1>8, <2>1, <2>2, <2>3
  <2>4. CASE j # i
    <3>1. mp[h] = Names[h]
      <4> HIDE DEF mp, Names
      <4> QED
        BY <1>5, <2>1, <2>4
    <3> QED
      BY <1>7, <2>1, <2>2, <2>4, <3>1
  <2> QED
    BY <2>3, <2>4
<1>10. mp = [h \in Dom |-> mp[h]]
  <2>1. Names = [h \in Dom |-> Names[h]]
    BY DEF Names
  <2> HIDE DEF Names, Dom
  <2> QED
    BY <2>1 DEF Mapped
<1>11. Names' = [h \in Dom |-> Names'[h]]
  BY DEF Names, Dom
<1> HIDE DEF mp, Names, Dom
<1>12. [h \in Dom |-> Names'[h]] = [h \in Dom |-> mp[h]]
  BY <1>9
<1>13. Names' = mp
  BY <1>10, <1>11, <1>12
<1> QED
  BY <1>13 DEF mp

\* what was logged stays part of the log of a write when names are added
LEMMA WriteLogGrows ==
  ASSUME NEW i \in Files, NEW o \in Nat, NEW n \in Nat,
         \A k \in 0..MAXFILE : Names[<<i, k>>] # 0 => Names'[<<i, k>>] = Names[<<i, k>>]
  PROVE  WriteLog(i, o, n) \subseteq WriteLog(i, o, n)'
<1> DEFINE T == Touched(i, o, n)
           A == Added(i, o, n)
           nm(k) == Names[<<i, k>>]
<1>1. \A bn \in 0..(MAXFILE - 1) : nm(bn) # 0 => nm(bn)' = nm(bn)
  BY DataPlaces
<1>2. nm(MAXFILE) # 0 => nm(MAXFILE)' = nm(MAXFILE)
  BY DataPlaces
<1>3. \A bn \in T : bn \in T' /\ nm(bn)' = nm(bn)
  BY <1>1 DEF Touched
<1>4. \A bn \in A : bn \in A' /\ nm(bn)' = nm(bn)
  BY <1>3 DEF Added
<1> HIDE DEF T, A, nm
<1>5. {nm(bn) : bn \in T} \subseteq {nm(bn) : bn \in T}'
  BY <1>3
<1>6. {BBLOCK(nm(bn)) : bn \in A} \subseteq {BBLOCK(nm(bn)) : bn \in A}'
  <2>1. \A bn \in A : bn \in A' /\ BBLOCK(nm(bn)') = BBLOCK(nm(bn))
    BY <1>4
  <2> QED
    BY <2>1 DEF BBLOCK
<1>7. WriteLog(i, o, n) = {nm(bn) : bn \in T} \cup {BBLOCK(nm(bn)) : bn \in A}
        \cup (IF nm(MAXFILE) = 0 THEN {} ELSE {nm(MAXFILE), BBLOCK(nm(MAXFILE))})
  BY DEF WriteLog, T, A, nm
<1>8. WriteLog(i, o, n)' = {nm(bn) : bn \in T}' \cup {BBLOCK(nm(bn)) : bn \in A}'
        \cup (IF nm(MAXFILE)' = 0 THEN {} ELSE {nm(MAXFILE)', BBLOCK(nm(MAXFILE)')})
  BY DEF WriteLog, T, A, nm, BBLOCK
<1> QED
  BY <1>2, <1>5, <1>6, <1>7, <1>8

\* what bmap() and the copy log is part of the log of the write
LEMMA WriteLogs ==
  ASSUME NEW i \in Files, NEW o \in Nat, NEW n \in Nat, NEW bn \in 0..(MAXFILE - 1),
         o \div BSIZE <= bn, bn * BSIZE < o + n,
         NEW addr, NEW ind, addr # 0, Names'[<<i, bn>>] = addr, Names'[<<i, MAXFILE>>] = ind
  PROVE  /\ addr \in WriteLog(i, o, n)'
         /\ o <= bn * BSIZE => BBLOCK(addr) \in WriteLog(i, o, n)'
         /\ ind # 0 => ind \in WriteLog(i, o, n)' /\ BBLOCK(ind) \in WriteLog(i, o, n)'
<1>1. bn \in Touched(i, o, n)'
  BY DEF Touched
<1>2. o <= bn * BSIZE => bn \in Added(i, o, n)'
  BY <1>1 DEF Added
<1> QED
  BY <1>1, <1>2 DEF WriteLog, BBLOCK

\* the block of a place that a write of n units at o has come to
LEMMA PlaceInWrite ==
  ASSUME NEW o \in Nat, NEW t \in Nat, NEW n \in Nat, t < n, o + n <= MAXFILE * BSIZE,
         NEW c, c = (o + t) \div BSIZE
  PROVE  /\ c \in 0..(MAXFILE - 1) /\ c * BSIZE <= o + t /\ o + t < c * BSIZE + BSIZE
         /\ o \div BSIZE <= c /\ c * BSIZE < o + n
<1> DEFINE a == o + t
           bn == a \div BSIZE
           M == MAXFILE * BSIZE
<1>1. a \in Nat /\ o <= a /\ a < o + n /\ M \in Nat /\ a < M
  <2>1. M \in Nat
    BY Sizes
  <2> HIDE DEF M
  <2> QED
    BY <2>1 DEF M
<1> HIDE DEF a
<1>2. bn \in Nat /\ bn * BSIZE \in Nat /\ bn * BSIZE <= a /\ a < bn * BSIZE + BSIZE
  <2>1. /\ bn \in Nat /\ a % BSIZE \in 0..(BSIZE - 1) /\ a = bn * BSIZE + (a % BSIZE)
    BY <1>1, Div
  <2>2. bn * BSIZE \in Nat
    BY <2>1, Times
  <2> DEFINE r == a % BSIZE
             x == bn * BSIZE
  <2> HIDE DEF r, x, bn
  <2> QED
    BY <1>1, <2>1, <2>2, Sizes DEF r, x
<1>3. bn < MAXFILE
  <2>1. MAXFILE \in Nat
    BY Sizes
  <2> QED
    BY <1>1, <2>1, BlockOf
<1>4. bn * BSIZE < o + n
  <2> DEFINE x == bn * BSIZE
  <2> HIDE DEF x
  <2> QED
    BY <1>1, <1>2 DEF x
<1>5. o \div BSIZE <= bn
  <2> DEFINE e == o \div BSIZE
  <2>1. e \in Nat /\ e * BSIZE \in Nat /\ e * BSIZE <= o
    <3>1. e \in Nat
      BY Div
    <3>2. e <= o \div BSIZE
      BY <3>1
    <3> HIDE DEF e
    <3>3. e * BSIZE <= o /\ e * BSIZE \in Nat
      BY <3>1, <3>2, BlockOf, Times
    <3> QED
      BY <3>1, <3>3
  <2>2. e * BSIZE <= a
    <3> DEFINE x == e * BSIZE
    <3> HIDE DEF x
    <3> QED
      BY <1>1, <2>1 DEF x
  <2> HIDE DEF e
  <2>3. e <= bn
    BY <1>1, <2>1, <2>2, BlockOf
  <2> QED
    BY <2>3 DEF e
<1>6. bn \in 0..(MAXFILE - 1)
  <2> HIDE DEF bn
  <2> QED
    BY <1>2, <1>3, Sizes
<1>7. c = bn
  BY DEF a
<1> HIDE DEF bn
<1> QED
  BY <1>2, <1>4, <1>5, <1>6, <1>7 DEF a

\* a turn of writei()'s loop
LEMMA WriteInv ==
  ASSUME Inv, NEW p \in Procs, writei(p)
  PROVE  Inv'
<1> DEFINE S == [pc : Working \cup {"user", "filewrite"}, f : Nat, n : Nat, n1 : Nat, tot : Nat]
           M == MAXFILE * BSIZE
<1>1. st[p].pc = "writei" /\ st[p].pc \in Writing /\ st[p].pc \in Working
  BY DEF writei, At, Writing, Working
<1>2. PICK f \in Files, n \in Nat, n1 \in Nat, t \in Nat, o \in Nat :
        f = st[p].f /\ n = st[p].n /\ n1 = st[p].n1 /\ t = st[p].tot /\ o = off[p][f]
  BY <1>1, ProcType
<1>3. PICK z \in Nat : z = size[f] /\ z <= M /\ M \in Nat
  BY SizeType
<1>4. /\ o <= z /\ o + n1 <= M /\ t <= n1 /\ n1 <= n /\ n1 <= max /\ Reaches(f, o + t)
      /\ t < n1
  BY <1>1, <1>2, <1>3 DEF Inv, Filled, WriteFilled, writei
<1>5. lock[f] = p /\ Cut(f) = 0
  <2>1. lock[f] = p
    BY <1>1, <1>2, ProcType
  <2> QED
    BY <1>1, <2>1 DEF Cut
<1> DEFINE a == o + t
           bn == a \div BSIZE
           r == a % BSIZE
           m == min(n1 - t, BSIZE - r)
           b == bmap(f, bn)
<1>6. /\ a \in Nat /\ bn \in 0..(MAXFILE - 1) /\ bn * BSIZE <= a /\ a < bn * BSIZE + BSIZE
      /\ o \div BSIZE <= bn /\ bn * BSIZE < o + n1
  <2>1. a \in Nat /\ o + n1 <= MAXFILE * BSIZE
    BY <1>4
  <2>2. /\ bn \in 0..(MAXFILE - 1) /\ bn * BSIZE <= a /\ a < bn * BSIZE + BSIZE
        /\ o \div BSIZE <= bn /\ bn * BSIZE < o + n1
    BY <1>4, <2>1, PlaceInWrite
  <2> QED
    BY <2>1, <2>2
<1>7. CASE b.panics
  <2>1. panicked' = "balloc: out of blocks"
        /\ UNCHANGED <<bitmap, blk, addrs, size, off, lock, st, logged, unlogged>>
    BY <1>2, <1>7 DEF writei, panic
  <2> QED
    BY <2>1, SameInv
<1>8. CASE ~b.panics
  <2> DEFINE y == off[p][st[p].f] + st[p].tot
  <2>1. PICK k \in Copied(m) :
          /\ bitmap' = b.bitmap
          /\ addrs' = b.addrs
          /\ blk' = [b.blk EXCEPT ![b.addr] =
                       [u \in Units |-> IF u >= (y % BSIZE) /\ u < (y % BSIZE) + k
                                        THEN Data(st[p].f, y + 1 + u - (y % BSIZE))
                                        ELSE @[u]]]
          /\ logged' = [logged EXCEPT ![p] = @ \cup b.logs \cup (IF k = m THEN {b.addr} ELSE {})]
          /\ unlogged' = IF k \notin {0, m} THEN unlogged \cup {b.addr}
                         ELSE IF k = m THEN unlogged \ {b.addr} ELSE unlogged
          /\ st' = [st EXCEPT ![p] = IF k = m THEN [st[p] EXCEPT !.tot = st[p].tot + m]
                                     ELSE [st[p] EXCEPT !.pc = "writei_end"]]
          /\ UNCHANGED <<size, off, lock, panicked>>
    <3>1. bmap(st[p].f, y \div BSIZE) = b /\ min(st[p].n1 - st[p].tot, BSIZE - (y % BSIZE)) = m
      BY <1>2
    <3> HIDE DEF b, m
    <3> QED
      BY <1>8, <3>1 DEF writei, Goto
  <2>2. PICK addr \in Blocks, ind \in 0..FSSIZE, new \in SUBSET (Blocks \ bitmap) :
          Bmaps(f, bn, addr, ind, new)
    BY <1>5, <1>6, <1>8, BmapIs
  <2>3. /\ Given(f, bn, addr, ind, new) /\ (bn >= NDIRECT => ind # 0)
        /\ b.addr = addr /\ b.bitmap = bitmap \cup new
        /\ b.addrs = [addrs EXCEPT ![f] = [j \in 0..NDIRECT |->
             IF j = NDIRECT THEN ind ELSE IF j = bn THEN addr ELSE addrs[f][j]]]
        /\ b.blk \in [Blocks -> [Units -> Int]]
        /\ b.logs \subseteq new \cup {BBLOCK(c) : c \in new} \cup (IF bn >= NDIRECT THEN {ind} ELSE {})
    BY <2>2 DEF Bmaps
  <2>4. m \in Nat /\ m <= n1 - t /\ a + m <= bn * BSIZE + BSIZE /\ r \in Nat
    <3>1. r \in 0..(BSIZE - 1) /\ a = bn * BSIZE + r
      BY <1>6, Div
    <3>2. bn * BSIZE \in Nat
      BY <1>6, DataPlaces, Times
    <3> DEFINE x == bn * BSIZE
    <3> HIDE DEF r, x, a, bn
    <3> QED
      BY <1>4, <1>6, <3>1, <3>2, Sizes DEF min, x
  <2> DEFINE s == IF k = m THEN [st[p] EXCEPT !.tot = st[p].tot + m]
                  ELSE [st[p] EXCEPT !.pc = "writei_end"]
  <2>5. /\ s \in S /\ s.pc \in Writing /\ s.pc \in Working /\ s.pc # "itrunc" /\ s.pc # "user"
        /\ s.f = f /\ s.n = n /\ s.n1 = n1 /\ (s.tot = t \/ s.tot = t + m)
    <3>1. st[p] \in S /\ t + m \in Nat
      BY <2>4, ProcType
    <3> HIDE DEF m
    <3>2. CASE k = m
      BY <1>1, <1>2, <3>1, <3>2 DEF Writing, Working
    <3>3. CASE k # m
      BY <1>1, <1>2, <3>1, <3>3 DEF Writing, Working
    <3> QED
      BY <3>2, <3>3
  <2>6. /\ st' = [st EXCEPT ![p] = s] /\ bitmap' = bitmap \cup new
        /\ UNCHANGED <<size, off, lock, panicked>>
    BY <2>1, <2>3
  <2> HIDE DEF s, S, M, b, m, r, bn, a, y
  <2>7. /\ \A q \in Procs : st'[q] = IF q = p THEN s ELSE st[q]
        /\ \A j \in Files : lock'[j] = IF j = f THEN p ELSE lock[j]
        /\ st' \in [Procs -> S]
    <3>1. st \in [Procs -> S]
      BY DEF Inv, Typed, S
    <3> QED
      BY <1>5, <2>5, <2>6, <3>1
  <2>8. /\ Locks'
        /\ \A j \in Files : j # f => lock[j] # p /\ Cut(j)' = Cut(j)
        /\ Cut(f)' = 0
        /\ \A q \in Procs \ {p} : st'[q] = st[q]
    <3>1. lock[f] \in {p, NoProc} /\ (st[p].pc \in Working => st[p].f = f)
      BY <1>2, <1>5
    <3> QED
      BY <2>5, <2>7, <3>1, LockStep
  <2>9. /\ blk' \in [Blocks -> [Units -> Int]]
        /\ \A c \in Blocks : c # addr => blk'[c] = b.blk[c]
    <3> DEFINE B == [u \in Units |-> IF u >= (y % BSIZE) /\ u < (y % BSIZE) + k
                                     THEN Data(st[p].f, y + 1 + u - (y % BSIZE))
                                     ELSE b.blk[addr][u]]
    <3>1. blk' = [b.blk EXCEPT ![addr] = B]
      BY <2>1, <2>3
    <3>2. \A u \in Units : Data(st[p].f, y + 1 + u - (y % BSIZE)) \in Int
      <4> TAKE u \in Units
      <4>0. st[p].f = f /\ y = a /\ y % BSIZE = r
        BY <1>2 DEF a, r, y
      <4>1. M \in Nat /\ f \in Nat /\ M * f \in Int /\ u \in Int /\ FSSIZE \in Nat
        BY <1>3, Sizes DEF Units
      <4>2. a + 1 + u - r \in Int
        BY <1>6, <2>4, <4>1
      <4>3. Data(f, a + 1 + u - r) = FSSIZE + M * f + (a + 1 + u - r)
        BY DEF Data, M
      <4> QED
        BY <4>0, <4>1, <4>2, <4>3
    <3>3. b.blk[addr] \in [Units -> Int]
      BY <2>3
    <3>4. B \in [Units -> Int]
      BY <3>2, <3>3
    <3> HIDE DEF B
    <3> QED
      BY <2>3, <3>1, <3>4
  <2>10. Names' = Mapped(f, bn, addr, ind)
    <3>1. \A j \in Files : Cut(j)' = Cut(j)
      BY <1>5, <2>8
    <3>2. addrs' = bmap(f, bn).addrs /\ \A c \in Blocks : c # addr => blk'[c] = bmap(f, bn).blk[c]
      BY <2>1, <2>9 DEF b
    <3> QED
      BY <1>5, <1>6, <2>2, <3>1, <3>2, WriteNames
  <2>11. /\ Names'[<<f, bn>>] = addr /\ Names'[<<f, MAXFILE>>] = ind
         /\ \A h \in Dom : h # <<f, bn>> /\ h # <<f, MAXFILE>> => Names'[h] = Names[h]
    BY <1>6, <2>10, MappedAt
  <2>12. \A h \in Dom : Names[h] # 0 => Names'[h] = Names[h]
    BY <1>6, <2>3, <2>10, MappedGrows
  <2>13. Owned(Names, bitmap)'
    <3>1. Owned(Mapped(f, bn, addr, ind), bitmap \cup new)
      BY <1>6, <2>3, MappedOwned
    <3> HIDE DEF Mapped, Names
    <3> QED
      BY <2>6, <2>10, <3>1 DEF Owned, Dom
  <2>14. /\ addrs' \in [Files -> [0..NDIRECT -> 0..FSSIZE]]
         /\ \A j \in Files : j # f => addrs'[j] = addrs[j]
    <3> DEFINE A == [j \in 0..NDIRECT |-> IF j = NDIRECT THEN ind ELSE IF j = bn THEN addr ELSE addrs[f][j]]
    <3>1. addrs \in [Files -> [0..NDIRECT -> 0..FSSIZE]] /\ addr \in 0..FSSIZE
      BY Sizes DEF Inv, Typed
    <3>2. A \in [0..NDIRECT -> 0..FSSIZE]
      BY <3>1
    <3>3. addrs' = [addrs EXCEPT ![f] = A]
      BY <2>1, <2>3
    <3> HIDE DEF A
    <3> QED
      BY <3>1, <3>2, <3>3
  <2>15. /\ logged' = [logged EXCEPT ![p] = logged[p] \cup b.logs \cup (IF k = m THEN {addr} ELSE {})]
         /\ logged \in [Procs -> SUBSET Int]
    BY <2>1, <2>3 DEF Inv, Typed
  <2>16. b.logs \subseteq Int /\ addr \in Int
    <3>1. \A c \in Blocks : BBLOCK(c) \in Int
      BY Sizes DEF BBLOCK
    <3>2. ind \in Int /\ Blocks \subseteq Int
      BY Sizes
    <3> QED
      <4>1. new \subseteq Int /\ {BBLOCK(c) : c \in new} \subseteq Int
        BY <3>1, <3>2
      <4> DEFINE L == b.logs
                 R == {BBLOCK(c) : c \in new}
      <4>2. L \subseteq new \cup R \cup {ind}
        BY <2>3
      <4> HIDE DEF L, R
      <4> QED
        BY <3>2, <4>1, <4>2 DEF L, R
  <2>17. /\ logged' \in [Procs -> SUBSET Int] /\ logged'[p] \subseteq logged[p] \cup b.logs \cup {addr}
         /\ \A q \in Procs \ {p} : logged'[q] = logged[q]
    BY <2>15, <2>16
  <2>18. unlogged' \subseteq Blocks
    BY <2>1, <2>3 DEF Inv, Typed
  <2>19. Typed'
    <3>1. bitmap' \subseteq Blocks
      BY <2>6 DEF Inv, Typed
    <3> QED
      BY <2>6, <2>7, <2>9, <2>14, <2>17, <2>18, <3>1 DEF Inv, Typed, S
  <2>20. FileFilled(f)'
    <3>1. Reaches(f, z)
      BY <1>1, <1>3, <1>5 DEF Inv, Filled, FileFilled
    <3>2. Reaches(f, z)'
      <4> SUFFICES ASSUME NEW c \in 0..(MAXFILE - 1), c * BSIZE < z PROVE Names'[<<f, c>>] # 0
        BY DEF Reaches
      <4>1. Names[<<f, c>>] # 0 /\ <<f, c>> \in Dom
        BY <3>1, NameAt, DataPlaces DEF Reaches
      <4> HIDE DEF Names
      <4> QED
        BY <2>12, <4>1
    <3>3. size'[f] = z
      BY <1>3, <2>6
    <3> QED
      BY <3>2, <3>3 DEF FileFilled
  <2>21. ASSUME NEW e \in Nat, e = o + t \/ e = o + t + m PROVE Reaches(f, e)'
    <3> SUFFICES ASSUME NEW c \in 0..(MAXFILE - 1), c * BSIZE < e PROVE Names'[<<f, c>>] # 0
      BY DEF Reaches
    <3>1. c * BSIZE \in Nat /\ bn * BSIZE \in Nat /\ c \in Nat /\ bn \in Nat /\ <<f, c>> \in Dom
      BY <1>6, DataPlaces, Times, NameAt
    <3>2. c <= bn
      <4>1. c * BSIZE < bn * BSIZE + BSIZE
        <5> DEFINE x == bn * BSIZE
                   w == c * BSIZE
        <5> HIDE DEF x, w
        <5>1. a \in Nat /\ a < x + BSIZE /\ a + m <= x + BSIZE /\ w < e /\ (e = a \/ e = a + m)
          BY <1>6, <2>4, <2>21 DEF x, w, a
        <5>2. w \in Nat /\ x \in Nat
          BY <3>1 DEF x, w
        <5> QED
          BY <2>4, <5>1, <5>2, Sizes DEF x, w
      <4>2. bn < c => bn * BSIZE + BSIZE <= c * BSIZE
        BY <3>1, Times
      <4> DEFINE x == bn * BSIZE
                 w == c * BSIZE
      <4> HIDE DEF x, w
      <4> QED
        BY <3>1, <4>1, <4>2, Sizes DEF x, w
    <3>3. CASE c = bn
      BY <2>11, <3>3, Sizes
    <3>4. CASE c # bn
      <4>1. c * BSIZE + BSIZE <= bn * BSIZE
        BY <3>1, <3>2, <3>4, Times
      <4>2. c * BSIZE < o + t
        <5> DEFINE x == bn * BSIZE
                   w == c * BSIZE
        <5>1. x <= a /\ w + BSIZE <= x /\ w \in Nat /\ x \in Nat
          BY <1>6, <3>1, <4>1
        <5> HIDE DEF x, w
        <5>2. w < a
          BY <1>6, <5>1, Sizes
        <5> QED
          BY <5>2 DEF w, a
      <4>3. Names[<<f, c>>] # 0
        BY <1>4, <4>2 DEF Reaches
      <4> HIDE DEF Names
      <4> QED
        BY <2>12, <3>1, <4>3
    <3> QED
      BY <3>3, <3>4
  <2>22. WriteFilled(p)'
    <3>1. PICK e \in Nat : e = o + s.tot /\ (e = o + t \/ e = o + t + m)
      BY <2>4, <2>5
    <3>2. Reaches(f, e)'
      BY <2>21, <3>1
    <3>3. st'[p] = s /\ off'[p][f] = o /\ size'[f] = z /\ max' = max
      BY <1>2, <1>3, <2>6, <2>7 DEF max
    <3>4. s.tot <= n1
      BY <1>4, <2>4, <2>5
    <3> QED
      BY <1>4, <2>5, <3>1, <3>2, <3>3, <3>4 DEF WriteFilled, M
  <2>23. LogsOf(p)'
    <3> DEFINE W == WriteLog(f, o, n1)
    <3>1. logged[p] \subseteq W
      BY <1>1, <1>2 DEF Inv, Logs, LogsOf
    <3>2. W \subseteq W'
      <4>1. \A j \in 0..MAXFILE : <<f, j>> \in Dom
        BY NameAt
      <4>2. \A j \in 0..MAXFILE : Names[<<f, j>>] # 0 => Names'[<<f, j>>] = Names[<<f, j>>]
        <5> HIDE DEF Names
        <5> QED
          BY <2>12, <4>1
      <4> QED
        BY <4>2, WriteLogGrows
    <3>3. /\ addr \in W' /\ (o <= bn * BSIZE => BBLOCK(addr) \in W')
          /\ ind # 0 => ind \in W' /\ BBLOCK(ind) \in W'
      <4>1. addr # 0
        BY Sizes
      <4> QED
        BY <1>6, <2>11, <4>1, WriteLogs
    <3>4. ASSUME Names[<<f, bn>>] = 0 PROVE o <= bn * BSIZE
      <4>1. ~(bn * BSIZE < z)
        BY <1>1, <1>3, <1>5, <1>6, <3>4 DEF Inv, Filled, FileFilled, Reaches
      <4>2. bn * BSIZE \in Nat
        BY <1>6, DataPlaces, Times
      <4> DEFINE x == bn * BSIZE
      <4> HIDE DEF x
      <4> QED
        BY <1>4, <4>1, <4>2 DEF x
    <3>5. \A c \in new : c \in W' /\ BBLOCK(c) \in W'
      <4>1. \A c \in new : c # 0
        BY Sizes
      <4> HIDE DEF W, Names
      <4> QED
        BY <2>3, <3>3, <3>4, <4>1 DEF Given
    <3>6. b.logs \subseteq W'
      <4> HIDE DEF W
      <4> QED
        BY <2>3, <3>3, <3>5
    <3>7. logged'[p] \subseteq W'
      <4> HIDE DEF W
      <4> QED
        BY <2>17, <3>1, <3>2, <3>3, <3>6
    <3>8. st'[p] = s /\ off'[p][f] = o
      BY <1>2, <2>6, <2>7
    <3> QED
      BY <2>5, <3>7, <3>8 DEF LogsOf
  <2>24. \A j \in Files : j # f =>
           /\ size'[j] = size[j] /\ addrs'[j] = addrs[j] /\ lock'[j] = lock[j] /\ Cut(j)' = Cut(j)
           /\ \A c \in 0..MAXFILE : Names'[<<j, c>>] = Names[<<j, c>>]
    <3>1. \A j \in Files, c \in 0..MAXFILE : <<j, c>> \in Dom
      BY NameAt
    <3> HIDE DEF Names, Dom
    <3> QED
      BY <2>6, <2>8, <2>11, <2>14, <3>1
  <2>25. /\ Cut(f)' <= MAXFILE + 1
         /\ \A c \in 0..(NDIRECT - 1) : ~(c < Cut(f)')
         /\ ~(Cut(f)' > MAXFILE)
    BY <2>8, Sizes
  <2>26. panicked' # "freeing free block"
    BY <2>6 DEF Inv
  <2>27. /\ \A j \in Files : j # f => lock[j] # p
         /\ \A q \in Procs \ {p} : st'[q] = st[q] /\ off'[q] = off[q] /\ logged'[q] = logged[q]
         /\ lock[f] \in {p, NoProc}
    BY <1>5, <2>6, <2>8, <2>17
  <2> HIDE DEF Cut, Names
  <2> QED
    BY <2>8, <2>13, <2>19, <2>20, <2>22, <2>23, <2>24, <2>25, <2>26, <2>27, FileStep
<1> QED
  BY <1>7, <1>8

(***************************************************************************)
(* The theorems.                                                           *)
(***************************************************************************)
\* every step keeps the invariant
LEMMA NextInv ==
  Inv /\ [Next]_vars => Inv'
<1> SUFFICES ASSUME Inv, [Next]_vars PROVE Inv'
  OBVIOUS
<1>1. CASE UNCHANGED vars
  <2>1. UNCHANGED <<bitmap, blk, addrs, size, off, lock, st, logged, unlogged>>
        /\ panicked' # "freeing free block"
    BY <1>1 DEF vars, Inv
  <2> QED
    BY <2>1, SameInv
<1>2. ASSUME NEW p \in Procs, itrunc(p) PROVE Inv'
  BY <1>2, TruncInv
<1>3. ASSUME NEW p \in Procs, itrunc_end(p) PROVE Inv'
  BY <1>3, TruncEndInv
<1>4. ASSUME NEW p \in Procs, filewrite_on(p) PROVE Inv'
  <2>1. st[p].pc = "filewrite" /\ Turn(p, st[p].f, st[p].n)
    BY <1>4 DEF filewrite_on, At
  <2>2. st[p].f \in Files /\ st[p].n \in Nat
    BY <2>1, ProcType
  <2> QED
    BY <2>1, <2>2, TurnInv
<1>5. ASSUME NEW p \in Procs, writei(p) PROVE Inv'
  BY <1>5, WriteInv
<1>6. ASSUME NEW p \in Procs, writei_end(p) PROVE Inv'
  BY <1>6, WriteEndInv
<1>7. ASSUME NEW p \in Procs, NEW c \in Opens[p], sys_open(p, c[1], c[2]) PROVE Inv'
  <2>1. c[1] \in Files /\ c[2] \in BOOLEAN
    BY BlocksAssumption
  <2> QED
    BY <1>7, <2>1, OpenInv
<1>8. ASSUME NEW p \in Procs, NEW c \in Writes[p], filewrite(p, c[1], c[2]) PROVE Inv'
  <2>1. c[1] \in Files /\ c[2] \in Nat
    BY BlocksAssumption
  <2>2. st[p].pc = "user" /\ Turn(p, c[1], c[2])
    BY <1>8 DEF filewrite, At
  <2> QED
    BY <2>1, <2>2, TurnInv
<1>9. ASSUME NEW p \in Procs, NEW c \in Reads[p], fileread(p, c[1], c[2]) PROVE Inv'
  <2>1. c[1] \in Files /\ c[2] \in Nat
    BY BlocksAssumption
  <2> QED
    BY <1>9, <2>1, ReadInv
<1>10. CASE Stopped
  BY <1>1, <1>10 DEF Stopped
<1> QED
  BY <1>1, <1>2, <1>3, <1>4, <1>5, <1>6, <1>7, <1>8, <1>9, <1>10 DEF Next

\* Inv is an invariant of the files on an image whose root directory has a part of its last
\* block left, as that of the image mkfs is built for.
THEOREM FilesInvariance ==
  ASSUME RootFits
  PROVE  Spec => []Inv
<1>1. Init => Inv
  BY InitInv
<1> QED
  BY <1>1, NextInv, PTL DEF Spec

\* the places that name a block, and the blocks they name
LEMMA PlacesAre ==
  ASSUME Inv
  PROVE  /\ Places = {h \in Dom : Names[h] # 0}
         /\ \A h \in Places : TruncBlock(h[1], h[2]) = Names[h]
<1>1. ASSUME NEW h \in Dom
      PROVE  /\ h \in Files \X (0..MAXFILE)
             /\ h[2] >= TruncAt(h[1]) /\ TruncBlock(h[1], h[2]) # 0 <=> Names[h] # 0
             /\ Names[h] # 0 => TruncBlock(h[1], h[2]) = Names[h]
  <2>1. PICK i \in Files, k \in 0..MAXFILE : h = <<i, k>>
    BY DEF Dom
  <2>2. TruncAt(i) = Cut(i) /\ Names[h] = Name(i, k) /\ k \in Nat /\ Cut(i) \in Nat
    <3>1. Cut(i) \in Nat
      BY ProcType, Holder, Sizes DEF Cut
    <3>2. k \in Nat
      BY Sizes
    <3> QED
      BY <2>1, <3>1, <3>2, CutIs, NameAt
  <2>3. k >= Cut(i) <=> ~(k < Cut(i))
    BY <2>2
  <2> QED
    BY <2>1, <2>2, <2>3 DEF Name, Dom
<1>2. Dom = Files \X (0..MAXFILE)
  BY DEF Dom
<1>3. Places = {h \in Dom : Names[h] # 0}
  <2>1. Places = {h \in Dom : h[2] >= TruncAt(h[1]) /\ TruncBlock(h[1], h[2]) # 0}
    BY <1>2 DEF Places
  <2> HIDE DEF Names, Dom
  <2> QED
    BY <1>1, <2>1
<1>4. \A h \in Places : TruncBlock(h[1], h[2]) = Names[h]
  <2> HIDE DEF Names, Dom
  <2> QED
    BY <1>1, <1>3
<1> QED
  BY <1>3, <1>4

\* there are as many of them as blocks in use
LEMMA PlacesCount ==
  ASSUME Inv
  PROVE  /\ {TruncBlock(h[1], h[2]) : h \in Places} = bitmap
         /\ Cardinality(Places) = Cardinality(bitmap)
<1>1. Places = {h \in Dom : Names[h] # 0} /\ \A h \in Places : TruncBlock(h[1], h[2]) = Names[h]
  BY PlacesAre
<1>2. /\ \A h \in Dom : Names[h] \in bitmap \cup {0}
      /\ \A h, g \in Dom : Names[h] = Names[g] /\ Names[h] # 0 => h = g
      /\ \A b \in bitmap : \E h \in Dom : Names[h] = b
      /\ 0 \notin bitmap
  BY Sizes DEF Inv, Owned, Typed
<1> DEFINE F == [h \in Places |-> Names[h]]
<1> HIDE DEF Names, Dom
<1>3. \A b \in bitmap : \E h \in Places : Names[h] = b
  BY <1>1, <1>2
<1>4. F \in Injection(Places, bitmap) /\ F \in Surjection(Places, bitmap)
  <2>1. F \in [Places -> bitmap]
    BY <1>1, <1>2
  <2>2. \A h, g \in Places : F[h] = F[g] => h = g
    BY <1>1, <1>2
  <2>3. \A b \in bitmap : \E h \in Places : F[h] = b
    BY <1>3
  <2> HIDE DEF F
  <2> QED
    BY <2>1, <2>2, <2>3 DEF Injection, Surjection, IsInjective
<1>5. IsFiniteSet(bitmap)
  <2>1. IsFiniteSet(Blocks)
    BY FS_Interval, Sizes DEF Blocks
  <2> QED
    BY <2>1, FS_Subset DEF Inv, Typed
<1>6. Cardinality(Places) = Cardinality(bitmap)
  <2> HIDE DEF F
  <2> QED
    BY <1>4, <1>5, FS_Injection
<1>7. {TruncBlock(h[1], h[2]) : h \in Places} = bitmap
  BY <1>1, <1>2, <1>3
<1> QED
  BY <1>6, <1>7

\* On an image whose root directory does not fill its last block, a block is marked in
\* the bitmap exactly if one place of one inode names it, through balloc(), bmap(),
\* itrunc() and failed copies of any number of processes; and below its size no file has
\* a hole, so that readi() never allocates.
THEOREM FilesBlocksOwned ==
  ASSUME RootFits
  PROVE  Spec => []BlocksOwned
<1>1. Inv => BlocksOwned
  <2> SUFFICES ASSUME Inv PROVE BlocksOwned
    OBVIOUS
  <2>1. TypeOK
    BY DEF TypeOK, Inv, Typed
  <2>2. NoHoles
    <3> SUFFICES ASSUME NEW i \in Files, ~Truncating(i), NEW bn \in 0..(MAXFILE - 1),
                        bn * BSIZE < size[i]
                 PROVE  Lookup(i, bn) # 0
      BY DEF NoHoles
    <3>1. Cut(i) = 0 /\ (lock[i] = NoProc \/ st[lock[i]].pc # "itrunc")
      BY CutIs DEF Cut
    <3>2. Names[<<i, bn>>] # 0
      BY <3>1 DEF Inv, Filled, FileFilled, Reaches
    <3> QED
      BY <3>1, <3>2, NameIsLookup
  <2> QED
    BY <2>1, <2>2, PlacesCount DEF BlocksOwned, Inv
<1> QED
  BY <1>1, FilesInvariance, PTL

-----------------------------------------------------------------------------
\* a union is not larger than its parts
LEMMA UnionSize ==
  ASSUME NEW S, IsFiniteSet(S), NEW T, IsFiniteSet(T)
  PROVE  /\ IsFiniteSet(S \cup T) /\ Cardinality(S \cup T) <= Cardinality(S) + Cardinality(T)
         /\ Cardinality(S \cup T) \in Nat
<1>1. IsFiniteSet(S \cap T)
  BY FS_Subset
<1>2. Cardinality(S) \in Nat /\ Cardinality(T) \in Nat /\ Cardinality(S \cap T) \in Nat
  BY <1>1, FS_CardinalityType
<1>3. /\ IsFiniteSet(S \cup T)
      /\ Cardinality(S \cup T) = Cardinality(S) + Cardinality(T) - Cardinality(S \cap T)
  BY FS_Union
<1>4. Cardinality(S \cup T) \in Nat
  BY <1>3, FS_CardinalityType
<1> QED
  BY <1>2, <1>3, <1>4

\* an image is not larger than what it is of
LEMMA ImageSize ==
  ASSUME NEW S, IsFiniteSet(S), NEW F
  PROVE  IsFiniteSet({F[x] : x \in S}) /\ Cardinality({F[x] : x \in S}) <= Cardinality(S)
<1> DEFINE T == {F[x] : x \in S}
           G == [x \in S |-> F[x]]
<1>1. G \in Surjection(S, T)
  BY DEF Surjection
<1> HIDE DEF G
<1> QED
  BY <1>1, FS_Surjection

\* a piece of filewrite() touches one block more than it is long, and adds none more
LEMMA TouchedSize ==
  ASSUME NEW i \in Files, NEW o \in Nat, NEW n \in Nat, NEW m \in Nat, n <= m * BSIZE
  PROVE  /\ IsFiniteSet(Touched(i, o, n)) /\ Cardinality(Touched(i, o, n)) <= m + 1
         /\ IsFiniteSet(Added(i, o, n)) /\ Cardinality(Added(i, o, n)) <= m
<1> DEFINE q == o \div BSIZE
           r == o % BSIZE
           T == Touched(i, o, n)
           A == Added(i, o, n)
           c == IF r = 0 THEN q ELSE q + 1
<1>1. q \in Nat /\ r \in 0..(BSIZE - 1) /\ o = q * BSIZE + r
  BY Div
<1>2. q * BSIZE \in Nat /\ m * BSIZE \in Nat
  BY <1>1, Times
<1>3. /\ \A bn \in T : bn \in Nat /\ q <= bn /\ bn * BSIZE < o + n
      /\ \A bn \in A : bn \in T /\ o <= bn * BSIZE
  BY DataPlaces DEF Touched, Added
<1> HIDE DEF q, r, T, A
<1>4. ASSUME NEW bn \in Nat, bn * BSIZE < o + n, NEW e \in Nat,
             q * BSIZE + m * BSIZE + r <= e * BSIZE
      PROVE  bn < e
  <2>1. e <= bn => e * BSIZE <= bn * BSIZE
    BY <1>4, Times
  <2>2. e * BSIZE \in Nat /\ bn * BSIZE \in Nat
    BY <1>4, Times
  <2> DEFINE x == q * BSIZE
             y == m * BSIZE
             u == e * BSIZE
             w == bn * BSIZE
  <2> HIDE DEF x, y, u, w
  <2> QED
    BY <1>1, <1>2, <1>4, <2>1, <2>2 DEF x, y, u, w
<1>5. /\ (q + m + 1) * BSIZE = q * BSIZE + m * BSIZE + BSIZE
      /\ (q + m) * BSIZE = q * BSIZE + m * BSIZE
  BY <1>1, Sizes
<1>6. \A bn \in T : bn < q + m + 1
  <2> DEFINE e == q + m + 1
  <2>1. e \in Nat /\ q * BSIZE + m * BSIZE + r <= e * BSIZE
    BY <1>1, <1>2, <1>5, Sizes
  <2> HIDE DEF e
  <2>2. \A bn \in T : bn < e
    BY <1>3, <1>4, <2>1
  <2> QED
    BY <2>2 DEF e
<1>7. r = 0 => \A bn \in T : bn < q + m
  <2> SUFFICES ASSUME r = 0 PROVE \A bn \in T : bn < q + m
    OBVIOUS
  <2> DEFINE e == q + m
  <2>1. e \in Nat /\ q * BSIZE + m * BSIZE + r <= e * BSIZE
    BY <1>1, <1>2, <1>5
  <2> HIDE DEF e
  <2>2. \A bn \in T : bn < e
    BY <1>3, <1>4, <2>1
  <2> QED
    BY <2>2 DEF e
<1>8. \A bn \in A : c <= bn /\ bn < c + m
  <2> TAKE bn \in A
  <2>1. bn \in T /\ bn \in Nat /\ q <= bn /\ o <= bn * BSIZE
    BY <1>3
  <2>2. ASSUME bn = q PROVE r = 0
    <3> DEFINE x == q * BSIZE
    <3>1. o <= x /\ o = x + r /\ x \in Nat
      BY <1>1, <1>2, <2>1, <2>2
    <3> HIDE DEF x
    <3> QED
      BY <1>1, <3>1
  <2>3. bn < q + m + 1 /\ (r = 0 => bn < q + m)
    BY <1>6, <1>7, <2>1
  <2> QED
    BY <1>1, <2>1, <2>2, <2>3
<1>9. c \in Nat
  BY <1>1
<1> HIDE DEF c
<1>10. ASSUME NEW S, NEW a \in Nat, NEW e \in Nat, \A bn \in S : bn \in Nat /\ a <= bn /\ bn < a + e
       PROVE  IsFiniteSet(S) /\ Cardinality(S) <= e
  <2> DEFINE z == a + e - 1
  <2>1. z \in Int /\ S \subseteq a..z /\ (IF a > z THEN 0 ELSE z - a + 1) = e
    BY <1>10
  <2> HIDE DEF z
  <2>2. IsFiniteSet(a..z) /\ Cardinality(a..z) = e
    BY <2>1, FS_Interval
  <2> QED
    BY <2>1, <2>2, FS_Subset
<1>11. IsFiniteSet(T) /\ Cardinality(T) <= m + 1
  <2> DEFINE e == m + 1
  <2>1. e \in Nat /\ \A bn \in T : bn \in Nat /\ q <= bn /\ bn < q + e
    BY <1>1, <1>3, <1>6
  <2> HIDE DEF e
  <2>2. IsFiniteSet(T) /\ Cardinality(T) <= e
    BY <1>1, <1>10, <2>1
  <2> QED
    BY <2>2 DEF e
<1>12. IsFiniteSet(A) /\ Cardinality(A) <= m
  BY <1>3, <1>8, <1>9, <1>10
<1> QED
  BY <1>11, <1>12 DEF T, A

\* the log of a piece of filewrite(), its inode included
LEMMA WriteLogSize ==
  ASSUME NEW i \in Files, NEW o \in Nat, NEW n \in Nat, n <= max, NEW x
  PROVE  /\ IsFiniteSet(WriteLog(i, o, n) \cup {x})
         /\ Cardinality(WriteLog(i, o, n) \cup {x}) <= MAXOPBLOCKS
<1>1. PICK m \in Nat : max = m * BSIZE /\ max \in Nat /\ 2 * m + 4 <= MAXOPBLOCKS
  BY MaxIs
<1> DEFINE T == Touched(i, o, n)
           A == Added(i, o, n)
           nm == [bn \in T |-> Names[<<i, bn>>]]
           bb == [bn \in A |-> BBLOCK(Names[<<i, bn>>])]
           P == {nm[bn] : bn \in T}
           Q == {bb[bn] : bn \in A}
           d == Names[<<i, MAXFILE>>]
           R == {d, BBLOCK(d), x}
<1>2. /\ IsFiniteSet(T) /\ Cardinality(T) <= m + 1
      /\ IsFiniteSet(A) /\ Cardinality(A) <= m
  BY <1>1, TouchedSize
<1>3. WriteLog(i, o, n) \cup {x} \subseteq (P \cup Q) \cup R
  BY DEF WriteLog
<1> HIDE DEF T, A, nm, bb, d
<1>4. /\ IsFiniteSet(P) /\ Cardinality(P) <= Cardinality(T)
      /\ IsFiniteSet(Q) /\ Cardinality(Q) <= Cardinality(A)
  BY <1>2, ImageSize
<1>5. IsFiniteSet(R) /\ Cardinality(R) <= 3
  <2> DEFINE e == BBLOCK(d)
  <2> HIDE DEF e
  <2>1. IsFiniteSet({d}) /\ Cardinality({d}) = 1
    BY FS_Singleton
  <2>2. IsFiniteSet({d} \cup {e}) /\ Cardinality({d} \cup {e}) <= 2
    BY <2>1, FS_AddElement
  <2>3. Cardinality({d} \cup {e}) \in Nat
    BY <2>2, FS_CardinalityType
  <2>4. IsFiniteSet(({d} \cup {e}) \cup {x}) /\ Cardinality(({d} \cup {e}) \cup {x}) <= 3
    <3> DEFINE D == {d} \cup {e}
    <3>1. IsFiniteSet(D) /\ Cardinality(D) \in Nat /\ Cardinality(D) <= 2
      BY <2>2, <2>3
    <3> HIDE DEF D
    <3>2. /\ IsFiniteSet(D \cup {x})
          /\ Cardinality(D \cup {x}) = IF x \in D THEN Cardinality(D) ELSE Cardinality(D) + 1
      BY <3>1, FS_AddElement
    <3>3. Cardinality(D \cup {x}) <= 3
      BY <3>1, <3>2
    <3> QED
      BY <3>2, <3>3 DEF D
  <2>5. R = ({d} \cup {e}) \cup {x}
    BY DEF e
  <2> HIDE DEF R
  <2> QED
    BY <2>4, <2>5
<1> HIDE DEF P, Q, R
<1>6. /\ Cardinality(P) \in Nat /\ Cardinality(Q) \in Nat /\ Cardinality(R) \in Nat
      /\ Cardinality(T) \in Nat /\ Cardinality(A) \in Nat
  BY <1>2, <1>4, <1>5, FS_CardinalityType
<1>7. /\ IsFiniteSet(P \cup Q) /\ Cardinality(P \cup Q) <= Cardinality(P) + Cardinality(Q)
      /\ Cardinality(P \cup Q) \in Nat
  BY <1>4, UnionSize
<1>8. /\ IsFiniteSet((P \cup Q) \cup R) /\ Cardinality((P \cup Q) \cup R) \in Nat
      /\ Cardinality((P \cup Q) \cup R) <= Cardinality(P \cup Q) + Cardinality(R)
  BY <1>5, <1>7, UnionSize
<1>9. Cardinality((P \cup Q) \cup R) <= 2 * m + 4
  BY <1>1, <1>2, <1>4, <1>5, <1>6, <1>7, <1>8
<1> DEFINE W == WriteLog(i, o, n) \cup {x}
<1> HIDE DEF W
<1>10. IsFiniteSet(W) /\ Cardinality(W) <= Cardinality((P \cup Q) \cup R)
  BY <1>3, <1>8, FS_Subset DEF W
<1>11. Cardinality(W) \in Nat
  BY <1>10, FS_CardinalityType
<1> QED
  BY <1>1, <1>8, <1>9, <1>10, <1>11, Sizes DEF W

\* the log of an itrunc(), its inode included
LEMMA TruncLogSize ==
  ASSUME (FSSIZE \div BPB) + 2 <= MAXOPBLOCKS, NEW x
  PROVE  /\ IsFiniteSet(Bitmaps \cup {x})
         /\ Cardinality(Bitmaps \cup {x}) <= MAXOPBLOCKS
<1> DEFINE g == FSSIZE + 1
           h == FSSIZE \div BPB
<1>1. h \in Nat /\ g \in Nat
  BY Sizes
<1>2. ASSUME NEW b \in Blocks PROVE b \div BPB \in 0..h
  BY Sizes DEF Blocks
<1> HIDE DEF h
<1>3. Bitmaps \subseteq g..(g + h)
  <2>1. \A b \in Blocks : BBLOCK(b) = g + (b \div BPB)
    BY DEF BBLOCK
  <2>2. \A b \in Blocks : BBLOCK(b) \in g..(g + h)
    <3> TAKE b \in Blocks
    <3> DEFINE e == b \div BPB
    <3>1. e \in 0..h /\ BBLOCK(b) = g + e
      BY <1>2, <2>1
    <3> HIDE DEF e, g
    <3> QED
      BY <1>1, <3>1
  <2> QED
    BY <2>2 DEF Bitmaps
<1> HIDE DEF g
<1>4. IsFiniteSet(g..(g + h)) /\ Cardinality(g..(g + h)) = h + 1
  <2>1. g \in Int /\ g + h \in Int /\ ~(g > g + h) /\ (g + h) - g + 1 = h + 1
    BY <1>1
  <2> DEFINE e == g + h
  <2> HIDE DEF e
  <2>2. IsFiniteSet(g..e) /\ Cardinality(g..e) = IF g > e THEN 0 ELSE e - g + 1
    BY <2>1, FS_Interval DEF e
  <2> QED
    BY <2>1, <2>2 DEF e
<1>5. IsFiniteSet(Bitmaps) /\ Cardinality(Bitmaps) <= h + 1
  BY <1>3, <1>4, FS_Subset
<1>6. Cardinality(Bitmaps) \in Nat
  BY <1>5, FS_CardinalityType
<1>7. IsFiniteSet(Bitmaps \cup {x}) /\ Cardinality(Bitmaps \cup {x}) <= Cardinality(Bitmaps) + 1
  <2>1. /\ IsFiniteSet(Bitmaps \cup {x})
        /\ Cardinality(Bitmaps \cup {x}) = IF x \in Bitmaps THEN Cardinality(Bitmaps)
                                                             ELSE Cardinality(Bitmaps) + 1
    BY <1>5, FS_AddElement
  <2> QED
    BY <1>6, <2>1
<1>8. Cardinality(Bitmaps \cup {x}) \in Nat
  BY <1>7, FS_CardinalityType
<1> QED
  BY <1>1, <1>5, <1>6, <1>7, <1>8, Sizes DEF h

\* A piece of filewrite() logs at most MAXOPBLOCKS blocks, its inode included: the data
\* blocks of a piece of max units, those of them that are new in the bitmap, the indirect
\* block and its bitmap block; and so does an itrunc() on a disk whose bitmap is not
\* larger than a transaction.
THEOREM FilesOpFits ==
  ASSUME RootFits, (FSSIZE \div BPB) + 2 <= MAXOPBLOCKS
  PROVE  Spec => []OpFits
<1>1. Inv => OpFits
  <2> SUFFICES ASSUME Inv, NEW p \in Procs
               PROVE  Cardinality(logged[p] \cup {IBLOCK(st[p].f)}) <= MAXOPBLOCKS
    BY DEF OpFits
  <2> DEFINE x == IBLOCK(st[p].f)
             L == logged[p] \cup {x}
  <2> HIDE DEF x
  <2>0. LogsOf(p)
    BY DEF Inv, Logs
  <2>1. ASSUME NEW S, IsFiniteSet(S), Cardinality(S) <= MAXOPBLOCKS, L \subseteq S
        PROVE  Cardinality(L) <= MAXOPBLOCKS
    <3> HIDE DEF L
    <3>1. IsFiniteSet(L) /\ Cardinality(L) <= Cardinality(S)
      BY <2>1, FS_Subset
    <3>2. Cardinality(L) \in Nat /\ Cardinality(S) \in Nat
      BY <2>1, <3>1, FS_CardinalityType
    <3> QED
      BY <2>1, <3>1, <3>2, Sizes
  <2>2. CASE st[p].pc = "itrunc"
    <3>1. L \subseteq Bitmaps \cup {x}
      BY <2>0, <2>2 DEF LogsOf
    <3> HIDE DEF L
    <3>2. Cardinality(L) <= MAXOPBLOCKS
      BY <2>1, <3>1, TruncLogSize
    <3> QED
      BY <3>2 DEF L, x
  <2>3. CASE st[p].pc \in Writing
    <3>1. PICK i \in Files, o \in Nat, n \in Nat : i = st[p].f /\ o = off[p][i] /\ n = st[p].n1
      BY <2>3, ProcType DEF Writing, Working
    <3>2. n <= max
      BY <2>3, <3>1 DEF Inv, Filled, WriteFilled
    <3>3. L \subseteq WriteLog(i, o, n) \cup {x}
      BY <2>0, <2>3, <3>1 DEF LogsOf
    <3> HIDE DEF L
    <3>4. Cardinality(L) <= MAXOPBLOCKS
      BY <2>1, <3>1, <3>2, <3>3, WriteLogSize
    <3> QED
      BY <3>4 DEF L, x
  <2>4. CASE st[p].pc \notin Working
    <3>1. L = {x}
      BY <2>0, <2>4 DEF LogsOf
    <3>2. Cardinality({x}) = 1
      BY FS_Singleton
    <3> HIDE DEF L
    <3>3. Cardinality(L) <= MAXOPBLOCKS
      BY <3>1, <3>2, Sizes
    <3> QED
      BY <3>3 DEF L, x
  <2> QED
    BY <2>2, <2>3, <2>4 DEF Writing, Working
<1> QED
  BY <1>1, FilesInvariance, PTL

-----------------------------------------------------------------------------
(***************************************************************************)
(* The bytes of files: the refinement of ByteFiles.                        *)
(***************************************************************************)
\* the unit at position k of inode i
Byte(i, k) == IF Lookup(i, (k - 1) \div BSIZE) = 0 THEN 0
              ELSE blk[Lookup(i, (k - 1) \div BSIZE)][(k - 1) % BSIZE]

\* what writei() has copied is in the file, beyond its size too
Written(p) ==
  st[p].pc \in Writing =>
    \A k \in Nat : off[p][st[p].f] < k /\ k <= off[p][st[p].f] + st[p].tot =>
      Byte(st[p].f, k) = Data(st[p].f, k)

BytesInv == Inv /\ \A p \in Procs : Written(p)

\* the positions of a file
Pos == {k \in Nat : 0 < k /\ k <= MAXFILE * BSIZE}

\* what a step does to the files: nothing, or one is emptied or written
Rewrites(i) ==
  /\ Len(Content(i)') >= Len(Content(i))
  /\ \A k \in 1..Len(Content(i)') :
       \/ Content(i)'[k] = Data(i, k)
       \/ k <= Len(Content(i)) /\ Content(i)'[k] = Content(i)[k]
ByteStep ==
  \/ \A i \in Files : Content(i)' = Content(i)
  \/ \E i \in Files : /\ \A j \in Files : j # i => Content(j)' = Content(j)
                      /\ Content(i)' = <<>> \/ Rewrites(i)

\* the block and the unit of a position
LEMMA PosIs ==
  ASSUME NEW k \in Pos
  PROVE  /\ k \in Nat /\ k - 1 \in Nat /\ k <= MAXFILE * BSIZE /\ 0 < k
         /\ (k - 1) \div BSIZE \in 0..(MAXFILE - 1) /\ (k - 1) % BSIZE \in Units
         /\ k - 1 = ((k - 1) \div BSIZE) * BSIZE + ((k - 1) % BSIZE)
<1> DEFINE a == k - 1
           M == MAXFILE * BSIZE
<1>1. M \in Nat /\ MAXFILE \in Nat
  BY Sizes
<1>2. k \in Nat /\ 0 < k /\ k <= M
  BY DEF Pos
<1> HIDE DEF M
<1>3. a \in Nat /\ a < M
  BY <1>1, <1>2
<1> HIDE DEF a
<1>4. a \div BSIZE < MAXFILE
  BY <1>1, <1>3, BlockOf DEF M
<1>5. /\ a \div BSIZE \in Nat /\ a % BSIZE \in 0..(BSIZE - 1)
      /\ a = (a \div BSIZE) * BSIZE + (a % BSIZE)
  BY <1>3, Div
<1>6. a \div BSIZE \in 0..(MAXFILE - 1)
  BY <1>1, <1>4, <1>5
<1> QED
  BY <1>2, <1>3, <1>5, <1>6 DEF a, M, Units

\* names are what bmap() finds
LookupIsName ==
  \A i \in Files : Cut(i) = 0 =>
    \A bn \in 0..(MAXFILE - 1) : Lookup(i, bn) = Names[<<i, bn>>]

LEMMA LookupNames == Inv => LookupIsName
BY NameIsLookup DEF LookupIsName

\* the byte at a position by the name of its block
LEMMA ByteAt ==
  ASSUME Inv, NEW i \in Files, Cut(i) = 0, NEW k \in Pos, NEW c, NEW u,
         u = (k - 1) % BSIZE, c = Names[<<i, (k - 1) \div BSIZE>>]
  PROVE  Byte(i, k) = IF c = 0 THEN 0 ELSE blk[c][u]
BY PosIs, LookupNames DEF Byte, LookupIsName

LEMMA ByteAtNext ==
  ASSUME Inv', NEW i \in Files, Cut(i)' = 0, NEW k \in Pos, NEW c, NEW u,
         u = (k - 1) % BSIZE, c = Names'[<<i, (k - 1) \div BSIZE>>]
  PROVE  Byte(i, k)' = IF c = 0 THEN 0 ELSE blk'[c][u]
<1>1. LookupIsName'
  BY LookupNames, PTL
<1>2. \A bn \in 0..(MAXFILE - 1) : Lookup(i, bn)' = Names'[<<i, bn>>]
  BY <1>1 DEF LookupIsName
<1> QED
  BY <1>2, PosIs DEF Byte

\* a step that writes no block
LEMMA SameBytes ==
  ASSUME UNCHANGED <<blk, addrs>>, NEW i, NEW k
  PROVE  Byte(i, k)' = Byte(i, k)
BY DEF Byte, Lookup

\* a step that writes blocks of f, or free ones, only
LEMMA OtherBytes ==
  ASSUME Inv, NEW f \in Files, NEW j \in Files, j # f, Cut(j) = 0, addrs'[j] = addrs[j],
         \A c \in Blocks : blk'[c] # blk[c] =>
           c \notin bitmap \/ \E h \in 0..MAXFILE : Names[<<f, h>>] = c,
         NEW k \in Pos
  PROVE  Byte(j, k)' = Byte(j, k)
<1> DEFINE bn == (k - 1) \div BSIZE
           d == addrs[j][NDIRECT]
<1>1. ASSUME NEW h \in 0..MAXFILE, Names[<<j, h>>] # 0
      PROVE  blk'[Names[<<j, h>>]] = blk[Names[<<j, h>>]]
  <2>1. <<j, h>> \in Dom /\ \A g \in 0..MAXFILE : <<f, g>> \in Dom /\ <<f, g>> # <<j, h>>
    BY NameAt
  <2> DEFINE c == Names[<<j, h>>]
  <2> HIDE DEF Names, Dom
  <2>0. Owned(Names, bitmap) /\ bitmap \subseteq Blocks
    BY DEF Inv, Typed
  <2>2. c \in bitmap /\ c \in Blocks
    BY <1>1, <2>0, <2>1 DEF Owned
  <2>4. ASSUME NEW g \in 0..MAXFILE PROVE Names[<<f, g>>] # c
    BY <1>1, <2>0, <2>1 DEF Owned
  <2> HIDE DEF c
  <2>3. blk'[c] = blk[c]
    BY <2>2, <2>4
  <2> QED
    BY <2>3 DEF c
<1>2. bn \in 0..(MAXFILE - 1) /\ bn \in 0..MAXFILE /\ MAXFILE \in 0..MAXFILE
  BY PosIs, DataPlaces
<1>3. d = Names[<<j, MAXFILE>>] /\ Lookup(j, bn) = Names[<<j, bn>>]
  BY <1>2, NameIsLookup
<1> HIDE DEF bn, Names
<1>4. d # 0 => blk'[d] = blk[d]
  BY <1>1, <1>2, <1>3
<1>5. Lookup(j, bn)' = Lookup(j, bn)
  BY <1>4 DEF Lookup, d
<1>6. Lookup(j, bn) # 0 => blk'[Lookup(j, bn)] = blk[Lookup(j, bn)]
  BY <1>1, <1>2, <1>3
<1> QED
  BY <1>5, <1>6 DEF Byte, bn

\* a process keeps what it has written if the bytes of its file stay
LEMMA KeepWritten ==
  ASSUME Inv, NEW q \in Procs, Written(q), st'[q] = st[q], off'[q] = off[q],
         NEW f, f = st[q].f, st[q].pc \in Writing => \A k \in Pos : Byte(f, k)' = Byte(f, k)
  PROVE  Written(q)'
<1> SUFFICES ASSUME st[q].pc \in Writing, NEW k \in Nat, off[q][f] < k, k <= off[q][f] + st[q].tot
             PROVE  Byte(f, k)' = Data(f, k)
  BY DEF Written, Data
<1>1. Byte(f, k) = Data(f, k)
  BY DEF Written
<1>2. k \in Pos
  <2> DEFINE M == MAXFILE * BSIZE
  <2>1. f \in Files /\ off[q][f] \in Nat /\ st[q].tot \in Nat /\ st[q].n1 \in Nat /\ M \in Nat
    BY ProcType, Sizes DEF Writing, Working
  <2>2. off[q][f] + st[q].n1 <= M /\ st[q].tot <= st[q].n1
    BY DEF Inv, Filled, WriteFilled
  <2> HIDE DEF M
  <2>3. 0 < k /\ k <= M
    BY <2>1, <2>2
  <2> QED
    BY <2>3 DEF Pos, M
<1> QED
  BY <1>1, <1>2

\* a reader sees the same in a file whose size and bytes stay
LEMMA SameContent ==
  ASSUME Inv, NEW i \in Files, Truncating(i)' <=> Truncating(i),
         ~Truncating(i) => size'[i] = size[i] /\ \A k \in Pos : Byte(i, k)' = Byte(i, k)
  PROVE  Content(i)' = Content(i)
<1>1. CASE Truncating(i)
  BY <1>1 DEF Content
<1>2. CASE ~Truncating(i)
  <2>1. Content(i) = [k \in 1..size[i] |-> Byte(i, k)]
    BY <1>2 DEF Content, Byte
  <2>2. Content(i)' = [k \in 1..size[i] |-> Byte(i, k)']
    BY <1>2 DEF Content, Byte
  <2>3. ASSUME NEW k \in 1..size[i] PROVE k \in Pos
    <3> DEFINE M == MAXFILE * BSIZE
    <3>1. size[i] \in Nat /\ size[i] <= M /\ M \in Nat
      BY SizeType
    <3> HIDE DEF M
    <3>2. k \in Nat /\ 0 < k /\ k <= M
      BY <3>1
    <3> QED
      BY <3>2 DEF Pos, M
  <2>4. \A k \in 1..size[i] : Byte(i, k)' = Byte(i, k)
    BY <1>2, <2>3
  <2> QED
    BY <2>1, <2>2, <2>4
<1> QED
  BY <1>1, <1>2

\* truncations of other files when p goes to s on inode i
LEMMA TruncatingStep ==
  ASSUME NEW p \in Procs, NEW i, NEW s, \A q \in Procs : st'[q] = IF q = p THEN s ELSE st[q],
         s.pc = "itrunc" => s.f = i, st[p].pc = "itrunc" => st[p].f = i
  PROVE  /\ \A j : j # i => (Truncating(j)' <=> Truncating(j))
         /\ s.pc = "itrunc" => Truncating(i)'
         /\ s.pc = "itrunc" /\ st[p].pc = "itrunc" => (Truncating(i)' <=> Truncating(i))
         /\ s.pc # "itrunc" /\ st[p].pc # "itrunc" => (Truncating(i)' <=> Truncating(i))
BY DEF Truncating

\* a step that leaves blocks and sizes alone
LEMMA QuietStep ==
  ASSUME BytesInv, NEW p \in Procs, NEW s, st' = [st EXCEPT ![p] = s],
         UNCHANGED <<blk, addrs, size>>, \A q \in Procs \ {p} : off'[q] = off[q],
         s.pc # "itrunc", st[p].pc # "itrunc", s.pc \in Writing => s.tot = 0 /\ off'[p][s.f] \in Nat
  PROVE  (\A q \in Procs : Written(q)') /\ ByteStep
<1>1. \A q \in Procs : st'[q] = IF q = p THEN s ELSE st[q]
  BY DEF BytesInv, Inv, Typed
<1>2. ASSUME NEW q \in Procs PROVE Written(q)'
  <2>1. CASE q = p
    <3>1. st'[q] = s
      BY <1>1, <2>1
    <3>2. ASSUME NEW k \in Nat, s.pc \in Writing, off'[q][s.f] < k, k <= off'[q][s.f] + s.tot PROVE FALSE
      BY <2>1, <3>2
    <3> QED
      BY <3>1, <3>2 DEF Written
  <2>2. CASE q # p
    BY <1>1, <2>2, SameBytes, KeepWritten DEF BytesInv
  <2> QED
    BY <2>1, <2>2
<1>3. \A i \in Files : Truncating(i)' <=> Truncating(i)
  BY <1>1 DEF Truncating
<1>4. \A i \in Files : Content(i)' = Content(i)
  BY <1>3, SameBytes, SameContent DEF BytesInv
<1> QED
  BY <1>2, <1>4 DEF ByteStep

\* sys_open(): with O_TRUNC the file is empty from now on
LEMMA OpenBytes ==
  ASSUME BytesInv, NEW p \in Procs, NEW i \in Files, NEW trunc \in BOOLEAN, sys_open(p, i, trunc)
  PROVE  (\A q \in Procs : Written(q)') /\ ByteStep
<1>1. /\ st[p].pc = "user" /\ UNCHANGED <<blk, addrs, size>>
      /\ \A q \in Procs \ {p} : off'[q] = off[q] /\ off \in [Procs -> [Files -> Nat]]
      /\ st \in [Procs -> [pc : Working \cup {"user", "filewrite"}, f : Nat, n : Nat, n1 : Nat, tot : Nat]]
  BY DEF sys_open, At, BytesInv, Inv, Typed
<1>2. CASE ~trunc
  <2>1. st' = [st EXCEPT ![p] = st[p]]
    BY <1>1, <1>2 DEF sys_open
  <2> QED
    BY <1>1, <2>1, QuietStep DEF Writing
<1>3. CASE trunc
  <2> DEFINE s == [Idle EXCEPT !.pc = "itrunc", !.f = i]
  <2>1. s.pc = "itrunc" /\ s.f = i /\ st' = [st EXCEPT ![p] = s]
    BY <1>3 DEF sys_open, Goto, Idle
  <2> HIDE DEF s
  <2>2. \A q \in Procs : st'[q] = IF q = p THEN s ELSE st[q]
    BY <1>1, <2>1
  <2>3. ASSUME NEW q \in Procs PROVE Written(q)'
    <3>1. CASE q = p
      BY <2>1, <2>2, <3>1 DEF Written, Writing
    <3>2. CASE q # p
      BY <1>1, <2>2, <3>2, SameBytes, KeepWritten DEF BytesInv
    <3> QED
      BY <3>1, <3>2
  <2>4. Truncating(i)' /\ \A j : j # i => (Truncating(j)' <=> Truncating(j))
    BY <1>1, <2>1, <2>2, TruncatingStep
  <2>5. \A j \in Files : j # i => Content(j)' = Content(j)
    BY <1>1, <2>4, SameBytes, SameContent DEF BytesInv
  <2>6. Content(i)' = <<>>
    BY <2>4 DEF Content
  <2> QED
    BY <2>3, <2>5, <2>6 DEF ByteStep
<1> QED
  BY <1>2, <1>3

\* fileread() moves the offset of a process that does not write
LEMMA ReadBytes ==
  ASSUME BytesInv, NEW p \in Procs, NEW f \in Files, NEW n \in Nat, fileread(p, f, n)
  PROVE  (\A q \in Procs : Written(q)') /\ ByteStep
<1>1. /\ st[p].pc = "user" /\ UNCHANGED <<blk, addrs, size, st>>
      /\ \A q \in Procs \ {p} : off'[q] = off[q]
      /\ st \in [Procs -> [pc : Working \cup {"user", "filewrite"}, f : Nat, n : Nat, n1 : Nat, tot : Nat]]
  BY DEF fileread, At, BytesInv, Inv, Typed
<1>2. st' = [st EXCEPT ![p] = st[p]]
  BY <1>1
<1> QED
  BY <1>1, <1>2, QuietStep DEF Writing

\* a turn of filewrite()'s loop begins with nothing written
LEMMA TurnBytes ==
  ASSUME BytesInv, NEW p \in Procs, NEW f \in Files, NEW n \in Nat, Turn(p, f, n),
         st[p].pc \in {"user", "filewrite"}
  PROVE  (\A q \in Procs : Written(q)') /\ ByteStep
<1> DEFINE s == IF OutOfRange(p, f, min(n, max)) THEN Idle
                ELSE [pc |-> "writei", f |-> f, n |-> n, n1 |-> min(n, max), tot |-> 0]
<1>1. /\ UNCHANGED <<blk, addrs, size, off>> /\ off \in [Procs -> [Files -> Nat]]
      /\ st[p].pc # "itrunc"
  BY DEF Turn, BytesInv, Inv, Typed
<1>2. st' = [st EXCEPT ![p] = s]
  BY DEF Turn, Goto
<1>3. s.pc # "itrunc" /\ (s.pc \in Writing => s.tot = 0 /\ s.f = f)
  BY DEF Idle, Writing
<1> HIDE DEF s
<1> QED
  BY <1>1, <1>2, <1>3, QuietStep

\* one bfree() of itrunc() takes a block of the file that is truncated
LEMMA TruncBytes ==
  ASSUME BytesInv, NEW p \in Procs, itrunc(p)
  PROVE  (\A q \in Procs : Written(q)') /\ ByteStep
<1>1. st[p].pc = "itrunc" /\ st[p].pc \in Working
  BY DEF itrunc, At, Working
<1>2. PICK f \in Files, k \in 0..MAXFILE : f = st[p].f /\ k = st[p].tot
  <2>1. st[p].f \in Files /\ st[p].tot \in Nat
    BY <1>1, ProcType DEF BytesInv
  <2>2. st[p].tot <= MAXFILE
    BY DEF itrunc, bfree_panics
  <2>3. st[p].tot \in 0..MAXFILE
    BY <2>1, <2>2, Sizes
  <2> QED
    BY <2>1, <2>3
<1>3. lock[f] = p /\ Cut(f) = k /\ k \in Nat
  <2>1. lock[f] = p
    BY <1>1, <1>2, ProcType DEF BytesInv
  <2> QED
    BY <1>1, <1>2, <2>1, Sizes DEF Cut
<1>4. PICK b : b = TruncBlock(f, k) /\ Names[<<f, k>>] = b /\ b \in bitmap \cup {0}
  <2>1. Names[<<f, k>>] = TruncBlock(f, k) /\ <<f, k>> \in Dom
    <3>1. ~(k < k)
      BY <1>3
    <3> QED
      BY <1>3, <3>1, NameAt DEF Name
  <2> HIDE DEF Names, Dom
  <2> QED
    BY <2>1 DEF BytesInv, Inv, Owned
<1>5. /\ \A j \in Files : j # f => addrs'[j] = addrs[j]
      /\ \A c \in Blocks : blk'[c] # blk[c] => Names[<<f, k>>] = c
      /\ st' = [st EXCEPT ![p].tot = k + 1]
      /\ UNCHANGED <<size, off>>
  <2>1. /\ addrs' = IF k < NDIRECT THEN [addrs EXCEPT ![f][k] = 0]
                    ELSE IF k = MAXFILE THEN [addrs EXCEPT ![f][NDIRECT] = 0]
                    ELSE addrs
        /\ st' = [st EXCEPT ![p].tot = k + 1]
        /\ blk' = IF b = 0 THEN blk ELSE [blk EXCEPT ![b] = Junk]
        /\ UNCHANGED <<size, off>>
    BY <1>2, <1>4 DEF itrunc, bfree_panics
  <2>2. addrs \in [Files -> [0..NDIRECT -> 0..FSSIZE]] /\ blk \in [Blocks -> [Units -> Int]]
    BY DEF BytesInv, Inv, Typed
  <2> HIDE DEF Names
  <2> QED
    BY <1>4, <2>1, <2>2
<1> DEFINE s == [st[p] EXCEPT !.tot = k + 1]
<1>6. s.pc = "itrunc" /\ s.f = f /\ \A q \in Procs : st'[q] = IF q = p THEN s ELSE st[q]
  <2>1. /\ st[p] \in [pc : Working \cup {"user", "filewrite"}, f : Nat, n : Nat, n1 : Nat, tot : Nat]
        /\ DOMAIN st = Procs
    BY DEF BytesInv, Inv, Typed
  <2> QED
    BY <1>1, <1>2, <1>5, <2>1
<1> HIDE DEF s
<1>7. /\ Truncating(f) /\ Truncating(f)'
      /\ \A j : j # f => (Truncating(j)' <=> Truncating(j))
  <2>1. Truncating(f)
    BY <1>1, <1>2 DEF Truncating
  <2> QED
    BY <1>1, <1>2, <1>6, <2>1, TruncatingStep
<1>8. ASSUME NEW j \in Files, j # f, ~Truncating(j), NEW h \in Pos
      PROVE  Byte(j, h)' = Byte(j, h)
  <2>1. Cut(j) = 0
    BY <1>8, CutIs DEF BytesInv, Cut
  <2> HIDE DEF Names, Cut
  <2> QED
    BY <1>5, <1>8, <2>1, OtherBytes DEF BytesInv
<1>9. ASSUME NEW q \in Procs PROVE Written(q)'
  <2>1. CASE q = p
    BY <1>6, <2>1 DEF Written, Writing
  <2>2. CASE q # p
    <3>1. ASSUME st[q].pc \in Writing
          PROVE  st[q].f \in Files /\ st[q].f # f /\ ~Truncating(st[q].f)
      <4>1. st[q].f # f /\ st[q].f \in Files /\ lock[st[q].f] = q
        BY <1>1, <1>2, <2>2, <3>1, OtherFile, ProcType DEF BytesInv, Writing, Working
      <4>2. st[q].pc # "itrunc"
        BY <3>1 DEF Writing
      <4> QED
        BY <4>1, <4>2, CutIs DEF BytesInv
    <3>2. PICK j : j = st[q].f
      OBVIOUS
    <3>3. st[q].pc \in Writing => \A h \in Pos : Byte(j, h)' = Byte(j, h)
      BY <1>8, <3>1, <3>2
    <3> QED
      BY <1>5, <1>6, <2>2, <3>2, <3>3, KeepWritten DEF BytesInv
  <2> QED
    BY <2>1, <2>2
<1>10. \A i \in Files : Content(i)' = Content(i)
  <2> TAKE i \in Files
  <2>1. CASE i = f
    BY <1>7, <2>1 DEF Content
  <2>2. CASE i # f
    BY <1>5, <1>7, <1>8, <2>2, SameContent DEF BytesInv
  <2> QED
    BY <2>1, <2>2
<1> QED
  BY <1>9, <1>10 DEF ByteStep

\* itrunc_end(): the size is 0 now, as the file has been to a reader since it was opened
LEMMA TruncEndBytes ==
  ASSUME BytesInv, NEW p \in Procs, itrunc_end(p)
  PROVE  (\A q \in Procs : Written(q)') /\ ByteStep
<1>1. st[p].pc = "itrunc" /\ st[p].pc \in Working
  BY DEF itrunc_end, At, Working
<1>2. PICK f \in Files : f = st[p].f /\ lock[f] = p
  BY <1>1, ProcType DEF BytesInv
<1>3. /\ \A j \in Files : size'[j] = IF j = f THEN 0 ELSE size[j]
      /\ st' = [st EXCEPT ![p] = Idle] /\ UNCHANGED <<blk, addrs, off>>
  BY <1>2 DEF itrunc_end, Goto, BytesInv, Inv, Typed
<1>4. Idle.pc = "user" /\ \A q \in Procs : st'[q] = IF q = p THEN Idle ELSE st[q]
  BY <1>3 DEF Idle, BytesInv, Inv, Typed
<1>5. /\ Truncating(f) /\ ~Truncating(f)'
      /\ \A j : j # f => (Truncating(j)' <=> Truncating(j))
  <2>1. Truncating(f)
    BY <1>1, <1>2 DEF Truncating
  <2>2. ASSUME NEW q \in Procs, q # p, st[q].pc = "itrunc" PROVE st[q].f # f
    BY <1>1, <1>2, <2>2, OtherFile DEF BytesInv, Working
  <2>3. ~Truncating(f)'
    BY <1>4, <2>2 DEF Truncating
  <2> QED
    BY <1>1, <1>2, <1>4, <2>1, <2>3, TruncatingStep
<1>6. ASSUME NEW q \in Procs PROVE Written(q)'
  <2>1. CASE q = p
    BY <1>4, <2>1 DEF Written, Writing
  <2>2. CASE q # p
    BY <1>3, <1>4, <2>2, SameBytes, KeepWritten DEF BytesInv
  <2> QED
    BY <2>1, <2>2
<1>7. \A i \in Files : Content(i)' = Content(i)
  <2> TAKE i \in Files
  <2>1. CASE i = f
    <3>1. Content(f) = <<>>
      BY <1>5 DEF Content
    <3>2. Content(f)' = [k \in 1..0 |-> Byte(f, k)']
      BY <1>3, <1>5 DEF Content, Byte
    <3>3. [k \in 1..0 |-> Byte(f, k)'] = <<>>
      OBVIOUS
    <3> QED
      BY <2>1, <3>1, <3>2, <3>3
  <2>2. CASE i # f
    BY <1>3, <1>5, <2>2, SameBytes, SameContent DEF BytesInv
  <2> QED
    BY <2>1, <2>2
<1> QED
  BY <1>6, <1>7 DEF ByteStep

\* what a file holds that is not truncated
LEMMA ContentIs ==
  ASSUME NEW i, ~Truncating(i), size[i] \in Nat
  PROVE  /\ Len(Content(i)) = size[i]
         /\ \A k \in 1..size[i] : Content(i)[k] = Byte(i, k)
<1>1. Content(i) = [k \in 1..size[i] |-> Byte(i, k)]
  BY DEF Content, Byte
<1> HIDE DEF Content
<1> QED
  BY <1>1

LEMMA ContentIsNext ==
  ASSUME NEW i, ~Truncating(i)', size'[i] \in Nat
  PROVE  /\ Len(Content(i)') = size'[i]
         /\ \A k \in 1..size'[i] : Content(i)'[k] = Byte(i, k)'
<1>1. Content(i)' = [k \in 1..size'[i] |-> Byte(i, k)']
  BY DEF Content, Byte
<1> HIDE DEF Content
<1> QED
  BY <1>1

\* writei_end(): the size grows over what was written
LEMMA WriteEndBytes ==
  ASSUME BytesInv, NEW p \in Procs, writei_end(p)
  PROVE  (\A q \in Procs : Written(q)') /\ ByteStep
<1>1. st[p].pc \in Writing /\ st[p].pc \in Working /\ st[p].pc # "itrunc"
  BY DEF writei_end, At, Writing, Working
<1>2. PICK f \in Files, o \in Nat, t \in Nat, z \in Nat :
        f = st[p].f /\ lock[f] = p /\ o = off[p][f] /\ t = st[p].tot /\ z = size[f]
  BY <1>1, ProcType, SizeType DEF BytesInv
<1>3. o <= z
  BY <1>1, <1>2 DEF BytesInv, Inv, Filled, WriteFilled
<1> DEFINE e == IF o + t > z THEN o + t ELSE z
           s == IF st[p].n = st[p].n1 THEN Idle
                ELSE [Idle EXCEPT !.pc = "filewrite", !.f = f, !.n = st[p].n - st[p].n1]
<1>4. e \in Nat /\ e >= z /\ \A k \in 1..e : k \in 1..z \/ (o < k /\ k <= o + t)
  BY <1>3
<1>5. s.pc # "itrunc" /\ s.pc \notin Writing
  BY DEF Idle, Writing
<1> HIDE DEF e, s
<1>6. /\ \A j \in Files : size'[j] = IF j = f THEN e ELSE size[j]
      /\ \A q \in Procs : st'[q] = IF q = p THEN s ELSE st[q]
      /\ UNCHANGED <<blk, addrs>> /\ \A q \in Procs \ {p} : off'[q] = off[q]
  BY <1>2 DEF writei_end, Goto, BytesInv, Inv, Typed, e, s
<1>7. /\ \A j \in Files : Truncating(j)' <=> Truncating(j)
      /\ ~Truncating(f)
  <2>1. ~Truncating(f)
    BY <1>1, <1>2, CutIs DEF BytesInv
  <2> QED
    BY <1>1, <1>5, <1>6, <2>1 DEF Truncating
<1>8. ASSUME NEW q \in Procs PROVE Written(q)'
  <2>1. CASE q = p
    BY <1>5, <1>6, <2>1 DEF Written
  <2>2. CASE q # p
    BY <1>6, <2>2, SameBytes, KeepWritten DEF BytesInv
  <2> QED
    BY <2>1, <2>2
<1>9. \A j \in Files : j # f => Content(j)' = Content(j)
  BY <1>6, <1>7, SameBytes, SameContent DEF BytesInv
<1>10. Rewrites(f)
  <2>1. /\ Len(Content(f)) = z /\ Len(Content(f)') = e
        /\ \A k \in 1..z : Content(f)[k] = Byte(f, k)
        /\ \A k \in 1..e : Content(f)'[k] = Byte(f, k)'
    BY <1>2, <1>4, <1>6, <1>7, ContentIs, ContentIsNext
  <2>2. \A k : Byte(f, k)' = Byte(f, k)
    BY <1>6, SameBytes
  <2>3. \A k \in Nat : o < k /\ k <= o + t => Byte(f, k) = Data(f, k)
    BY <1>1, <1>2 DEF BytesInv, Written
  <2> HIDE DEF Content, Byte
  <2>4. ASSUME NEW k \in 1..e
        PROVE  \/ Content(f)'[k] = Data(f, k)
               \/ k <= z /\ Content(f)'[k] = Content(f)[k]
    <3>1. CASE k \in 1..z
      BY <1>4, <2>1, <2>2, <3>1
    <3>2. CASE o < k /\ k <= o + t
      BY <1>4, <2>1, <2>2, <2>3, <3>2
    <3> QED
      BY <1>4, <3>1, <3>2
  <2> QED
    BY <1>4, <2>1, <2>4 DEF Rewrites
<1> QED
  BY <1>8, <1>9, <1>10 DEF ByteStep

\* bmap() and the copy change blocks of the file, and free blocks
LEMMA WriteBlocks ==
  ASSUME Inv, NEW f \in Files, NEW bn \in 0..(MAXFILE - 1),
         NEW addr \in Blocks, NEW ind \in 0..FSSIZE, NEW new \in SUBSET (Blocks \ bitmap),
         Bmaps(f, bn, addr, ind, new),
         \A c \in Blocks : c # addr => blk'[c] = bmap(f, bn).blk[c],
         NEW c \in Blocks, blk'[c] # blk[c]
  PROVE  c \notin bitmap \/ \E h \in 0..MAXFILE : Names[<<f, h>>] = c
<1>1. bn \in 0..MAXFILE /\ MAXFILE \in 0..MAXFILE
  BY DataPlaces
<1>2. Given(f, bn, addr, ind, new) /\ \A x \in Blocks \ new : x # ind => bmap(f, bn).blk[x] = blk[x]
  BY DEF Bmaps
<1>3. addr \in new \/ addr = Names[<<f, bn>>]
  BY <1>2 DEF Given
<1>4. ind \in new \/ ind = Names[<<f, MAXFILE>>]
  BY <1>2 DEF Given
<1>5. c \in new \/ c = addr \/ c = ind
  BY <1>2
<1> HIDE DEF Names
<1> QED
  BY <1>1, <1>3, <1>4, <1>5

\* where the unit u of block bn is, seen from a in the same block
LEMMA UnitPos ==
  ASSUME NEW bn \in Nat, NEW a \in Nat, bn = a \div BSIZE, NEW k \in Pos, NEW m \in Nat
  PROVE  LET r == a % BSIZE
             u == (k - 1) % BSIZE
         IN  /\ (k - 1) \div BSIZE = bn =>
                  /\ a + 1 + u - r = k
                  /\ u >= r /\ u < r + m <=> a < k /\ k <= a + m
             /\ a < k /\ k <= a + m /\ a + m <= bn * BSIZE + BSIZE => (k - 1) \div BSIZE = bn
<1> DEFINE r == a % BSIZE
           e == k - 1
           u == e % BSIZE
           c == e \div BSIZE
           x == bn * BSIZE
<1>1. /\ r \in Nat /\ a = x + r /\ x \in Nat
  BY Div, Times
<1>2. e \in Nat /\ u \in Nat /\ c \in Nat /\ e = c * BSIZE + u /\ k = e + 1
  BY PosIs, Div
<1>3. ASSUME c = bn PROVE a + 1 + u - r = k /\ (u >= r /\ u < r + m <=> a < k /\ k <= a + m)
  <2>1. e = x + u
    BY <1>2, <1>3
  <2> HIDE DEF e, x, u, r, c
  <2> QED
    BY <1>1, <1>2, <2>1
<1>4. ASSUME a < k, k <= a + m, a + m <= x + BSIZE PROVE c = bn
  <2>1. (bn + 1) * BSIZE = x + BSIZE /\ bn + 1 \in Nat
    BY Sizes
  <2>2. x <= e /\ e < x + BSIZE
    <3> HIDE DEF e, x, u, r, c
    <3> QED
      BY <1>1, <1>2, <1>4, Sizes
  <2>3. bn <= c
    BY <1>2, <2>2, BlockOf
  <2>4. c < bn + 1
    BY <1>2, <2>1, <2>2, BlockOf
  <2> HIDE DEF c
  <2> QED
    BY <1>2, <2>3, <2>4
<1> QED
  BY <1>3, <1>4

\* every unit of the file is as it was, or the byte written to its place
LEMMA WriteUnits ==
  ASSUME Inv, Inv', NEW f \in Files, NEW bn \in 0..(MAXFILE - 1), Cut(f) = 0, Cut(f)' = 0,
         NEW addr \in Blocks, NEW ind \in 0..FSSIZE, NEW new \in SUBSET (Blocks \ bitmap),
         Bmaps(f, bn, addr, ind, new), Names' = Mapped(f, bn, addr, ind), bitmap' = bitmap \cup new,
         NEW a \in Nat, bn = a \div BSIZE, NEW m \in Nat,
         \A c \in Blocks : c # addr => blk'[c] = bmap(f, bn).blk[c],
         \A u \in Units : blk'[addr][u] = IF u >= (a % BSIZE) /\ u < (a % BSIZE) + m
                                          THEN Data(f, a + 1 + u - (a % BSIZE))
                                          ELSE bmap(f, bn).blk[addr][u],
         NEW k \in Pos
  PROVE  /\ Byte(f, k)' = Data(f, k) \/ Byte(f, k)' = Byte(f, k)
         /\ a < k /\ k <= a + m /\ a + m <= bn * BSIZE + BSIZE => Byte(f, k)' = Data(f, k)
<1> DEFINE r == a % BSIZE
           u == (k - 1) % BSIZE
           e == (k - 1) \div BSIZE
           b == bmap(f, bn)
           x == bn * BSIZE
<1>1. bn \in Nat /\ e \in 0..(MAXFILE - 1) /\ u \in Units /\ e \in 0..MAXFILE /\ e # MAXFILE
  BY PosIs, DataPlaces, Sizes
<1>2. /\ e = bn => a + 1 + u - r = k /\ (u >= r /\ u < r + m <=> a < k /\ k <= a + m)
      /\ a < k /\ k <= a + m /\ a + m <= x + BSIZE => e = bn
  BY <1>1, UnitPos
<1>3. PICK c, d : c = Names[<<f, e>>] /\ d = Names'[<<f, e>>]
  OBVIOUS
<1>4. /\ Byte(f, k) = IF c = 0 THEN 0 ELSE blk[c][u]
      /\ Byte(f, k)' = IF d = 0 THEN 0 ELSE blk'[d][u]
  BY <1>3, ByteAt, ByteAtNext
<1>5. /\ Given(f, bn, addr, ind, new)
      /\ \A y \in Blocks \ new : y # ind => b.blk[y] = blk[y]
      /\ addr \in new => \A v \in Units : b.blk[addr][v] = 0
  BY DEF Bmaps
<1>6. /\ Names'[<<f, bn>>] = addr /\ Names'[<<f, MAXFILE>>] = ind
      /\ <<f, e>> \in Dom /\ <<f, bn>> \in Dom /\ <<f, MAXFILE>> \in Dom
      /\ e # bn => Names'[<<f, e>>] = Names[<<f, e>>]
  BY <1>1, MappedAt, NameAt
<1>7. Owned(Mapped(f, bn, addr, ind), bitmap \cup new)
  BY <1>5, MappedOwned
<1>8. addr # ind
  <2> HIDE DEF Names, Dom, Mapped
  <2> QED
    BY <1>6, <1>7, Sizes DEF Owned
<1>9. /\ addr \in new => Names[<<f, bn>>] = 0
      /\ addr \notin new => Names[<<f, bn>>] = addr
  <2> DEFINE w == Names[<<f, bn>>]
             v == Names[<<f, MAXFILE>>]
  <2>1. \/ new = {} /\ addr = w
        \/ new = {addr} /\ w = 0
        \/ new = {addr, ind} /\ w = 0
    <3>1. \/ new = {} /\ addr = w /\ ind = v /\ w # 0
          \/ new = {addr} /\ w = 0 /\ ind = v
          \/ new = {addr, ind} /\ addr # ind /\ w = 0 /\ v = 0
      BY <1>5 DEF Given
    <3> HIDE DEF w, v
    <3> QED
      BY <3>1
  <2> HIDE DEF w, v
  <2>2. (addr \in new => w = 0) /\ (addr \notin new => w = addr)
    BY <2>1
  <2> QED
    BY <2>2 DEF w
<1> HIDE DEF r, u, e, b, x, Names, Dom, Mapped, Byte, Data
<1>10. CASE e = bn
  <2>1. d = addr /\ addr # 0 /\ c = Names[<<f, bn>>]
    BY <1>3, <1>6, <1>10, Sizes
  <2>2. blk'[addr][u] = IF u >= r /\ u < r + m THEN Data(f, a + 1 + u - r) ELSE b.blk[addr][u]
    BY <1>1 DEF r, b
  <2>3. CASE u >= r /\ u < r + m
    <3>1. Byte(f, k)' = Data(f, k)
      BY <1>2, <1>4, <1>10, <2>1, <2>2, <2>3
    <3> QED
      BY <3>1
  <2>4. CASE ~(u >= r /\ u < r + m)
    <3>1. Byte(f, k)' = b.blk[addr][u]
      BY <1>4, <2>1, <2>2, <2>4
    <3>2. CASE addr \in new
      BY <1>1, <1>2, <1>4, <1>5, <1>9, <1>10, <2>1, <2>4, <3>1, <3>2
    <3>3. CASE addr \notin new
      BY <1>1, <1>2, <1>4, <1>5, <1>8, <1>9, <1>10, <2>1, <2>4, <3>1, <3>3
    <3> QED
      BY <3>2, <3>3
  <2> QED
    BY <2>3, <2>4
<1>11. CASE e # bn
  <2>1. d = c
    BY <1>3, <1>6, <1>11
  <2>2. ASSUME c # 0 PROVE blk'[c] = blk[c]
    <3>1. c \in bitmap /\ c \in Blocks /\ c \notin new
      BY <1>3, <1>6, <2>2 DEF Inv, Typed, Owned
    <3>2. c # addr /\ c # ind
      <4>1. <<f, e>> # <<f, bn>> /\ <<f, e>> # <<f, MAXFILE>>
        BY <1>1, <1>11
      <4> QED
        BY <1>3, <1>6, <1>7, <2>1, <2>2, <4>1 DEF Owned
    <3> QED
      BY <1>5, <3>1, <3>2 DEF b
  <2>3. Byte(f, k)' = Byte(f, k)
    BY <1>4, <2>1, <2>2
  <2> QED
    BY <1>2, <1>11, <2>3 DEF x
<1> QED
  BY <1>10, <1>11

\* a turn of writei()'s loop
LEMMA WriteBytes ==
  ASSUME BytesInv, Inv', NEW p \in Procs, writei(p)
  PROVE  (\A q \in Procs : Written(q)') /\ ByteStep
<1> DEFINE M == MAXFILE * BSIZE
<1>1. /\ st[p].pc = "writei" /\ st[p].pc \in Writing /\ st[p].pc \in Working /\ Inv
  BY DEF writei, At, Writing, Working, BytesInv
<1>2. PICK f \in Files, n1 \in Nat, t \in Nat, o \in Nat :
        f = st[p].f /\ n1 = st[p].n1 /\ t = st[p].tot /\ o = off[p][f] /\ lock[f] = p
  BY <1>1, ProcType
<1>3. o + n1 <= M /\ t < n1 /\ M \in Nat /\ Cut(f) = 0
  <2>1. o + n1 <= M /\ t < n1
    BY <1>1, <1>2 DEF Inv, Filled, WriteFilled, writei
  <2> QED
    BY <1>1, <1>2, <2>1, Sizes DEF Cut
<1> DEFINE a == o + t
           bn == a \div BSIZE
           r == a % BSIZE
           m == min(n1 - t, BSIZE - r)
           b == bmap(f, bn)
<1>4. a \in Nat /\ bn \in 0..(MAXFILE - 1) /\ bn * BSIZE <= a /\ a < bn * BSIZE + BSIZE
  <2>1. a \in Nat /\ o + n1 <= MAXFILE * BSIZE
    BY <1>3
  <2>2. bn \in 0..(MAXFILE - 1) /\ bn * BSIZE <= a /\ a < bn * BSIZE + BSIZE
    BY <1>3, <2>1, PlaceInWrite
  <2> QED
    BY <2>1, <2>2
<1>5. CASE b.panics
  <2>1. UNCHANGED <<blk, addrs, size, off, st>>
    BY <1>2, <1>5 DEF writei, panic
  <2>2. \A q \in Procs : Written(q)'
    BY <1>1, <2>1, SameBytes, KeepWritten DEF BytesInv
  <2>3. \A i \in Files : Truncating(i)' <=> Truncating(i)
    BY <2>1 DEF Truncating
  <2>4. \A i \in Files : Content(i)' = Content(i)
    BY <1>1, <2>1, <2>3, SameBytes, SameContent
  <2> QED
    BY <2>2, <2>4 DEF ByteStep
<1>6. CASE ~b.panics
  <2> DEFINE y == off[p][st[p].f] + st[p].tot
  <2>1. PICK k \in Copied(m) :
          /\ bitmap' = b.bitmap
          /\ addrs' = b.addrs
          /\ blk' = [b.blk EXCEPT ![b.addr] =
                       [u \in Units |-> IF u >= (y % BSIZE) /\ u < (y % BSIZE) + k
                                        THEN Data(st[p].f, y + 1 + u - (y % BSIZE))
                                        ELSE @[u]]]
          /\ st' = [st EXCEPT ![p] = IF k = m THEN [st[p] EXCEPT !.tot = st[p].tot + m]
                                     ELSE [st[p] EXCEPT !.pc = "writei_end"]]
          /\ UNCHANGED <<size, off, lock>>
    <3>1. bmap(st[p].f, y \div BSIZE) = b /\ min(st[p].n1 - st[p].tot, BSIZE - (y % BSIZE)) = m
      BY <1>2
    <3> HIDE DEF b, m
    <3> QED
      BY <1>6, <3>1 DEF writei, Goto
  <2>2. PICK addr \in Blocks, ind \in 0..FSSIZE, new \in SUBSET (Blocks \ bitmap) :
          Bmaps(f, bn, addr, ind, new)
    BY <1>1, <1>3, <1>4, <1>6, BmapIs
  <2>3. /\ b.addr = addr /\ b.bitmap = bitmap \cup new /\ b.blk \in [Blocks -> [Units -> Int]]
        /\ b.addrs = [addrs EXCEPT ![f] = [j \in 0..NDIRECT |->
             IF j = NDIRECT THEN ind ELSE IF j = bn THEN addr ELSE addrs[f][j]]]
    BY <2>2 DEF Bmaps
  <2>4. m \in Nat /\ a + m <= bn * BSIZE + BSIZE /\ r \in Nat
    <3>1. r \in 0..(BSIZE - 1) /\ a = bn * BSIZE + r
      BY <1>4, Div
    <3>2. bn * BSIZE \in Nat
      BY <1>4, DataPlaces, Times
    <3> DEFINE x == bn * BSIZE
    <3> HIDE DEF r, x, a, bn
    <3> QED
      BY <1>3, <1>4, <3>1, <3>2, Sizes DEF min, x
  <2>5. k \in Nat
    <3> HIDE DEF m
    <3> QED
      BY <2>4 DEF Copied
  <2> DEFINE s == IF k = m THEN [st[p] EXCEPT !.tot = st[p].tot + m]
                  ELSE [st[p] EXCEPT !.pc = "writei_end"]
  <2>6. /\ s.pc \in Writing /\ s.pc \in Working /\ s.pc # "itrunc" /\ s.pc # "user"
        /\ s.f = f /\ (s.tot = t \/ (s.tot = t + m /\ k = m))
    <3>1. st[p] \in [pc : Working \cup {"user", "filewrite"}, f : Nat, n : Nat, n1 : Nat, tot : Nat]
      BY <1>1, ProcType
    <3> HIDE DEF m
    <3>2. CASE k = m
      BY <1>1, <1>2, <3>1, <3>2 DEF Writing, Working
    <3>3. CASE k # m
      BY <1>1, <1>2, <3>1, <3>3 DEF Writing, Working
    <3> QED
      BY <3>2, <3>3
  <2>7. st' = [st EXCEPT ![p] = s] /\ bitmap' = bitmap \cup new
    BY <2>1, <2>3
  <2> HIDE DEF s, m, r, bn, a, y, M, b
  <2>8. /\ \A q \in Procs : st'[q] = IF q = p THEN s ELSE st[q]
        /\ \A j \in Files : lock'[j] = IF j = f THEN p ELSE lock[j]
    <3>1. DOMAIN st = Procs
      BY <1>1 DEF Inv, Typed
    <3> QED
      BY <1>2, <2>1, <2>7, <3>1
  <2>9. \A j \in Files : Cut(j)' = Cut(j)
    <3>1. /\ \A j \in Files : j # f => Cut(j)' = Cut(j)
          /\ Cut(f)' = 0
      <4>1. lock[f] \in {p, NoProc} /\ (st[p].pc \in Working => st[p].f = f)
        BY <1>2
      <4> QED
        BY <1>1, <2>6, <2>8, <4>1, LockStep
    <3> QED
      BY <1>3, <3>1
  <2>10. /\ \A c \in Blocks : c # addr => blk'[c] = bmap(f, bn).blk[c]
         /\ \A u \in Units : blk'[addr][u] = IF u >= (a % BSIZE) /\ u < (a % BSIZE) + k
                                             THEN Data(f, a + 1 + u - (a % BSIZE))
                                             ELSE bmap(f, bn).blk[addr][u]
    <3>1. st[p].f = f /\ y = a
      BY <1>2 DEF a, y
    <3> DEFINE B == [u \in Units |-> IF u >= (a % BSIZE) /\ u < (a % BSIZE) + k
                                     THEN Data(f, a + 1 + u - (a % BSIZE))
                                     ELSE b.blk[addr][u]]
    <3>2. blk' = [b.blk EXCEPT ![addr] = B]
      BY <2>1, <2>3, <3>1
    <3>3. \A u \in Units : B[u] = IF u >= (a % BSIZE) /\ u < (a % BSIZE) + k
                                  THEN Data(f, a + 1 + u - (a % BSIZE))
                                  ELSE b.blk[addr][u]
      OBVIOUS
    <3> HIDE DEF B
    <3>4. blk'[addr] = B /\ \A c \in Blocks : c # addr => blk'[c] = b.blk[c]
      BY <2>3, <3>2
    <3> QED
      BY <3>3, <3>4 DEF b
  <2>11. Names' = Mapped(f, bn, addr, ind)
    <3>1. addrs' = bmap(f, bn).addrs
      BY <2>1 DEF b
    <3> QED
      BY <1>1, <1>3, <1>4, <2>2, <2>9, <2>10, <3>1, WriteNames
  <2>12. ASSUME NEW h \in Pos
         PROVE  /\ Byte(f, h)' = Data(f, h) \/ Byte(f, h)' = Byte(f, h)
                /\ a < h /\ h <= a + k /\ a + k <= bn * BSIZE + BSIZE => Byte(f, h)' = Data(f, h)
    <3>1. bn = a \div BSIZE /\ Cut(f)' = 0
      BY <1>3, <2>9 DEF bn
    <3> HIDE DEF Cut, Names, Byte, Data, Mapped
    <3> QED
      BY <1>1, <1>3, <1>4, <2>2, <2>5, <2>7, <2>10, <2>11, <3>1, WriteUnits
  <2>13. ASSUME NEW j \in Files, j # f, ~Truncating(j), NEW h \in Pos
         PROVE  Byte(j, h)' = Byte(j, h)
    <3>1. Cut(j) = 0
      BY <1>1, <2>13, CutIs DEF Cut
    <3>2. addrs'[j] = addrs[j]
      <4>1. addrs \in [Files -> [0..NDIRECT -> 0..FSSIZE]]
        BY <1>1 DEF Inv, Typed
      <4> QED
        BY <2>1, <2>3, <2>13, <4>1
    <3>3. \A c \in Blocks : blk'[c] # blk[c] =>
            c \notin bitmap \/ \E g \in 0..MAXFILE : Names[<<f, g>>] = c
      BY <1>1, <1>4, <2>2, <2>10, WriteBlocks
    <3> HIDE DEF Cut, Names
    <3> QED
      BY <1>1, <2>13, <3>1, <3>2, <3>3, OtherBytes
  <2>14. ~Truncating(f) /\ \A j \in Files : Truncating(j)' <=> Truncating(j)
    <3>1. ~Truncating(f)
      BY <1>1, <1>2, CutIs
    <3> QED
      BY <1>1, <2>6, <2>8, <3>1 DEF Truncating
  <2>15. ASSUME NEW q \in Procs, q # p PROVE Written(q)'
    <3>1. ASSUME st[q].pc \in Writing
          PROVE  st[q].f \in Files /\ st[q].f # f /\ ~Truncating(st[q].f)
      <4>1. st[q].f # f /\ st[q].f \in Files /\ lock[st[q].f] = q
        BY <1>1, <1>2, <2>15, <3>1, OtherFile, ProcType DEF Writing, Working
      <4>2. st[q].pc # "itrunc"
        BY <3>1 DEF Writing
      <4> QED
        BY <1>1, <4>1, <4>2, CutIs
    <3>2. PICK j : j = st[q].f
      OBVIOUS
    <3>3. st[q].pc \in Writing => \A h \in Pos : Byte(j, h)' = Byte(j, h)
      BY <2>13, <3>1, <3>2
    <3> QED
      BY <1>1, <2>1, <2>8, <2>15, <3>2, <3>3, KeepWritten DEF BytesInv
  <2>16. Written(p)'
    <3>1. st'[p] = s /\ off'[p][f] = o
      BY <1>2, <2>1, <2>8
    <3> SUFFICES ASSUME NEW h \in Nat, o < h, h <= o + s.tot
                 PROVE  Byte(f, h)' = Data(f, h)
      BY <2>6, <3>1 DEF Written, Data
    <3>2. h \in Pos
      <4>1. o + s.tot <= M
        <5>1. t + m <= n1
          <6>1. m <= n1 - t
            BY <1>3, <2>4, Sizes DEF min, m
          <6> QED
            BY <1>3, <2>4, <6>1
        <5> QED
          BY <1>3, <2>4, <2>6, <5>1
      <4>2. s.tot \in Nat
        BY <2>4, <2>6
      <4>3. 0 < h /\ h <= M
        BY <1>3, <4>1, <4>2
      <4> QED
        BY <4>3 DEF Pos, M
    <3>3. CASE h <= o + t
      <4>1. Byte(f, h) = Data(f, h)
        BY <1>1, <1>2, <3>3 DEF BytesInv, Written
      <4> HIDE DEF Byte, Data
      <4> QED
        BY <2>12, <3>2, <4>1
    <3>4. CASE ~(h <= o + t)
      <4>1. k = m /\ a < h /\ h <= a + m
        BY <2>4, <2>6, <3>4 DEF a
      <4> HIDE DEF Byte, Data
      <4> QED
        BY <2>4, <2>12, <3>2, <4>1
    <3> QED
      BY <3>3, <3>4
  <2>17. \A j \in Files : j # f => Content(j)' = Content(j)
    BY <1>1, <2>1, <2>13, <2>14, SameContent
  <2>18. Rewrites(f)
    <3>1. PICK z \in Nat : z = size[f] /\ z <= M
      BY <1>1, SizeType DEF M
    <3>2. size'[f] = z /\ ~Truncating(f)'
      BY <2>1, <2>14, <3>1
    <3>3. /\ Len(Content(f)) = z /\ Len(Content(f)') = z
          /\ \A h \in 1..z : Content(f)[h] = Byte(f, h)
          /\ \A h \in 1..z : Content(f)'[h] = Byte(f, h)'
      BY <2>14, <3>1, <3>2, ContentIs, ContentIsNext
    <3>4. \A h \in 1..z : h \in Pos /\ h <= z
      <4> TAKE h \in 1..z
      <4>1. h \in Nat /\ 0 < h /\ h <= M /\ h <= z
        BY <1>3, <3>1
      <4> QED
        BY <4>1 DEF Pos, M
    <3> HIDE DEF Content, Byte, Data
    <3>5. \A h \in 1..z : Content(f)'[h] = Data(f, h) \/ Content(f)'[h] = Content(f)[h]
      BY <2>12, <3>3, <3>4
    <3> QED
      BY <3>3, <3>4, <3>5 DEF Rewrites
  <2> QED
    BY <2>15, <2>16, <2>17, <2>18 DEF ByteStep
<1> QED
  BY <1>5, <1>6

\* every step keeps what is written and is a step of the byte sequences
LEMMA NextBytes ==
  ASSUME BytesInv, [Next]_vars
  PROVE  BytesInv' /\ ByteStep
<1>0. Inv /\ Inv'
  BY NextInv DEF BytesInv
<1>1. CASE UNCHANGED vars
  <2>1. UNCHANGED <<blk, addrs, size, off, st>>
    BY <1>1 DEF vars
  <2>2. \A q \in Procs : Written(q)'
    BY <1>0, <2>1, SameBytes, KeepWritten DEF BytesInv
  <2>3. \A i \in Files : Truncating(i)' <=> Truncating(i)
    BY <2>1 DEF Truncating
  <2>4. \A i \in Files : Content(i)' = Content(i)
    BY <1>0, <2>1, <2>3, SameBytes, SameContent
  <2> QED
    BY <1>0, <2>2, <2>4 DEF BytesInv, ByteStep
<1> DEFINE Goal == (\A q \in Procs : Written(q)') /\ ByteStep
<1>2. ASSUME NEW p \in Procs, itrunc(p) PROVE Goal
  BY <1>2, TruncBytes
<1>3. ASSUME NEW p \in Procs, itrunc_end(p) PROVE Goal
  BY <1>3, TruncEndBytes
<1>4. ASSUME NEW p \in Procs, filewrite_on(p) PROVE Goal
  <2>1. st[p].pc = "filewrite" /\ Turn(p, st[p].f, st[p].n)
    BY <1>4 DEF filewrite_on, At
  <2>2. st[p].f \in Files /\ st[p].n \in Nat
    BY <1>0, <2>1, ProcType
  <2> QED
    BY <2>1, <2>2, TurnBytes
<1>5. ASSUME NEW p \in Procs, writei(p) PROVE Goal
  BY <1>0, <1>5, WriteBytes
<1>6. ASSUME NEW p \in Procs, writei_end(p) PROVE Goal
  BY <1>6, WriteEndBytes
<1>7. ASSUME NEW p \in Procs, NEW c \in Opens[p], sys_open(p, c[1], c[2]) PROVE Goal
  <2>1. c[1] \in Files /\ c[2] \in BOOLEAN
    BY BlocksAssumption
  <2> QED
    BY <1>7, <2>1, OpenBytes
<1>8. ASSUME NEW p \in Procs, NEW c \in Writes[p], filewrite(p, c[1], c[2]) PROVE Goal
  <2>1. c[1] \in Files /\ c[2] \in Nat
    BY BlocksAssumption
  <2>2. st[p].pc = "user" /\ Turn(p, c[1], c[2])
    BY <1>8 DEF filewrite, At
  <2> QED
    BY <2>1, <2>2, TurnBytes
<1>9. ASSUME NEW p \in Procs, NEW c \in Reads[p], fileread(p, c[1], c[2]) PROVE Goal
  <2>1. c[1] \in Files /\ c[2] \in Nat
    BY BlocksAssumption
  <2> QED
    BY <1>9, <2>1, ReadBytes
<1> HIDE DEF Goal
<1>10. ASSUME Goal PROVE BytesInv' /\ ByteStep
  BY <1>0, <1>10 DEF Goal, BytesInv
<1>11. CASE Stopped
  BY <1>1, <1>11 DEF Stopped
<1> QED
  BY <1>1, <1>2, <1>3, <1>4, <1>5, <1>6, <1>7, <1>8, <1>9, <1>10, <1>11 DEF Next

\* a step of the byte sequences is one of ByteFiles
LEMMA ByteStepIs ==
  ASSUME ByteStep
  PROVE  [Abstract!Next]_[i \in Files |-> Content(i)]
<1> DEFINE C == [i \in Files |-> Content(i)]
<1>1. \A i \in Files : C[i] = Content(i) /\ C'[i] = Content(i)'
  OBVIOUS
<1>2. CASE \A i \in Files : Content(i)' = Content(i)
  <2>1. C' = C
    BY <1>2
  <2> QED
    BY <2>1
<1>3. ASSUME NEW f \in Files, \A j \in Files : j # f => Content(j)' = Content(j),
             Content(f)' = <<>> \/ Rewrites(f)
      PROVE  Abstract!Next
  <2>1. C' = [C EXCEPT ![f] = Content(f)']
    <3>1. \A j \in Files : C'[j] = [C EXCEPT ![f] = Content(f)'][j]
      BY <1>3
    <3> QED
      BY <3>1
  <2>2. CASE Content(f)' = <<>>
    <3>1. Abstract!Truncate(f)
      BY <2>1, <2>2 DEF Abstract!Truncate
    <3> QED
      BY <3>1 DEF Abstract!Next
  <2>3. CASE Rewrites(f)
    <3> HIDE DEF Content, Data
    <3>1. Abstract!Write(f)
      BY <1>1, <2>1, <2>3 DEF Rewrites, Abstract!Write
    <3> QED
      BY <3>1 DEF Abstract!Next
  <2> QED
    BY <1>3, <2>2, <2>3
<1> QED
  BY <1>2, <1>3 DEF ByteStep

\* The files implement the byte sequences of ByteFiles: with several processes allocating,
\* writing block by block, failing in a copy and truncating, a reader of an inode sees at
\* each position what was there or the byte written to it, no gap before the end, and no
\* byte of another file.
THEOREM FilesImplement ==
  ASSUME RootFits
  PROVE  Spec => FilesSpec
<1>1. Init => BytesInv
  <2>1. ASSUME Init, NEW p \in Procs PROVE Written(p)
    <3>1. st[p].pc = "user"
      BY <2>1 DEF Init, Idle
    <3> QED
      BY <3>1 DEF Written, Writing
  <2> QED
    BY <2>1, InitInv DEF BytesInv
<1>2. Init => Abstract!Init
  <2> SUFFICES ASSUME Init, NEW i \in Files PROVE Content(i) \in Seq({0})
    BY DEF Abstract!Init
  <2>1. Inv
    BY InitInv
  <2>2. ~Truncating(i) /\ Cut(i) = 0
    BY DEF Init, Truncating, Cut, Idle
  <2>3. PICK z \in Nat : z = size[i] /\ z <= MAXFILE * BSIZE
    BY <2>1, SizeType
  <2>4. ASSUME NEW k \in 1..z PROVE Byte(i, k) = 0
    <3> DEFINE M == MAXFILE * BSIZE
    <3>1. k \in Pos
      <4>1. M \in Nat
        BY Sizes
      <4>2. z <= M
        BY <2>3
      <4> HIDE DEF M
      <4>3. k \in Nat /\ 0 < k /\ k <= M
        BY <4>1, <4>2
      <4> QED
        BY <4>3 DEF Pos, M
    <3>2. PICK c, u : c = Names[<<i, (k - 1) \div BSIZE>>] /\ u = (k - 1) % BSIZE
      OBVIOUS
    <3>3. Byte(i, k) = IF c = 0 THEN 0 ELSE blk[c][u]
      BY <2>1, <2>2, <3>1, <3>2, ByteAt
    <3>4. c \in bitmap \cup {0} /\ u \in Units
      <4>1. <<i, (k - 1) \div BSIZE>> \in Dom
        BY <3>1, PosIs, DataPlaces, NameAt
      <4> HIDE DEF Names, Dom
      <4> QED
        BY <2>1, <3>1, <3>2, <4>1, PosIs DEF Inv, Owned
    <3>5. c \in bitmap => blk[c] = Zeroes
      BY <2>1 DEF Init, Inv, Typed
    <3> QED
      BY <3>3, <3>4, <3>5 DEF Zeroes
  <2>5. Content(i) = [k \in 1..z |-> Byte(i, k)]
    BY <2>2, <2>3 DEF Content, Byte
  <2> HIDE DEF Content, Byte
  <2> QED
    BY <2>4, <2>5
<1>3. BytesInv /\ [Next]_vars => BytesInv' /\ [Abstract!Next]_[i \in Files |-> Content(i)]
  BY NextBytes, ByteStepIs
<1> QED
  BY <1>1, <1>2, <1>3, PTL DEF Spec, FilesSpec, Abstract!Spec
=============================================================================
