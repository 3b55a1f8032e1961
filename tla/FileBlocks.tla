----------------------------- MODULE FileBlocks -----------------------------
(* The blocks of files: balloc, bfree, bmap, itrunc, readi and writei of
   src/kernel/fs.c, fileread and filewrite of src/kernel/file.c, on an image
   laid out by src/mkfs/mkfs.c.

   A block holds BSIZE units: bytes of a file or, in an indirect block, block
   numbers (so NINDIRECT = BSIZE); 0 is a zeroed unit.  The byte written to a
   place is Data(inode, position).  One turn of writei()'s loop, and one bfree() of itrunc(), is a step;
   the inode's sleep-lock is held in between.  blk is what bread() returns.
   logged[p] is what p's transaction has passed to log_write().            *)
EXTENDS Integers, Sequences, FiniteSets

CONSTANTS Procs,         \* processes
          NoProc,        \* the holder of a lock that is free
          Files,         \* inodes; each process has its own struct file of each
          BSIZE,         \* units of a block
          NDIRECT,       \* direct blocks of an inode
          FSSIZE,        \* blocks of the disk, from 1
          BPB,           \* blocks one bitmap block is for
          MAXOPBLOCKS,   \* blocks a transaction may log
          Boot,          \* units mkfs appends to file 1
          Reads, Writes, \* process -> the <<file, count>> it calls read(), write() with
          Opens,         \* process -> the <<file, O_TRUNC?>> it opens
          PartialCopy    \* copyin() may fail after it copied a part

ASSUME BlocksAssumption ==
  /\ NoProc \notin Procs /\ BSIZE \in Nat \ {0} /\ BPB \in Nat \ {0} /\ NDIRECT \in Nat \ {0}
  /\ MAXOPBLOCKS \in Nat /\ MAXOPBLOCKS >= 6 /\ Files \subseteq Nat /\ 1 \in Files
  /\ FSSIZE \in Nat /\ Boot \in 0..(NDIRECT * BSIZE) /\ Boot <= FSSIZE * BSIZE
  /\ Opens \in [Procs -> SUBSET (Files \X BOOLEAN)] /\ PartialCopy \in BOOLEAN
  /\ Reads \in [Procs -> SUBSET (Files \X Nat)] /\ Writes \in [Procs -> SUBSET (Files \X (Nat \ {0}))]

VARIABLES bitmap,     \* blocks marked in use
          blk,        \* block -> its units
          addrs,      \* inode -> addrs[0..NDIRECT], the last the indirect block
          size,       \* inode -> size
          off,        \* process -> inode -> offset of its struct file
          lock,       \* inode -> holder of its sleep-lock
          st,         \* process -> where it is in its call
          logged,     \* process -> blocks logged in its transaction
          unlogged,   \* blocks changed in the cache but not logged
          panicked    \* what the kernel panicked with, "" if it did not

vars == <<bitmap, blk, addrs, size, off, lock, st, logged, unlogged, panicked>>

NINDIRECT == BSIZE
MAXFILE   == NDIRECT + NINDIRECT
Blocks    == 1..FSSIZE
Units     == 0..(BSIZE - 1)
Zeroes    == [u \in Units |-> 0]
Junk      == [u \in Units |-> 1]   \* stands for whatever a freed block held
Idle      == [pc |-> "user", f |-> 0, n |-> 0, n1 |-> 0, tot |-> 0]

(* A byte that says where it belongs; no block has such a number.          *)
Data(i, k) == FSSIZE + MAXFILE * BSIZE * i + k

min(a, b) == IF a < b THEN a ELSE b

(* The mkfs image: iappend() gave file 1 the first blocks; its size is rounded
   up to the end of the last block, as that of the root directory is.      *)
mkfs_blocks   == (Boot + BSIZE - 1) \div BSIZE
mkfs_size     == ((Boot \div BSIZE) + 1) * BSIZE

Init ==
  /\ bitmap = 1..mkfs_blocks
  /\ blk = [b \in Blocks |-> IF b \in bitmap THEN Zeroes ELSE Junk]
  /\ addrs = [i \in Files |-> [k \in 0..NDIRECT |->
                IF i = 1 /\ k < mkfs_blocks THEN k + 1 ELSE 0]]
  /\ size = [i \in Files |-> IF i = 1 /\ Boot > 0 THEN mkfs_size ELSE 0]
  /\ off = [p \in Procs |-> [i \in Files |-> 0]]
  /\ lock = [i \in Files |-> NoProc]
  /\ st = [p \in Procs |-> Idle]
  /\ logged = [p \in Procs |-> {}]
  /\ unlogged = {}
  /\ panicked = ""

-----------------------------------------------------------------------------
(* balloc(): the first block the bitmap has free.                          *)
FreeBlocks == Blocks \ bitmap
First(S)   == IF S = {} THEN 0 ELSE CHOOSE b \in S : \A c \in S : b <= c

(* In logged, the bitmap block of block b and the block of inode i have names
   that are no data block's.                                               *)
BBLOCK(b) == FSSIZE + 1 + (b \div BPB)
IBLOCK(i) == -i

(* bzero(): what a new block holds.                                        *)
bzero_skipped(b) == blk[b]   \* mutant: the block is not cleared

bzero(b) == Zeroes

(* Where bmap(ip, bn) finds the block, and what it does when it is missing: it
   allocates first the indirect block, then the block itself.              *)
Lookup_shifted(i, bn) == IF bn < NDIRECT \/ addrs[i][NDIRECT] = 0 THEN addrs[i][bn % NDIRECT]
                         ELSE blk[addrs[i][NDIRECT]][0]   \* mutant: index lost

Lookup(i, bn) == IF bn < NDIRECT THEN addrs[i][bn]
                 ELSE IF addrs[i][NDIRECT] = 0 THEN 0
                 ELSE blk[addrs[i][NDIRECT]][bn - NDIRECT]

bmap(i, bn) ==
  LET newind == bn >= NDIRECT /\ addrs[i][NDIRECT] = 0
      ind    == IF newind THEN First(FreeBlocks) ELSE addrs[i][NDIRECT]
      newblk == Lookup(i, bn) = 0
      used   == IF newind THEN {ind} ELSE {}
      full   == newblk /\ FreeBlocks \ used = {}
      addr   == IF newblk /\ ~full THEN First(FreeBlocks \ used) ELSE Lookup(i, bn)
      new    == used \union (IF newblk THEN {addr} ELSE {})
      zero   == [b \in Blocks |-> IF b \in new THEN bzero(b) ELSE blk[b]]
  IN [panics |-> (newind /\ FreeBlocks = {}) \/ full,
      addr   |-> addr,
      bitmap |-> bitmap \union new,
      addrs  |-> IF bn < NDIRECT THEN [addrs EXCEPT ![i][bn] = addr]
                                 ELSE [addrs EXCEPT ![i][NDIRECT] = ind],
      blk    |-> IF newblk /\ bn >= NDIRECT THEN [zero EXCEPT ![ind][bn - NDIRECT] = addr]
                                            ELSE zero,
      logs   |-> new \union {BBLOCK(b) : b \in new}
                     \union (IF newblk /\ bn >= NDIRECT THEN {ind} ELSE {})]

panic(msg) ==
  /\ panicked' = msg
  /\ UNCHANGED <<bitmap, blk, addrs, size, off, lock, st, logged, unlogged>>

At(p, pc)  == panicked = "" /\ st[p].pc = pc
Goto(p, s) == st' = [st EXCEPT ![p] = s]

-----------------------------------------------------------------------------
(* sys_open(): a new struct file for the inode, with O_TRUNC through itrunc(). *)
sys_open(p, i, trunc) ==
  /\ At(p, "user") /\ lock[i] = NoProc
  /\ off' = [off EXCEPT ![p][i] = 0]
  /\ IF trunc THEN /\ lock' = [lock EXCEPT ![i] = p]
                   /\ Goto(p, [Idle EXCEPT !.pc = "itrunc", !.f = i])
              ELSE UNCHANGED <<lock, st>>
  /\ UNCHANGED <<bitmap, blk, addrs, size, logged, unlogged, panicked>>

(* The blocks itrunc() frees, in its order: direct ones, those the indirect
   block names, the indirect block.  tot counts the turns of its loops.    *)
TruncBlock(i, k) == IF k < NDIRECT THEN addrs[i][k]
                    ELSE IF addrs[i][NDIRECT] = 0 THEN 0
                    ELSE IF k < MAXFILE THEN blk[addrs[i][NDIRECT]][k - NDIRECT]
                    ELSE addrs[i][NDIRECT]

(* bfree() of a block that the bitmap has free; 0 is no block.             *)
bfree_panics(b) == b # 0 /\ b \notin bitmap

itrunc(p) ==
  LET i == st[p].f
      k == st[p].tot
      b == TruncBlock(i, k)
  IN
  /\ At(p, "itrunc") /\ k <= MAXFILE
  /\ IF bfree_panics(b) THEN panic("freeing free block")
     ELSE /\ bitmap' = bitmap \ {b}
          /\ addrs' = IF k < NDIRECT THEN [addrs EXCEPT ![i][k] = 0]
                      ELSE IF k = MAXFILE THEN [addrs EXCEPT ![i][NDIRECT] = 0]
                      ELSE addrs
          /\ logged' = [logged EXCEPT ![p] = @ \union (IF b = 0 THEN {} ELSE {BBLOCK(b)})]
          /\ st' = [st EXCEPT ![p].tot = k + 1]
          /\ blk' = IF b = 0 THEN blk ELSE [blk EXCEPT ![b] = Junk]
          /\ UNCHANGED <<size, off, lock, unlogged, panicked>>

itrunc_end(p) ==
  LET i == st[p].f IN
  /\ At(p, "itrunc") /\ st[p].tot > MAXFILE
  /\ size' = [size EXCEPT ![i] = 0]
  /\ lock' = [lock EXCEPT ![i] = NoProc]
  /\ logged' = [logged EXCEPT ![p] = {}]
  /\ Goto(p, Idle)
  /\ UNCHANGED <<bitmap, blk, addrs, off, unlogged, panicked>>

-----------------------------------------------------------------------------
(* filewrite(): the largest piece one transaction is given.                *)
max_unhalved == MAXOPBLOCKS * BSIZE   \* mutant: only data blocks are counted

max == ((MAXOPBLOCKS - 1 - 1 - 2) \div 2) * BSIZE

(* A turn of filewrite()'s loop with n units left: begin_op(), ilock(), and the
   checks of writei(), whose -1 ends the loop.                             *)
OutOfRange(p, f, n) == off[p][f] > size[f] \/ off[p][f] + n > MAXFILE * BSIZE

Turn(p, f, n) ==
  /\ lock[f] = NoProc
  /\ IF OutOfRange(p, f, min(n, max))
     THEN Goto(p, Idle) /\ UNCHANGED lock
     ELSE /\ lock' = [lock EXCEPT ![f] = p]
          /\ Goto(p, [pc |-> "writei", f |-> f, n |-> n, n1 |-> min(n, max), tot |-> 0])
  /\ UNCHANGED <<bitmap, blk, addrs, size, off, logged, unlogged, panicked>>

filewrite(p, f, n)   == At(p, "user") /\ Turn(p, f, n)
filewrite_on(p)      == At(p, "filewrite") /\ Turn(p, st[p].f, st[p].n)

(* One turn of the loop of writei(): k of the m units are copied; copyin()
   failed if that is not all of them, and then the loop is left.           *)
Copied(m) == IF PartialCopy THEN 0..m ELSE {0, m}

writei(p) ==
  LET s  == st[p]
      o  == off[p][s.f] + s.tot
      m  == min(s.n1 - s.tot, BSIZE - (o % BSIZE))
      mp == bmap(s.f, o \div BSIZE)
  IN
  /\ At(p, "writei") /\ s.tot < s.n1
  /\ IF mp.panics THEN panic("balloc: out of blocks")
     ELSE \E k \in Copied(m) :
          /\ bitmap' = mp.bitmap
          /\ addrs' = mp.addrs
          /\ blk' = [mp.blk EXCEPT ![mp.addr] =
                       [u \in Units |-> IF u >= (o % BSIZE) /\ u < (o % BSIZE) + k
                                        THEN Data(s.f, o + 1 + u - (o % BSIZE))
                                        ELSE @[u]]]
          /\ logged' = [logged EXCEPT ![p] = @ \union mp.logs
                          \union (IF k = m THEN {mp.addr} ELSE {})]
          /\ unlogged' = IF k \notin {0, m} THEN unlogged \union {mp.addr}
                         ELSE IF k = m THEN unlogged \ {mp.addr} ELSE unlogged
          /\ Goto(p, IF k = m THEN [s EXCEPT !.tot = s.tot + m]
                              ELSE [s EXCEPT !.pc = "writei_end"])
          /\ UNCHANGED <<size, off, lock, panicked>>

(* Its end: the size grows to where the loop stopped, the inode is logged, but
   n is returned all the same; filewrite() adds it to the offset and goes on. *)
writei_end(p) ==
  LET s == st[p]
      o == off[p][s.f] + s.tot
  IN
  /\ At(p, "writei_end") \/ (At(p, "writei") /\ s.tot = s.n1)
  /\ size' = [size EXCEPT ![s.f] = IF o > @ THEN o ELSE @]
  /\ off' = [off EXCEPT ![p][s.f] = @ + s.n1]
  /\ lock' = [lock EXCEPT ![s.f] = NoProc]
  /\ logged' = [logged EXCEPT ![p] = {}]
  /\ Goto(p, IF s.n = s.n1 THEN Idle
             ELSE [Idle EXCEPT !.pc = "filewrite", !.f = s.f, !.n = s.n - s.n1])
  /\ UNCHANGED <<bitmap, blk, addrs, unlogged, panicked>>

(* fileread(): readi() and the offset under the lock; copyout() may fail at any
   block, r units were read before.  bmap() allocates nothing: NoHoles.    *)
fileread(p, f, n) ==
  LET avail == IF off[p][f] > size[f] THEN 0 ELSE min(n, size[f] - off[p][f])
  IN
  /\ At(p, "user") /\ lock[f] = NoProc
  /\ \E r \in 0..avail :
       /\ r = avail \/ (off[p][f] + r) % BSIZE = 0
       /\ off' = [off EXCEPT ![p][f] = @ + r]
  /\ UNCHANGED <<bitmap, blk, addrs, size, lock, st, logged, unlogged, panicked>>

Stopped == panicked # "" /\ UNCHANGED vars

Next ==
  \/ \E p \in Procs :
       \/ itrunc(p) \/ itrunc_end(p) \/ filewrite_on(p) \/ writei(p) \/ writei_end(p)
       \/ \E c \in Opens[p] : sys_open(p, c[1], c[2])
       \/ \E c \in Writes[p] : filewrite(p, c[1], c[2])
       \/ \E c \in Reads[p] : fileread(p, c[1], c[2])
  \/ Stopped

Spec == Init /\ [][Next]_vars

-----------------------------------------------------------------------------
(* Properties                                                              *)

(* Type invariant: bitmap, inodes, offsets and locks.                       *)
TypeOK ==
  /\ bitmap \subseteq Blocks
  /\ addrs \in [Files -> [0..NDIRECT -> 0..FSSIZE]]
  /\ size \in [Files -> 0..(MAXFILE * BSIZE)]
  /\ \A p \in Procs, i \in Files : off[p][i] \in Nat
  /\ lock \in [Files -> Procs \union {NoProc}]
  /\ unlogged \subseteq Blocks

Truncating(i) == \E p \in Procs : st[p].pc = "itrunc" /\ st[p].f = i
TruncAt(i)    == IF Truncating(i)
                 THEN st[CHOOSE p \in Procs : st[p].pc = "itrunc" /\ st[p].f = i].tot
                 ELSE 0

(* The places that name a block, but for those itrunc() is done with.      *)
Places == {h \in Files \X (0..MAXFILE) :
             h[2] >= TruncAt(h[1]) /\ TruncBlock(h[1], h[2]) # 0}

(* Every block below the size exists: readi(), which fileread() calls outside
   of a transaction, never makes bmap() allocate.                          *)
NoHoles ==
  \A i \in Files : ~Truncating(i) =>
    \A bn \in 0..(MAXFILE - 1) : bn * BSIZE < size[i] => Lookup(i, bn) # 0

(* A block is marked in the bitmap exactly if one place of one inode names it:
   no block is in two files, none is lost, none is used while free, through
   allocation, truncation and copy failures of several files; and no file has
   holes.                                                                   *)
BlocksOwned ==
  /\ TypeOK
  /\ {TruncBlock(h[1], h[2]) : h \in Places} = bitmap
  /\ Cardinality(Places) = Cardinality(bitmap)
  /\ panicked # "freeing free block"
  /\ NoHoles

(* A piece of filewrite() logs at most MAXOPBLOCKS blocks, its inode included:
   the promise begin_op() of log.c admits transactions on.                 *)
OpFits == \A p \in Procs : Cardinality(logged[p] \union {IBLOCK(st[p].f)}) <= MAXOPBLOCKS

(* What a reader of an inode sees, byte by byte.                           *)
Content(i) == IF Truncating(i) THEN <<>>
              ELSE [k \in 1..size[i] |->
                      IF Lookup(i, (k - 1) \div BSIZE) = 0 THEN 0
                      ELSE blk[Lookup(i, (k - 1) \div BSIZE)][(k - 1) % BSIZE]]

Abstract == INSTANCE ByteFiles
              WITH Inodes <- Files, Data <- Data,
                   content <- [i \in Files |-> Content(i)]

(* Block by block, with other files allocated and truncated in between, the
   files behave as byte sequences.                                         *)
FilesSpec == Abstract!Spec

(* Whatever is changed in a buffer is logged before it is released, as the use
   log_write() describes; only then is it what the disk will hold.         *)
EveryWriteLogged == unlogged = {}

(* filewrite() does not return n after a copyin() that failed.             *)
FailureReported ==
  [][\A p \in Procs : st[p].pc = "writei_end" => st'[p].pc # "user"]_vars
=============================================================================
