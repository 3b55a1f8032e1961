--------------------------------- MODULE Vm ---------------------------------
(* Physical pages and user address spaces: src/kernel/kalloc.c, src/kernel/vm.c,
   src/kernel/exec.c and the callers of them in src/kernel/proc.c,
   src/kernel/sysproc.c and src/kernel/sysfile.c.

   Each system call is one step: it works on page tables nobody else touches,
   and on the free list, one kalloc() or kfree() at a time.  What others do to
   the free list meanwhile can only make a kalloc() fail, so every call is given
   a number of pages, left, after which kalloc() returns 0.

   A page table is a tree of three levels with PER entries in a node: nodes maps
   the nodes below the root to their pages, leaf a page number of the address
   space to a physical page and its PTE_U bit.  The functions below take and
   return the allocator together with the process they work on: s has the fields
   of proc[p] and free, left, pa (what kalloc() returned), ok (FALSE once a
   function has failed: later ones are not called) and panic.              *)
EXTENDS Integers, Sequences, SequencesExt, FiniteSets, TLC

CONSTANTS Procs,      \* slots of proc[], numbers from 1; slot 1 is init
          NPAGE,      \* physical pages kinit() finds
          PER,        \* entries of a page-table node
          PGSIZE,     \* units of a page
          UINT,       \* 2^w for the width w of an unsigned int
          MaxSz,      \* bound: the size of an address space, below TRAPFRAME
          Brks,       \* arguments of sbrk()
          Images,     \* executable files: sequences of segments <<vaddr, end>>
          Lefts       \* bound: pages a call finds before kalloc() fails

ASSUME VmAssumption ==
  /\ 1 \in Procs /\ NPAGE \in Nat /\ PER \in Nat \ {0, 1} /\ PGSIZE \in Nat \ {0}
  /\ MaxSz <= (PER * PER * PER - 2) * PGSIZE /\ UINT > 2 * MaxSz

VARIABLES free,      \* kmem.freelist, as a set
          proc,      \* slot -> state, trapframe, page table, size
          ok,        \* the last call succeeded
          panicked   \* what the kernel panicked with, "" if it did not

vars == <<free, proc, ok, panicked>>

Pages      == 1..NPAGE
TRAMPOLINE == PER * PER * PER - 1
TRAPFRAME  == TRAMPOLINE - 1
KERNEL     == 0                    \* the page of trampoline.S, never freed
Vas        == 0..TRAMPOLINE

PGROUNDUP(a)   == (a + PGSIZE - 1) \div PGSIZE      \* in pages
PGROUNDDOWN(a) == a \div PGSIZE

Unused == [state |-> "unused", trapframe |-> 0, root |-> 0, nodes |-> <<>>,
           leaf |-> <<>>, sz |-> 0]

Put(f, k, v) == [x \in DOMAIN f \union {k} |-> IF x = k THEN v ELSE f[x]]
Cut(f, K)    == [x \in DOMAIN f \ K |-> f[x]]

(* A call begins with the process r and n pages to be had; what it leaves of r. *)
Begin(n, r) == r @@ [free |-> free, left |-> n, pa |-> 0, ok |-> TRUE, panic |-> ""]
Left(s)     == [f \in DOMAIN Unused |-> s[f]]

Fail(s)       == [s EXCEPT !.ok = FALSE]
Panic(s, msg) == [s EXCEPT !.ok = FALSE, !.panic = IF @ = "" THEN msg ELSE @]

-----------------------------------------------------------------------------
(* kalloc.c.  Which page kalloc() takes does not matter: pages are alike.   *)
kalloc(s) ==
  IF s.left = 0 \/ s.free = {} THEN Fail(s)
  ELSE LET pa == CHOOSE x \in s.free : \A y \in s.free : x <= y
       IN [s EXCEPT !.free = @ \ {pa}, !.left = @ - 1, !.pa = pa]

kfree(s, P) == [s EXCEPT !.free = @ \union P]

(* walk() with alloc: the missing nodes on the way to va, from the top.    *)
Path(va) == <<<<1, va \div (PER * PER)>>, <<0, va \div PER>>>>

NewNode(s, n) == IF s.ok THEN [s EXCEPT !.nodes = Put(@, n, s.pa)] ELSE s

walk(s, va) ==
  FoldLeft(LAMBDA t, n : IF ~t.ok \/ n \in DOMAIN t.nodes THEN t ELSE NewNode(kalloc(t), n),
           s, Path(va))

(* Mutant: walkaddr() without the test of PTE_U.                           *)
walkaddr_kernel(t, va) == IF va \in DOMAIN t.leaf THEN t.leaf[va].pa ELSE 0

(* walkaddr(): the page a user address is in, 0 if not the user's.         *)
walkaddr(t, va) == IF va \in DOMAIN t.leaf /\ t.leaf[va].u THEN t.leaf[va].pa ELSE 0

SetPte(s, va, pa, u) ==
  IF ~s.ok THEN s
  ELSE IF va \in DOMAIN s.leaf THEN Panic(s, "remap")
  ELSE [s EXCEPT !.leaf = Put(@, va, [pa |-> pa, u |-> u])]

mappages(s, va, pa, u) == SetPte(walk(s, va), va, pa, u)

uvmunmap(s, vas, do_free) ==
  IF ~(vas \subseteq DOMAIN s.leaf) THEN Panic(s, "uvmunmap: not mapped")
  ELSE [s EXCEPT !.leaf = Cut(@, vas),
                 !.free = @ \union (IF do_free THEN {s.leaf[va].pa : va \in vas} ELSE {})]

NewRoot(s)   == IF s.ok THEN [s EXCEPT !.root = s.pa, !.nodes = <<>>, !.leaf = <<>>] ELSE s
uvmcreate(s) == NewRoot(kalloc(s))

(* Mutants: do_free is 0; nothing is unmapped.                              *)
Undo_unfreed(s, lo, a) == Fail(uvmunmap(s, lo..(a - 1), FALSE))
Undo_none(s, lo, a)    == Fail(s)

(* The error path of the loops over pages: what was mapped from page lo on up
   to page a is freed.                                                     *)
Undo(s, lo, a) == Fail(uvmunmap(s, lo..(a - 1), TRUE))

(* One page of uvmalloc() and of uvmcopy(), whose loops began at page lo: when
   it cannot be mapped it is freed too.                                    *)
Mapped(s, pa, lo, a) == IF s.ok \/ s.panic # "" THEN s ELSE Undo(kfree(s, {pa}), lo, a)

MapPage(s, lo, a, u) ==
  IF s.ok THEN Mapped(mappages(s, a, s.pa, u), s.pa, lo, a) ELSE Undo(s, lo, a)

MapNew(s, lo, a, u) == IF s.ok THEN MapPage(kalloc(s), lo, a, u) ELSE s

Upto(lo, hi) == [i \in 1..(hi - lo) |-> lo + i - 1]     \* pages lo..hi-1, in order

uvmalloc(s, oldsz, newsz) ==
  FoldLeft(LAMBDA t, a : MapNew(t, PGROUNDUP(oldsz), a, TRUE),
           s, Upto(PGROUNDUP(oldsz), PGROUNDUP(newsz)))

(* sz = uvmalloc(..., sz, newsz), as growproc() and exec() call it: a result of 0
   is a failure, a newsz below sz leaves sz as it is.                       *)
SetSize(s, newsz) ==
  IF newsz < s.sz THEN s
  ELSE IF ~s.ok \/ newsz = 0 THEN Fail(s)
  ELSE [s EXCEPT !.sz = newsz]

Grow(s, newsz) == IF s.ok THEN SetSize(uvmalloc(s, s.sz, newsz), newsz) ELSE s

(* sz = uvmdealloc(..., sz, newsz)                                          *)
uvmdealloc(s, newsz) ==
  IF newsz >= s.sz THEN s
  ELSE uvmunmap([s EXCEPT !.sz = newsz], PGROUNDUP(newsz)..(PGROUNDUP(s.sz) - 1), TRUE)

uvmcopy(s, old) ==
  FoldLeft(LAMBDA t, a : IF a \notin DOMAIN old.leaf THEN Panic(t, "uvmcopy: page not present")
                         ELSE MapNew(t, 0, a, old.leaf[a].u),
           s, Upto(0, PGROUNDUP(old.sz)))

(* freewalk(): all nodes, the root last; no leaf may be left.              *)
freewalk(s) ==
  IF DOMAIN s.leaf # {} THEN Panic(s, "freewalk: leaf")
  ELSE [s EXCEPT !.free = @ \union {s.nodes[n] : n \in DOMAIN s.nodes} \union {s.root},
                 !.root = 0, !.nodes = <<>>]

uvmfree(s, sz) == freewalk(uvmunmap(s, 0..(PGROUNDUP(sz) - 1), TRUE))

uvmclear(s, va) == [s EXCEPT !.leaf[va].u = FALSE]

-----------------------------------------------------------------------------
(* proc.c: page tables of processes                                        *)

(* The two error paths of proc_pagetable(): vas is what was mapped before.  *)
OrFree(s, vas) == IF s.ok THEN s ELSE uvmfree(uvmunmap(s, vas, FALSE), 0)

MapTrampoline(s) ==
  IF s.ok THEN OrFree(mappages(s, TRAMPOLINE, KERNEL, FALSE), {}) ELSE s
MapTrapframe(s) ==
  IF s.ok THEN OrFree(mappages(s, TRAPFRAME, s.trapframe, FALSE), {TRAMPOLINE}) ELSE s

proc_pagetable(s) == MapTrapframe(MapTrampoline(uvmcreate(s)))

proc_freepagetable(s) ==
  uvmfree(uvmunmap(s, {TRAMPOLINE, TRAPFRAME}, FALSE), s.sz)

(* freeproc(): the trapframe and, if there is one, the page table.         *)
freeproc(s) ==
  IF s.root = 0 THEN kfree(s, {s.trapframe}) ELSE proc_freepagetable(kfree(s, {s.trapframe}))

OrFreeproc(s) == IF s.ok THEN s ELSE freeproc(s)

(* allocproc(): the trapframe, then the page table.                        *)
AllocTable(s) == IF s.ok THEN OrFreeproc(proc_pagetable([s EXCEPT !.trapframe = s.pa])) ELSE s
allocproc(s)  == AllocTable(kalloc(s))

(* The end of a call.                                                      *)
Commit(s, procs) ==
  /\ free' = s.free
  /\ proc' = procs
  /\ ok' = s.ok
  /\ panicked' = s.panic

Running(p) == panicked = "" /\ proc[p].state = "used"

(* Mutant: np->sz is set before uvmcopy().                                 *)
ChildSize_parent(p) == proc[p].sz

(* The size of a child whose memory is not copied yet.                     *)
ChildSize(p) == 0

CopyMemory(s, p) ==
  IF s.ok THEN OrFreeproc(uvmcopy([s EXCEPT !.sz = ChildSize(p)], proc[p])) ELSE s

fork(p, np) ==
  /\ Running(p) /\ proc[np].state = "unused"
  /\ \E left \in Lefts : \E c \in {CopyMemory(allocproc(Begin(left, Unused)), p)} :
       IF ~c.ok THEN Commit(c, proc)
       ELSE Commit(c, [proc EXCEPT ![np] = [Left(c) EXCEPT !.state = "used", !.sz = proc[p].sz]])

(* exit() and wait(): the parent frees the process.                        *)
exit(p) ==
  /\ Running(p) /\ p # 1
  /\ proc' = [proc EXCEPT ![p].state = "zombie"]
  /\ ok' = TRUE
  /\ UNCHANGED <<free, panicked>>

wait(p) ==
  /\ panicked = "" /\ proc[p].state = "zombie"
  /\ Commit(freeproc(Begin(0, proc[p])), [proc EXCEPT ![p] = Unused])

(* growproc(), the whole of sys_sbrk(): sizes are unsigned ints there.     *)
growproc(p, n) ==
  /\ Running(p) /\ proc[p].sz + n <= MaxSz
  /\ \E left \in IF n > 0 THEN Lefts ELSE {0} :
     \E newsz \in {(proc[p].sz + n) % UINT} :
     \E s \in {IF n > 0 THEN Grow(Begin(left, proc[p]), newsz)
              ELSE uvmdealloc(Begin(left, proc[p]), newsz)} :
       Commit(s, [proc EXCEPT ![p] = Left(s)])

-----------------------------------------------------------------------------
(* exec.c                                                                  *)

(* loadseg() reads a segment into pages that must be there; the alignment or the
   read may be bad.                                                        *)
loadseg(s, seg, bad) ==
  IF ~s.ok THEN s
  ELSE IF bad THEN Fail(s)
  ELSE IF \E a \in PGROUNDDOWN(seg[1])..(PGROUNDUP(seg[2]) - 1) : walkaddr(s, a) = 0
  THEN Panic(s, "loadseg: address should exist") ELSE s

(* The segments one by one; a bad program header fails before uvmalloc().  *)
Header(s, bad) == IF s.ok /\ bad THEN Fail(s) ELSE s
Load(s, image, why) ==
  FoldLeft(LAMBDA t, i : loadseg(Grow(Header(t, why = <<"header", i>>), image[i][2]),
                                 image[i], why = <<"segment", i>>),
           s, Upto(1, Len(image) + 1))

(* Two pages at the next page boundary, the lower one without PTE_U.       *)
Guard(s, why) == IF ~s.ok THEN s
                 ELSE IF why[1] = "args" THEN Fail(uvmclear(s, PGROUNDDOWN(s.sz) - 2))
                 ELSE uvmclear(s, PGROUNDDOWN(s.sz) - 2)
Round(s)      == IF s.ok THEN [s EXCEPT !.sz = PGROUNDUP(@) * PGSIZE] ELSE s
Stack(s, why) == Guard(Grow(s, s.sz + 2 * PGSIZE), why)

(* The label bad: the new page table goes, if there is one.                *)
bad_exec(s) == IF s.ok \/ s.root = 0 THEN s ELSE proc_freepagetable(s)

(* exec(): a new page table beside the old one.                            *)
Image(s, image, why) ==
  bad_exec(Stack(Round(Load(proc_pagetable(s), image, why)), why))

(* Commit to the user image: the old page table goes.                       *)
commit_exec(p, new, argv) ==
  \E old \in {proc_freepagetable([Begin(0, proc[p]) EXCEPT !.free = new.free])} :
    Commit(kfree(old, argv), [proc EXCEPT ![p] = Left(new)])

(* sys_exec(): a page for the argument, freed whatever happens.  why: what fails
   besides kalloc(): "early" is fetchstr(), namei() or the ELF header, "header" and
   "segment" the program header or the segment of that number, "args" the arguments
   on the stack.                                                           *)
Whys(image) == ({"none", "early", "args"} \X {0}) \union ({"header", "segment"} \X DOMAIN image)

exec(p, image, why) ==
  /\ Running(p)
  /\ \E left \in Lefts :
     \E arg \in {kalloc(Begin(left, [Unused EXCEPT !.state = "used",
                                                !.trapframe = proc[p].trapframe]))} :
       IF ~arg.ok \/ why[1] = "early" THEN Commit(Fail(kfree(arg, {arg.pa} \ {0})), proc)
       ELSE \E new \in {Image(arg, image, why)} :
              IF new.ok THEN commit_exec(p, new, {arg.pa})
              ELSE Commit(kfree(new, {arg.pa}), proc)

-----------------------------------------------------------------------------
(* userinit(): one process with one page.                                  *)
Init ==
  /\ free = Pages
  /\ proc = [p \in Procs |-> Unused]
  /\ ok = TRUE
  /\ panicked = ""

userinit ==
  /\ proc[1].state = "unused"
  /\ \E s \in {MapNew(allocproc(Begin(NPAGE, Unused)), 0, 0, TRUE)} :
       Commit(s, [proc EXCEPT ![1] = [Left(s) EXCEPT !.state = "used", !.sz = PGSIZE]])

Next ==
  \/ userinit
  \/ \E p \in Procs :
       \/ \E np \in Procs : fork(p, np)
       \/ exit(p) \/ wait(p)
       \/ \E n \in Brks : growproc(p, n)
       \/ \E image \in Images : \E why \in Whys(image) : exec(p, image, why)

Spec == Init /\ [][Next]_vars

-----------------------------------------------------------------------------
(* Copying between kernel and user memory, page by page as the loops do: how
   many bytes are left when the loop stops, 0 for success.                 *)
InPage(va) == (PGROUNDDOWN(va) + 1) * PGSIZE - va     \* bytes to the end of the page

copyout(t, dstva, len) ==
  LET rest[n \in 0..len] ==
        LET va == dstva + len - n
            m  == InPage(va)
        IN IF n = 0 THEN 0
           ELSE IF walkaddr(t, PGROUNDDOWN(va)) = 0 THEN n
           ELSE IF m > n THEN 0 ELSE rest[n - m]
  IN rest[len]

copyin(t, srcva, len) == copyout(t, srcva, len)        \* the same loop

(* copyinstr() of a string whose nul is at offset nul: whether it returns 0. *)
copyinstr(t, srcva, nul, max) ==
  LET got[n \in 0..max] ==
        LET at == max - n
            va == srcva + at
            m  == IF InPage(va) > n THEN n ELSE InPage(va)
        IN IF n = 0 \/ walkaddr(t, PGROUNDDOWN(va)) = 0 THEN FALSE
           ELSE IF nul < at + m THEN TRUE ELSE got[n - m]
  IN got[max]

-----------------------------------------------------------------------------
(* Properties                                                              *)

(* Type invariant: the free list and the processes with their tables.       *)
TypeOK ==
  /\ free \subseteq Pages
  /\ \A p \in Procs :
       /\ proc[p].state \in {"unused", "used", "zombie"}
       /\ proc[p].trapframe \in 0..NPAGE /\ proc[p].sz \in 0..(MaxSz + 3 * PGSIZE)
       /\ DOMAIN proc[p].leaf \subseteq Vas
  /\ ok \in BOOLEAN

(* The places that own a page: trapframes, roots, nodes and mapped pages.  *)
Owned(p) ==
  LET t == proc[p] IN
  {<<p, "tf", 0>>, <<p, "root", 0>>}
    \union {<<p, "node", n>> : n \in DOMAIN t.nodes}
    \union {<<p, "leaf", va>> : va \in DOMAIN t.leaf \ {TRAMPOLINE, TRAPFRAME}}

PageOf(h) ==
  LET q == proc[h[1]] IN
  CASE h[2] = "tf" -> q.trapframe [] h[2] = "root" -> q.root
    [] h[2] = "node" -> q.nodes[h[3]] [] OTHER -> q.leaf[h[3]].pa

(* Every page is on the free list or has exactly one owner, after every call
   and wherever in it an allocation failed: nothing leaks, nothing is freed
   twice, no two address spaces share a page.                              *)
PagesOwned ==
  LET live  == {p \in Procs : proc[p].state # "unused"}
      owner == UNION {Owned(p) : p \in live}
  IN /\ {PageOf(h) : h \in owner} = Pages \ free
     /\ Cardinality(owner) = Cardinality(Pages \ free)

(* A process has mapped exactly the pages below its size, its trapframe and the
   trampoline, in nodes that exist: what uvmunmap(), uvmcopy() and freewalk()
   panic without.  A call that fails leaves the addresses as they were.     *)
MappedToSize ==
  /\ TypeOK
  /\ panicked = ""
  /\ \A p \in Procs : proc[p].state # "unused" =>
       /\ DOMAIN proc[p].leaf = 0..(PGROUNDUP(proc[p].sz) - 1) \union {TRAPFRAME, TRAMPOLINE}
       /\ proc[p].leaf[TRAPFRAME].pa = proc[p].trapframe
       /\ \A va \in DOMAIN proc[p].leaf :
            \A i \in 1..2 : Path(va)[i] \in DOMAIN proc[p].nodes

(* A call that returns -1 changes nothing a process can see: a failed exec()
   still runs the old image, a failed sbrk() keeps the size, a failed fork()
   leaves no process.                                                      *)
FailureUndone ==
  [][~ok' => \A p \in Procs :
       /\ proc'[p].leaf = proc[p].leaf
       /\ proc'[p].sz = proc[p].sz /\ proc'[p].state = proc[p].state]_vars

(* copyin(), copyout() and copyinstr() succeed exactly on ranges of the user's
   own pages, stop before the first other page, and so never reach the guard page
   below the stack, the trapframe or the trampoline, wherever the range begins
   and ends in a page.                                                     *)
CopyExact ==
  \A p \in Procs : proc[p].state = "used" =>
    LET t   == proc[p]
        own == {va \in Vas : va < PGROUNDUP(proc[p].sz) /\ t.leaf[va].u}
        Mine(va, len) == \A k \in va..(va + len - 1) : k \div PGSIZE \in own
    IN \A va \in 0..(TRAMPOLINE * PGSIZE + 1), len \in 0..(2 * PGSIZE + 1) :
         /\ (copyout(t, va, len) = 0) <=> Mine(va, len)
         /\ Mine(va, len - copyin(t, va, len))
         /\ \A nul \in 0..len : copyinstr(t, va, nul, len) <=> nul < len /\ Mine(va, nul + 1)
=============================================================================
