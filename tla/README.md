# TLA+ models of the xv6-riscv kernel

This directory holds a model-checked and partly machine-proved description of
the concurrency, crash and resource protocols of the xv6 kernel in `src/kernel`
(with the user programs of `src/user` and the image builder `src/mkfs`).
Definitions keep the names of the C functions they translate; `PROJECT.json`
maps each of them to its lines.

## 1. The system

xv6 is a small monolithic kernel for several RISC-V harts. Every process has a
kernel thread; kernel code runs concurrently on all harts and is preempted by
the timer whenever interrupts are on. Mutual exclusion is by spin-locks
(interrupts off while one is held) and by sleep-locks; waiting is by
`sleep(chan, lk)` / `wakeup(chan)`.

| component | source | state | operations | hard behaviour |
|---|---|---|---|---|
| redo log | `log.c` | `log.lh`, `outstanding`, `committing`, on-disk header and log blocks | `begin_op`, `log_write`, `end_op`, `commit`, `recover_from_log` | crash between any two block writes; several calls share a transaction; space reservation |
| process table | `proc.c` (fork, exit, wait, kill, reparent), `trap.c` | `proc[]`: state, parent, pid, killed, lock, kernel stack | `allocproc`, `fork`, `exit`, `reparent`, `wait`, `kill` | unlocked reads of `parent`, two locks at a time, slots that are reused |
| scheduler | `proc.c` (scheduler, sched, sleep, wakeup), `swtch.S` | `cpu->proc`, `p->state`, `p->lock` handed across `swtch` | `scheduler`, `yield`, `sleep`, `wakeup`, `forkret` | lost wakeups, a stack used by two harts, starvation |
| pipes | `pipe.c`, `file.c` | ring, `nread`, `nwrite`, two open flags | `piperead`, `pipewrite`, `pipeclose` | counters that wrap, two sleep channels, close and kill races |
| virtio disk | `virtio_disk.c` | descriptors, avail/used rings, `info[]`, `b->disk` | `virtio_disk_rw`, `virtio_disk_intr` | device runs concurrently, completes out of order; interrupt acknowledgement |
| buffer cache, sleep-locks | `bio.c`, `sleeplock.c` | LRU list, `refcnt`, `valid`, holder of each buffer | `bget`, `bread`, `bwrite`, `brelse`, `bpin`, `bunpin` | eviction while others wait for the buffer, pins |
| inodes, directories, paths | `fs.c` | bitmap, dinodes, `icache` | `ialloc`, `iget`, `iput`, `ilock`, `bmap`, `itrunc`, `namex`, `dirlink` | references against links, lock order along paths |
| file system calls | `sysfile.c`, `file.c` | file table, descriptors | `open`, `link`, `unlink`, `mkdir`, `create`, `dup`, `close` | several inodes locked in one call, partial failure |
| memory | `kalloc.c`, `vm.c`, `exec.c` | free list, page tables | `kalloc`, `kfree`, `uvmalloc`, `uvmcopy`, `exec` | failure half way, ownership of pages |
| console, UART | `console.c`, `uart.c` | input and output rings | `consoleintr`, `consoleread`, `uartputc`, `uartintr` | interrupt against thread, full buffers |
| traps, timer, syscalls | `trap.c`, `syscall.c`, `sysproc.c` | `ticks`, trapframe | `usertrap`, `kerneltrap`, `clockintr`, `sys_sleep` | wrap-around of ticks |
| shell, init | `user/sh.c`, `user/init.c` | command tree, descriptors of every process | `parsecmd`, `runcmd`, `main` | pipe ends left open, children of others, failing `fork` in the middle |
| mkfs, other user programs | `mkfs/`, `user/` | - | image builder, tools | sequential |

How they interact: file system calls bracket their work with `begin_op` and
`end_op`; inside, every block is used through the buffer cache, changed blocks
are handed to `log_write`, which pins their buffers until `commit` has copied
them home; the cache moves blocks through the virtio driver, whose interrupt
handler wakes the waiting process. All of them sleep and wake through
`proc.c`, and all of them run on the scheduler. `kill` reaches into every sleep:
it makes a sleeper runnable whatever it waits for.

What makes each part correct:

* log: a crash at any point, in recovery too, leaves all or nothing of each call;
  admitted calls find room; nobody waits forever for a commit.
* process table: every process has a live parent that can reap it, a child's
  death and a parent's `wait` never miss each other, parenthood orders the locks,
  no stack in use is freed.
* scheduler: one hart per process, a context is visible only when it is saved,
  no wakeup is lost, no runnable process starves.
* pipe: bytes come out once, in order; nobody sleeps with work to do; the page is
  freed once.
* driver: descriptors are neither lost nor shared; the device only touches memory
  whose owner waits for it; every request ends.
* buffer cache: one buffer per block, one user per buffer, no modified block is
  evicted.
* name space: link counts agree with directory entries, references with pointers,
  cached inodes with the disk; no call meets a free inode; no cycle of inode locks.
* files: every block is free or in one place of one file; a file is a sequence of
  bytes; a piece of a write fits its transaction.
* memory: every page has one owner; a call that fails leaves everything as it was;
  copies reach the user's own pages only.
* console and clock: interrupts are off exactly while locks are held; whole edited
  lines come out; all output is sent; `sleep(n)` takes `n` ticks.
* shell: a program has the descriptors its line says and no others, the prompt
  comes after the foreground, every line ends.

The hazards, each at its line and with the properties that cover it, are listed
in `PROJECT.json`.

## 2. Modules

| module | models | abstract specification |
|---|---|---|
| `Log` | `log.c`, crash and recovery, the reference counts of `bio.c` it moves | `AtomicDisk` |
| `Proc` | fork, exit, wait, kill at lock granularity | |
| `Sched` | scheduler, yield, sleep and wakeup on several harts | |
| `Pipe` | one pipe from creation to `kfree` | `Fifo` |
| `VirtioDisk` | driver, interrupt handler, device (external) | |
| `BufCache` | buffer cache and its sleep-locks | `BlockStore` |
| `Fs` | inode cache, directories, paths, the file system calls, the file table | |
| `FileBlocks` | bitmap, `bmap`, `itrunc`, `readi`, `writei`, `fileread`, `filewrite`, the mkfs image | `ByteFiles` |
| `Vm` | page allocator, page tables, `fork`/`exec`/`sbrk`/`exit` as seen by memory | |
| `Console` | console, UART, PLIC, clock, `push_off`/`pop_off` | `LineInput` |
| `ShParse` | the parser of the shell, with the way commands are written as its reference | |
| `Sh` | `runcmd` and `main` of the shell, `init` | |
| `MC*` | constants and symmetries for TLC | |
| `LogProofs`, `SchedProofs`, `ProcProofs`, `PipeProofs`, `BufCacheProofs`, `VirtioDiskProofs`, `FileBlocksProofs`, `ConsoleProofs` | theorems about these modules (section 4) | |

### Granularity

A critical section under a spin-lock that does not sleep and in which nothing
else is observed is one action. Where the code gives up a lock, reads a field
without its lock, takes a second lock, or writes a block to the disk, there is a
step boundary. `Sched` justifies the treatment of `sleep` and `wakeup` as atomic
in the other modules: it models their steps one by one and shows that no wakeup
is lost. Pipes are finer: `kill` does not take `pi->lock`, so the test of
`killed`, the enqueueing on the channel and the wakeup are separate steps.

### Log

Variables are the disk (`disk`, `dlog`, `dhead`), the buffers of the home blocks
(`cache`, `refcnt`), `struct log` (`lh`, `outstanding`, `committing`), the loop
index `tail` of the copy loops and a program counter per process. `begin_op`,
`modify` and `log_write` (a caller changes a block and logs it; the test for
"too big a transaction" is made before `log.lock` is taken, so it is a step of
its own), `end_op`, then one action per block write of `commit`: `write_log`,
`write_head`, `install_trans`, `clear`, `end_commit`. `crash` keeps the disk
only; `read_head`, `recover_install` and `recover_clear` are the boot.
`recycle` is the rest of the kernel evicting an unreferenced buffer. A call
writes at most `OpBlocks` distinct blocks. The disk writes one block atomically:
the used part of the header (124 bytes) lies in one sector.

### Proc

One record of `proc[]` per slot, `lock[q]` names the slot whose thread holds
`q->lock`; each acquire is a step, so lock order and unlocked reads are visible.
The scans of `reparent` and `wait` are represented by the next slot at which
something happens; this is exact for a process to which only its own `fork` gives
children (`CheckedParentStable`, a conjunct of `ParentAlive`). init is given children
by the `exit` of others, so its `wait` looks at one slot at a time (`init_scan`). `kill` walks the table one
lock at a time and changes at most one slot. init never exits (it would be a
panic, and `user/init.c` loops), and it forks again only when the `sh` it forked first
is gone.

### Sched

`cpu[c]` is the process on hart c, `plock` and `lk` name the hart that holds
`p->lock` and the lock of the condition. One condition variable `cond` stands for
whatever the sleepers wait for; `signal` is a thread that makes it true and
calls `wakeup`, which visits the processes one by one. The boot hart runs from
the start, another one enters its scheduler at any later moment (`main`).

### Pipe, VirtioDisk, BufCache

`Pipe`: counters are modulo `UMOD` (2^32 in the code), a multiple of `PIPESIZE`.
`Killable` bounds who may be killed. `copyin`/`copyout` may fail.
`VirtioDisk`: a request is a chain of three descriptors; the ring indices are
modulo `IDXMOD`; the device takes requests in order and completes them in any
order. `b->disk` is `bdisk`. `BufCache`: one member of `Procs` is one use of a
buffer; a process that holds two at a time counts as two. Modified blocks are
written with `bwrite` or pinned as `log_write` does and written by a later
holder as `install_trans` does. A `bget` that finds no unused buffer panics and spins
with `bcache.lock` held; the others go on until they need that lock.

### Fs

A system call is a sequence of steps that end where the code gives up an inode's
sleep-lock or `icache.lock`: `ilock` of the next path element, each stage of `iput`
(test, free, invalidate, drop), `ialloc`, `dirlink`. `st[p]` holds the inode the
process waits for, the references it has still to drop and where it goes on, which
is how `ilock` and `iput` return into their callers. `icache` is indexed by inode
number, because `iget` scans and recycles in one critical section. `Calls` gives
each process the calls it makes; `crash` may happen whenever no call is in
progress, which is the moment `Log` shows a reboot to find. File contents are in
`FileBlocks`.

### FileBlocks

A block holds `BSIZE` units, bytes or block numbers. One turn of the loop of
`writei` and one `bfree` of `itrunc` is a step; other files are written and
truncated in between. Freed blocks keep junk, so a missing `bzero` is visible.
`copyin` may fail at any block, the disk may be full (`balloc` panics, which ends the
behaviour). `logged` counts what a transaction passes to `log_write`. `ByteFiles` is
a file as a sequence of bytes with atomic pieces of writes.

### Vm

One action per call. The calls work on page tables that nobody else touches, so what
other processes do shows only in how many pages there are: each call draws the
number of pages (`Lefts`) after which `kalloc` returns 0, and so fails at every
possible place. Page tables have three levels with `PER` entries per node; the nodes
are pages too. Sizes are in units, `PGSIZE` of them per page, so rounding matters.

### Console

Each hart has a process and, on top of it, at most one interrupt handler; `acquire`
is two steps (`push_off`, then the swap). Reading LSR and writing THR are separate
steps. The indices of the input ring and `ticks` are modulo `UINT`. `consolewrite`, the echo of keys and kernel `printf`
(an unknown system call, `procdump` for control-P) all send; `printf` takes `pr.lock` and
no other, and `uart.pr` marks that one of the characters in THR is its own. The 16550 and
the user at the keyboard are external. A key may also stand for `kill()` of a
sleeping reader.

### ShParse and Sh

A line is a sequence of tokens. `ShParse` has one operator per parse function; the
reference is `Written`, the way a command tree is written down, and `ParsesBack` says
that parsing undoes it. `Sh` runs the trees: a process has a command, a table of
descriptors and the path of the command in its line. The kernel is what the other
modules show it to be: pipes are bounded queues with an end of file, `wait` takes
the first exited child in the table, orphans go to init. A program writes up to
`PIPESIZE + 1` bytes, reads its input to the end and exits.

## 3. Runs

| run | instance | shows |
|---|---|---|
| `log_crash` | 2 processes, 2 blocks, 2 values, log of 4, crashes | `AtomicSpec`: the log implements `AtomicDisk`; `DurableOnlyAtCommit`; `QuiescentDurable` |
| `log_calls` | 3 processes, 3 blocks, `nlog = LOGSIZE = 4`, calls below their reservation, eviction | `NoPanicWithSlack`, `LoggedStaysCached`, `CallsEnd` |
| `proc_table` | 4 slots, pids up to 5, `kill(2)`, failing allocation | `ParentAlive`, `WaitersNotified`, `StackNotFreed`, `LocksOrdered` |
| `sched` | 3 processes, 1 hart that a second one joins | `OneCPU`, `NoLostWakeup`, `RunnableRuns` |
| `pipe_ring` | 2 readers, 2 writers, 2 byte values, ring of 2, counters modulo 4, calls of up to 3 bytes | `FifoSpec`: the pipe implements `Fifo`; `SleepersHaveReason`, `FreedOnce` |
| `disk_rings` | 3 processes, 7 descriptors, indices modulo 7 | `DescriptorsPartitioned`, `DeviceOwnsBuffer`, `AllocatorsNotified` |
| `bufcache` | 2 users, 3 buffers, 4 blocks, 2 pins | `StoreSpec`: the cache implements `BlockStore`; `SleepersHaveHolder` |
| `fs_calls` | 2 processes, 3 inodes, 2 names, 1 open file | `LinkCounts`, `RefCounts`, `CacheCoherent`, `CallsProceed` |
| `file_blocks` | 2 processes, 2 files, blocks of 2 units, 1 direct and 1 indirect block, disk of 5 | `FilesSpec`: files implement `ByteFiles`; `BlocksOwned`, `OpFits` |
| `vm` | 2 processes, 22 pages, nodes of 2 entries, pages of 2 units, `kalloc` failing after 0 to 12 pages | `PagesOwned`, `MappedToSize`, `FailureUndone`, `CopyExact` |
| `console` | 2 harts, rings of 3, indices and ticks modulo 6, six workloads | `LinesSpec`: the ring implements `LineInput`; `DevicesSafe`, `OutputDrains`, `SleptEnough` |
| `shell` | 8 slots, 2 pipes of one byte, five sessions, one failing call | `RunsAsWritten`, `ForegroundDone`, `LinesEnd` |

Each module has one `TypeOK`, a conjunct of one of the invariants of its run (an
invariant of its own in `Log`). `MCPipeLive.cfg`, which is not in the list, also passes: one
reader and one writer see the end of the file and the closed read end.

Bounds. Two processes and two blocks give every kind of overlap of two calls and
a commit, absorption, and a crash in each copy loop with one block done and one
to do; a third process is needed for one that waits while another enters
(`log_calls`). Four slots are init, a parent, a child and a grandchild; pids up
to 5 (4 after a `kill`, which comes before pid 4 is taken) allow the reuse of a slot
after every slot was used, or more reuses of fewer; init forks `sh` with pid 2 and may
fork it again with pid 5 (`InitPids`). The reuse in which `MCProcDeadlock.cfg`, the same table with other properties,
finds the deadlock happens in this run, and `LocksOrdered` is about the states before
it. A pipe of two bytes with counters modulo 4 wraps both within one call of
3 bytes. Seven descriptors hold two requests, with a third process that gets
the one that is left, gives it back and waits; the indices wrap after seven requests.
Three buffers for four blocks force eviction; with two pins and two users `bget` can
find every buffer taken and panic. The code does not exclude that (`NBUF` and `LOGSIZE`
are both 30, readers need no reservation); what is shown is that it happens only then,
so no count leaks. `log_calls` has calls that write one block of the two they reserve,
which satisfies `Slack` by one; at full reservation there is a panic (section 5). Three
inodes are the root, a directory and an entry of it or a sibling,
which is what the lock orders and the reuse of a number need; the calls of `fs_calls`
keep every current directory at depth one (the deeper case is a finding, section 5).
Five blocks of which a file can use four let two files collide and fill the disk;
`BPB = 3` puts them under two bitmap blocks. 22 pages are two processes with their
tables and an `exec` that holds two tables; `MaxSz = 6` is three pages. The state of
`vm` is explored up to a renaming of physical pages (`UpToRenaming`). In `console` a
workload is a pair of calls whose drivers share state; rings of three slots and
indices modulo six wrap within a line. In `shell` the sessions have a pipe of three,
a block in a pipe with a redirection, a background command in a pipe, a `cd` followed
by a list with a background part, and a syntax error; the parser is checked on the
404 commands of up to three levels in `SmallTrees`.

Deadlock checking is off where the system may stop: processes of `Proc` use up
their pids and wait, the users of a pipe close it, the user of the shell stops
typing.

### Fairness

* `Log`: the kernel runs every call in progress (weak fairness of its steps) and a
  call's loops over blocks are bounded, hence it comes to `end_op` although it
  may `log_write` again before (strong fairness of `end_op`). Starting a call is
  up to the process.
* `Sched`: harts execute (weak fairness). A timer interrupt that arrives while
  interrupts are off stays pending and is taken when they are on again, hence
  strong fairness of `yield`. `RunnableRuns` speaks of the time in which one hart
  runs: the test-and-set spin-locks of `spinlock.c` promise no order among harts,
  so with several harts one that spins may lose every race, and no such property
  holds of the code. The second hart may stay in `main` forever.
* `Pipe` (`MCPipeLive.cfg`): calls in progress are executed as far as locks and
  sleep allow. One reader and one writer for the same reason as above.
* `Console`: each hart executes, the UART sends what it holds, and a pending
  interrupt is taken by some hart that has interrupts on (weak fairness each);
  keys and ticks come when they like.
* `Sh`: the scheduler runs every process that can run, which is what
  `RunnableRuns` says of it (weak fairness of each process and of init).
* `VirtioDisk`: the device completes what it took, a raised interrupt is delivered.

## 4. Proofs

The proof modules prove with TLAPS, for every value of the constants that the
modules' assumptions allow:

| theorem | statement | hypotheses beyond the assumptions on constants |
|---|---|---|
| `LogTypeOK` | `Spec => []TypeOK` of `Log` | |
| `LogCommitPoint` | `Spec => DurableOnlyAtCommit` | |
| `LogNoPanic` | `Spec => [](Slack => ~panicked)` of `Log` | in the statement |
| `LogAtomic` | `Spec /\ []LoggedStaysCached => AtomicSpec` | in the statement |
| `LogDurable` | `Spec /\ []LoggedStaysCached => []QuiescentDurable` | in the statement |
| `LogPins` | `Spec => []LoggedStaysCached` | `PinsHold` |
| `LogCorrect` | `Spec => AtomicSpec /\ []QuiescentDurable` | `PinsHold` |
| `OneCPUHolds`, `NoLostWakeupHolds` | `Spec => []OneCPU`, `Spec => []NoLostWakeup` | |
| `ProcParentAlive`, `ProcStackNotFreed`, `ProcWaitersNotified` | `Spec => []...` of `Proc` | |
| `ProcLocksOrdered` | `Spec => [](ParentNotReused => NoDeadlock)` | in the statement |
| `PipeFifoSpec`, `PipeFreedOnce` | `Spec => FifoSpec`, `Spec => []FreedOnce` | |
| `PipeSleepers` | `Spec => []SleepersHaveReason` | no writer is killed |
| `CacheStore`, `CacheBuffers` | `Spec => StoreSpec`, `Spec => []SleepersHaveHolder` | |
| `DiskDescriptors`, `DiskBuffers`, `DiskAllocators` | `Spec => []...` of `VirtioDisk` | |
| `FilesBlocksOwned` | `Spec => []BlocksOwned` | `RootFits` |
| `FilesOpFits` | `Spec => []OpFits` | `RootFits`, `FSSIZE \div BPB + 2 <= MAXOPBLOCKS` |
| `FilesImplement` | `Spec => FilesSpec` | `RootFits` |
| `ConsoleDevicesSafe` | `Spec => []DevicesSafe` | |
| `ConsoleSleptEnough` | `Spec => SleptEnough` | |
| `ConsoleLines` | `Spec => LinesSpec` | |

The hypotheses are there because the code needs them; without each of them TLC finds
a counterexample (section 5 and the bounds of section 3):

* `Slack`: a call writes fewer blocks than it reserves, fewer than the log holds, and
  `LOGSIZE + 2 * OpBlocks < NLOG - 1 + 2 * MAXOPBLOCKS`. With the constants of `param.h`
  and `mkfs.c` (30, 10, 30) that is `OpBlocks <= 9`, one less than `MAXOPBLOCKS`; with 10
  the code panics (`MCLogFull.cfg`). The factor is 2 because a call that is alone in the
  log is safe by the second condition, so two calls at least keep a spare block each.
* `LoggedStaysCached` is what `log.c` needs of `bio.c`. `PinsHold` says that nothing
  else evicts buffers, or that the machine does not crash: after a crash recovery
  unpins what nobody has pinned (`MCLogRecover.cfg`).
* `ParentNotReused` is a condition on the state, not on the run: the slot in which an
  `exit` found its parent is free by now, or its process is older than the one that
  exits. In every state of which that is true there is no deadlock, whatever happened
  before. Where the slot has been given to a younger process there can be one
  (`MCProcDeadlock.cfg`).
* a killed writer leaves `pipewrite` without a wakeup (`MCPipeKillWriter.cfg`).
* `RootFits`: the root directory of the image does not end at the end of a block; mkfs
  would give it the size of a block that it does not have (section 5).
* the second hypothesis of `FilesOpFits`: `itrunc` logs every bitmap block of the disk
  in the worst case, so they must fit into one transaction. With `param.h` there is
  one bitmap block, and `MAXOPBLOCKS` is 10.

Every argument is an inductive invariant with a lemma per action, and each module
begins with it. What the invariants add to the properties, and why that is needed:

* `Log`, `Inv`: the types alone are not inductive, since `tail` and the appended block
  numbers stay inside the log only because of the reservation. `Control`: at most one
  process is in the commit path, exactly when `committing` is set, with no call in
  progress. `Written`: what a call in progress has written is in the log or is about
  to be. `Room`: the blocks in the log plus one token for each block that a call in
  progress may still append fit into the log; `begin_op` adds `MAXOPBLOCKS` tokens and
  tests for them, `log_write` of a new block turns a token into an entry, absorption
  and `end_op` only remove tokens. `Header`: the header on the disk is empty, or equals
  `lh` between the commit point and the end of the installation, and the blocks before
  `tail` have been copied home.
* `Log`, `MemInv`: for the atomic disk the three places a block can be in must be
  related. `Clean`: a buffer differs from its home block only if it is logged or about
  to be. `Copied`: the log blocks that the commit has written hold what memory holds.
  `Drained`: the transaction is empty when nobody is in it. With them every block write
  of the commit and of recovery leaves both `Memory` and `Durable` alone, except the
  first `write_head`, which is the atomic commit. `PinInv` adds that `refcnt` counts
  the pin and the holder exactly.
* `Sched`: which hart holds `p->lock` follows from where the process is (`Hosted`,
  `Owned`): the lock is taken by one thread and released by another across `swtch`.
  `Noticed` carries the sleeper from the test under `lk` to `SLEEPING`: in between the
  condition may become true only together with a `wakeup` that waits for `p->lock`.
* `Proc`: `Reparented` and `Watched` say what the two scans have achieved for the slots
  behind their loop variables, `Locks` that the copy of `p->parent` that `exit` uses is
  the parent or was replaced by init, `PidsBounded` keeps the bound on pids (a bound of
  the model) inductive. init is excluded from `Watched` and from `WaitersNotified`: an
  adopted zombie can be missed (`MCProcInit.cfg`).
* `Proc`, the order of the locks: `Ages` says that a process is younger (has a larger
  pid) than its parent, which `reparent` keeps because init is the oldest; `Owners`
  that a lock is held by its own process or by one that exits and takes it for its
  parent's. So whoever holds a lock and spins on another one waits for a younger
  process (`WaitsForYounger`): `wait` and `reparent` for a child or for a child of the
  child, `exit` for a child of its own. The youngest process of a cycle waits for nobody.
* `Pipe`: `Exclusive`, `Inside` and `Ends` say who holds `pi->lock` and which references
  a process in each place still has. The queue of the refinement is the part of the
  ring between the counters; that a step appends or removes one byte of it is
  arithmetic of counters modulo `UMOD` and places modulo `PIPESIZE` (where
  `PIPESIZE` divides `UMOD`, as `PipeAssumption` requires and 512 and 2^32 do).
* `BufCache`: `refcnt` counts the processes that were given a buffer and its pin
  (`Counted`); so a recycled buffer has no user, a block has one buffer (`Distinct`), and
  the holder of a sleep-lock is the process that is in its critical section.
  That a panic finds every buffer held or pinned (`PanicsOnlyFull`) is `Counted` again.
* `VirtioDisk`: a request is in one place at a time: about to be published
  (`Publishing`), in the avail ring (`Avail`), in the device (`Busy`), in the used ring
  (`Used`), or seen. `Chains` gives each request three descriptors of its own, so that
  at most `NUM / 3` requests exist (`Counts`), and neither ring, whose indices are taken
  modulo `NUM` and `IDXMOD`, is ever overwritten.
* `FileBlocks`: `Names` gives every place of every inode the block it names, 0 for the
  places that a running `itrunc` is done with (`Cut`); `Owned` says that it is
  injective and that its values are the bitmap. A step of `itrunc` takes one name away,
  a step of `writei` adds none, the block's, or those of the indirect block and the
  block. That the writes themselves leave the names of other files alone follows from
  `Owned` again: the block that is written is no indirect block. `Filled`: what is below
  the size, and below where a `writei` is, is named. `Logs` bounds what a transaction
  has logged by the places it has come to: the block of an unaligned offset exists
  already (`Filled`) and needs no bitmap block, so a piece of `m` blocks logs at most
  `m + 1` data blocks, `m` bitmap blocks, the indirect block with its bitmap block and
  the inode, which is `MAXOPBLOCKS` by the way `filewrite` computes `max`.
* `FileBlocks`, the refinement: the bytes of a file are read through the names of its
  blocks, so with `Owned` a step that writes a block changes the bytes of one file only,
  and a newly named block changes none below a size. `Written` says that what a
  `writei` in progress has copied is in the file, also beyond its size, where no reader sees
  it: the update of the size at the end then shows bytes that were written and no others.
  A file is empty from the first step of its `itrunc` on, and the other ones are stutters.
* `Console`: everything but three facts about the devices is said of one hart at a time
  (`HartInv`), so that a step of a hart has to be examined for that hart alone, and a lemma
  carries the others over. `Balanced` derives `noff`, `intena` and whether
  interrupts are on from where the code is: no lock is held in an interrupted process,
  a handler holds no lock at its end. `Holds` says which locks are held, `Claims` that
  one hart serves the UART and the first one the clock. `Sending`, that THR is empty,
  but for what `printf` wrote, where a hart is about to write it, holds although the echo in `consoleintr` takes no
  lock of the UART, because whoever is about to send, `printf` aside, has two of
  `cons.lock`, `uart_tx_lock` and the claim of the PLIC, so that two senders would share
  one of them (`SendsAlone`). `printf` has none of them, and THR is overrun in a race with
  it (section 5), which is why `DevicesSafe` excepts it. `Clocked` ties `since`, the history of a
  sleep, to the difference of `ticks` modulo `UINT`; `NextTick`
  says that this difference does not wrap. It rests on a bound of the model: `timer`
  does not fire while some call of `sleep` is `UINT - 1` ticks old, which with 2^32 ticks of a
  tenth of a second is more than ten years.
* `Console`, the refinement: the text between two indices is a sequence of places modulo
  `INPUT_BUF`, and `INPUT_BUF` divides `UINT`, as `ConsoleAssumption` requires and 128 and
  2^32 do. The invariant `LineOK` says that `r`, `w` and `e` are in this order, at most
  `INPUT_BUF` apart, and that between `w` and `e` no line has ended.

The invariants were checked by TLC on the instances of section 3 before they were
proved. The lemmas about the operators of the models (`Min`, `MoveToFront`,
ring places, cardinalities) are stated once per module and cited by name.

Only model-checked:

* liveness (`CallsEnd`, `RunnableRuns`, `OutputDrains`, `LinesEnd`): fairness and
  `ENABLED` are out of the prover's reach;
* `Sh` and `ShParse` (`RunsAsWritten`, `ForegroundDone`): their operators are recursive;
* `Vm` (`PagesOwned`, `MappedToSize`, `FailureUndone`, `CopyExact`): a call is one
  action whose effect is a fold over the pages of an address space, and what a fold
  computes for every size takes an induction over data;
* `Fs` (`LinkCounts`, `RefCounts`, `CacheCoherent`, `CallsProceed`): counts over
  directories, descriptors and the continuations of every call; no proof has been
  attempted (section 6).

## 5. Disagreements between code and comments

Each entry of "findings" has a configuration with which TLC shows the violation; they
are kept apart from the runs of section 3, which pass. Where a configuration is listed
twice, the cfg names the property of its first row; for the other row put the property
of that row in its place, with the change of a constant that the row gives.

| configuration | module | violated | what happens |
|---|---|---|---|
| `MCLogRecover.cfg` | `MCLog` | `LoggedStaysCached` | `install_trans` unpins blocks that recovery never pinned; the unsigned count wraps, a later pin brings it to 0, and a logged block can be evicted before the commit |
| `MCLogFull.cfg` | `MCLog` | `NoPanic` | calls that use their whole reservation with `nlog = LOGSIZE` |
| `MCProcDeadlock.cfg` | `MCProc` | `NoDeadlock` | `exit` uses a copy of `p->parent`; if that slot was reused by a descendant, two processes take two locks in opposite orders |
| `MCProcInit.cfg` | `MCProc` | `InitNotified` | init sleeps on an adopted zombie |
| `MCProcInit.cfg` with `KillPids <- Pid0` | `MCProc` | `KilledWasTarget` | `kill(0)` marks a free slot |
| `MCPipeKillWriter.cfg` | `MCPipe` | `SleepersHaveReason` | a killed writer leaves a full pipe with sleeping readers |
| `MCPipeKillWriter.cfg` with `Killable <- OneReader` | `MCPipe` | `KilledNotAsleep` | `kill` between test and sleep |
| `MCVirtioDiskRace.cfg` | `MCVirtioDisk` | `RequestsFinish` | `virtio_disk_intr` acknowledges after its last look at the used ring; a completion in between is never noticed if no other follows |
| `MCFsRemoved.cfg` | `MCFs` | `NoPanic` | `chdir("..")` in a directory that was removed together with its parent locks a free inode |
| `MCFileBlocksCopy.cfg` | `MCFileBlocks` | `EveryWriteLogged` | a `copyin` that fails in the middle of a block leaves a changed buffer that is not logged |
| `MCFileBlocksCopy.cfg` with `Boot = 2` | `MCFileBlocks` | `NoHoles` | mkfs rounds a root directory that fills its blocks up to one block more than it has |
| `MCFileBlocksCopy.cfg` | `MCFileBlocks` | `FailureReported` | `writei` returns `n` after a failed `copyin` |
| `MCConsoleFull.cfg` | `MCConsole` | `NoPanic` | `consolewrite` holds `cons.lock` while `uartputc` sleeps |
| `MCConsoleFull.cfg` | `MCConsole` | `ThrEmpty` | `printf` and another sender both find LSR idle and both write THR (the FIFO that `uartinit` enables holds the second character on a 16550) |

Two more observations that no line contradicts: `create` into a directory that was
removed between `nameiparent` and `ilock` makes a file nobody can reach (`lost` in
`Fs`), and a `copyout` that fails in `piperead` loses the byte.

## 6. Not modelled, and plan

Proofs that are worth adding: `RefCounts` for `Fs`, whose inductive invariant is a count
of the references in the table of open files, the current directories and `st`; and
`PagesOwned` for `Vm`, which first needs the calls of `vm.c` page by page instead of
as folds.

Left out: `Log` composed with `BufCache` (`BlockStore` is the interface between them),
the `NINODE` limit of the inode cache (every inode has an entry in `Fs`; the code
panics when it runs out), `fstat`, `getpid` and `uptime`, which read a word or two,
the user-level allocator and the tools in `user/`, which are sequential.

Out of scope: assembly (`swtch.S`, `trampoline.S`, `entry.S`, `kernelvec.S`),
register and page-table bit layouts, the formatting of `printf`, string helpers, boot code, the
test programs and the grading scripts.
