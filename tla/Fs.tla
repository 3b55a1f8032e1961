--------------------------------- MODULE Fs ---------------------------------
(* Inodes, directories, path names and the system calls that work on them:
   src/kernel/fs.c (inode cache, directories, namex), src/kernel/sysfile.c and
   the open-file table of src/kernel/file.c.

   A system call is a sequence of steps.  A process that waits for an inode's
   sleep-lock has it in st[p].want, the inodes it has still to iput() are
   st[p].put, and it goes on with st[p].pc once both are dealt with: that is how
   the calls of ilock() and iput() are returned from.  Everything between
   ilock() and iunlock() that only touches that inode is one step.

   An inode-cache entry is named by the inode it holds: iget() scans and recycles
   under one icache.lock, so an inode has one entry.  An entry with ref = 0 keeps
   nothing that the code reads again.  Path names are sequences of elements, the
   first of an absolute one is "/".  Each call runs inside begin_op()/end_op();
   what that gives is the business of Log: a crash leaves the disk as some
   moment at which no call was in progress had it.                         *)
EXTENDS Naturals, Sequences, FiniteSets

CONSTANTS Procs,     \* processes
          NoProc,    \* the holder of a lock that is free
          NI,        \* inodes on the disk, sb.ninodes - 1
          Names,     \* names a directory entry can have, besides "." and ".."
          NFILE,     \* entries of the open-file table
          NOFILE,    \* descriptors of a process
          Calls      \* process -> the calls with path names that it makes

ASSUME FsAssumption == NoProc \notin Procs /\ NI \in Nat \ {0} /\ NFILE \in Nat /\ NOFILE \in Nat

VARIABLES dinode,    \* inode -> type and link count on the disk
          dir,       \* inode -> directory entries, name -> inode, 0 if absent
          icache,    \* inode -> its entry of the inode cache
          st,        \* process -> where it is in its system call
          cwd,       \* process -> current directory
          ofile,     \* process -> descriptor -> index in ftable, 0 if free
          ftable,    \* open files
          lost,      \* history: inodes whose entry or last reference was wiped
          panicked   \* what the kernel panicked with, "" if it did not

vars == <<dinode, dir, icache, st, cwd, ofile, ftable, lost, panicked>>

ROOTINO == 1
Inums   == 1..NI
Files   == 1..NFILE
Fds     == 1..NOFILE
Dots    == {".", ".."}
Types   == {"none", "dir", "file", "dev", "baddev"}

NoEntries == [n \in Names \union Dots |-> 0]
Unused    == [ref |-> 0, valid |-> FALSE, type |-> "none", nlink |-> 0,
              lock |-> NoProc]
Idle      == [pc |-> "user", call |-> <<>>, k |-> "", path |-> <<>>, ip |-> 0,
              dp |-> 0, want |-> 0, put |-> <<>>, ph |-> ""]
Closed    == [ref |-> 0, ip |-> 0]

(* The memory of a machine that has just booted: everybody in "/".         *)
iinit == [i \in Inums |->
            IF i = ROOTINO THEN [Unused EXCEPT !.ref = Cardinality(Procs)]
                           ELSE Unused]

(* The image mkfs writes has one directory, the root, its own parent.      *)
mkfs_root == [NoEntries EXCEPT !["."] = ROOTINO, ![".."] = ROOTINO]

Init ==
  /\ dinode = [i \in Inums |-> IF i = ROOTINO THEN [type |-> "dir", nlink |-> 1]
                                              ELSE [type |-> "none", nlink |-> 0]]
  /\ dir = [i \in Inums |-> IF i = ROOTINO THEN mkfs_root ELSE NoEntries]
  /\ icache = iinit
  /\ st = [p \in Procs |-> Idle]
  /\ cwd = [p \in Procs |-> ROOTINO]
  /\ ofile = [p \in Procs |-> [fd \in Fds |-> 0]]
  /\ ftable = [f \in Files |-> Closed]
  /\ lost = {}
  /\ panicked = ""

-----------------------------------------------------------------------------
(* The inode cache as a value: what each routine makes of it.              *)

iget(ic, i) ==
  [ic EXCEPT ![i] = IF ic[i].ref > 0 THEN [ic[i] EXCEPT !.ref = ic[i].ref + 1]
                                     ELSE [Unused EXCEPT !.ref = 1]]

idup_uncounted(ic, i) == ic   \* mutant: no reference taken

idup(ic, i) == [ic EXCEPT ![i].ref = @ + 1]

(* ilock(): take the sleep-lock, read the inode if it is not valid; it panics
   on an entry that nobody holds and on an inode that is free on the disk.  *)
ilock(ic, i, p) ==
  [ic EXCEPT ![i] = IF ic[i].valid THEN [ic[i] EXCEPT !.lock = p]
                    ELSE [ref |-> ic[i].ref, valid |-> TRUE, lock |-> p,
                          type |-> dinode[i].type, nlink |-> dinode[i].nlink]]

ilock_panics(i) == icache[i].ref < 1 \/ (~icache[i].valid /\ dinode[i].type = "none")

iunlock(ic, i) == [ic EXCEPT ![i].lock = NoProc]

SetNlink(ic, i, n) == [ic EXCEPT ![i].nlink = n]

(* iupdate() of the inodes I: the cached copy goes to the disk.            *)
iupdate(ic, I) ==
  dinode' = [i \in Inums |->
               IF i \in I THEN [type |-> ic[i].type, nlink |-> ic[i].nlink]
                          ELSE dinode[i]]

FreeInums == {i \in Inums : dinode[i].type = "none"}

(* dirlookup(): the inode an entry names, 0 if there is none.              *)
dirlookup(d, n) == dir[d][n]

isdirempty(d) == \A n \in Names : dir[d][n] = 0

(* skipelem(): the first element of a path and the rest of it.             *)
skipelem(path) == <<Head(path), Tail(path)>>

(* How many links a new or removed entry of this type is for its parent:
   the ".." of a directory is one.                                         *)
DotDotLinks_none(type) == 0   \* mutant: ".." is not counted

DotDotLinks(type) == IF type = "dir" THEN 1 ELSE 0

(* Process p executes the step pc: it has no iput() left to do and gets the
   lock it waits for, if any; L(p) is the cache and S(p) its state from then. *)
At(p, pc) == /\ panicked = ""
             /\ st[p].put = <<>> /\ st[p].pc = pc
             /\ st[p].want # 0 => /\ icache[st[p].want].lock = NoProc
                                 /\ ~ilock_panics(st[p].want)

L(p) == IF st[p].want = 0 THEN icache ELSE ilock(icache, st[p].want, p)
S(p) == [st[p] EXCEPT !.want = 0]

Goto(p, s)   == st' = [st EXCEPT ![p] = s]
Return(p, q) == Goto(p, [Idle EXCEPT !.put = q])   \* after the iput()s of q

panic(msg) ==
  /\ panicked' = msg
  /\ UNCHANGED <<dinode, dir, icache, st, cwd, ofile, ftable, lost>>

-----------------------------------------------------------------------------
(* iput(), under icache.lock: if this is the last reference to an inode
   without links, its sleep-lock is taken (sleeping here, with icache.lock
   held, would be a panic of sched()); otherwise the reference is dropped.  *)
LastRef(i) == icache[i].ref = 1 /\ icache[i].valid /\ icache[i].nlink = 0

iput(p) ==
  LET i == Head(st[p].put) IN
  /\ panicked = "" /\ st[p].put # <<>> /\ st[p].ph = ""
  /\ IF LastRef(i) /\ icache[i].lock # NoProc THEN panic("sched locks")
     ELSE /\ IF LastRef(i)
             THEN /\ icache' = [icache EXCEPT ![i].lock = p]
                  /\ st' = [st EXCEPT ![p].ph = "trunc"]
             ELSE /\ icache' = IF icache[i].ref = 1 THEN [icache EXCEPT ![i] = Unused]
                               ELSE [icache EXCEPT ![i].ref = @ - 1]
                  /\ st' = [st EXCEPT ![p].put = Tail(@)]
          /\ UNCHANGED <<dinode, dir, cwd, ofile, ftable, lost, panicked>>

(* ... itrunc(), type = 0, iupdate() with only the sleep-lock held ...     *)
iput_free(p) ==
  LET i == Head(st[p].put) IN
  /\ panicked = "" /\ st[p].ph = "trunc"
  /\ icache' = [icache EXCEPT ![i].type = "none"]
  /\ iupdate(icache', {i})
  /\ dir' = [dir EXCEPT ![i] = NoEntries]
  /\ lost' = lost \union {dir[i][n] : n \in {m \in Names : dir[i][m] # 0}}
  /\ st' = [st EXCEPT ![p].ph = "inval"]
  /\ UNCHANGED <<cwd, ofile, ftable, panicked>>

(* ... valid = 0, releasesleep(); the reference is dropped by the iput step. *)
Invalid_kept(ic, i) == ic   \* mutant: valid is not reset

Invalid(ic, i) == [ic EXCEPT ![i].valid = FALSE]

iput_inval(p) ==
  LET i == Head(st[p].put) IN
  /\ panicked = "" /\ st[p].ph = "inval"
  /\ icache' = iunlock(Invalid(icache, i), i)
  /\ st' = [st EXCEPT ![p].ph = "drop"]
  /\ UNCHANGED <<dinode, dir, cwd, ofile, ftable, lost, panicked>>

iput_drop(p) ==
  LET i == Head(st[p].put) IN
  /\ panicked = "" /\ st[p].ph = "drop"
  /\ icache' = IF icache[i].ref = 1 THEN [icache EXCEPT ![i] = Unused]
               ELSE [icache EXCEPT ![i].ref = @ - 1]
  /\ st' = [st EXCEPT ![p].put = Tail(@), ![p].ph = ""]
  /\ UNCHANGED <<dinode, dir, cwd, ofile, ftable, lost, panicked>>

-----------------------------------------------------------------------------
(* Path names: namex().  k is the step its caller goes on with.            *)

ForParent(k) == k \in {"link_new", "unlink", "create"}

(* The first iget() or idup(): of the root or of the current directory.    *)
Start(p, path) == IF path # <<>> /\ Head(path) = "/" THEN ROOTINO ELSE cwd[p]
Elements(path) == IF path # <<>> /\ Head(path) = "/" THEN Tail(path) ELSE path

(* What namex() does next for the call state s: lock a directory, or end its
   loop.  A caller that gets an inode locks it; one that gets none iput()s q
   and returns -1, but sys_link() goes to bad and locks the old inode again. *)
Fails(s, q) ==
  IF s.k = "link_new"
  THEN [s EXCEPT !.pc = "link_bad", !.put = q, !.want = s.ip, !.dp = 0, !.path = <<>>]
  ELSE [Idle EXCEPT !.put = q]

namex(s) ==
  IF s.path # <<>> THEN [s EXCEPT !.pc = "namex_dir", !.want = s.dp]
  ELSE IF ForParent(s.k) THEN Fails(s, <<s.dp>>)
  ELSE [s EXCEPT !.pc = s.k, !.ip = s.dp, !.dp = 0, !.want = s.dp]

Caller(op) == CASE op = "link" -> "link_old"
                [] op \in {"mkdir", "mknod", "create"} -> "create"
                [] OTHER -> op

syscall(p, c) ==
  LET i == Start(p, c.path) IN
  /\ At(p, "user")
  /\ icache' = IF i = cwd[p] THEN idup(icache, i) ELSE iget(icache, i)
  /\ Goto(p, namex([Idle EXCEPT !.call = c, !.k = Caller(c.op), !.dp = i,
                                !.path = Elements(c.path)]))
  /\ UNCHANGED <<dinode, dir, cwd, ofile, ftable, lost, panicked>>

(* One turn of the loop, with the directory locked.                        *)
namex_dir(p) ==
  LET s    == S(p)
      ic   == L(p)
      next == dirlookup(s.dp, skipelem(s.path)[1])
      rest == skipelem(s.path)[2]
  IN
  /\ At(p, "namex_dir")
  /\ IF ic[s.dp].type = "dir" /\ ForParent(s.k) /\ rest = <<>>
     THEN /\ icache' = iunlock(ic, s.dp)
          /\ Goto(p, [s EXCEPT !.pc = s.k, !.want = s.dp])
     ELSE IF ic[s.dp].type # "dir" \/ next = 0
     THEN /\ icache' = iunlock(ic, s.dp)
          /\ Goto(p, Fails(s, <<s.dp>>))
     ELSE /\ icache' = iunlock(iget(ic, next), s.dp)
          /\ Goto(p, [namex([s EXCEPT !.path = rest, !.dp = next])
                        EXCEPT !.put = <<s.dp>> \o @])
  /\ UNCHANGED <<dinode, dir, cwd, ofile, ftable, lost, panicked>>

-----------------------------------------------------------------------------
(* sys_link()                                                              *)

(* The old inode is locked: count the link before it exists.               *)
link_old(p) ==
  LET s == S(p)
      ic == L(p)
      j == Start(p, s.call.new)
      ln == SetNlink(iunlock(ic, s.ip), s.ip, ic[s.ip].nlink + 1)
  IN
  /\ At(p, "link_old")
  /\ IF ic[s.ip].type = "dir"
     THEN /\ icache' = iunlock(ic, s.ip)
          /\ Return(p, <<s.ip>>)
          /\ UNCHANGED dinode
     ELSE /\ icache' = IF j = cwd[p] THEN idup(ln, j) ELSE iget(ln, j)
          /\ iupdate(ln, {s.ip})
          /\ Goto(p, namex([s EXCEPT !.k = "link_new", !.dp = j,
                                     !.path = Elements(s.call.new)]))
  /\ UNCHANGED <<dir, cwd, ofile, ftable, lost, panicked>>

(* The new directory is locked: dirlink(), which looks the name up first.  *)
link_new(p) ==
  LET s == S(p)
      ic == L(p)
      n == Head(s.path)
      found == dirlookup(s.dp, n)
  IN
  /\ At(p, "link_new")
  /\ IF found # 0
     THEN /\ icache' = iget(ic, found)
          /\ Goto(p, [s EXCEPT !.pc = "link_dup", !.put = <<found>>])
          /\ UNCHANGED dir
     ELSE /\ dir' = [dir EXCEPT ![s.dp][n] = s.ip]
          /\ icache' = iunlock(ic, s.dp)
          /\ Return(p, <<s.dp, s.ip>>)
  /\ UNCHANGED <<dinode, cwd, ofile, ftable, lost, panicked>>

link_dup(p) ==
  /\ At(p, "link_dup")
  /\ icache' = iunlock(icache, st[p].dp)
  /\ Goto(p, Fails(st[p], <<st[p].dp>>))
  /\ UNCHANGED <<dinode, dir, cwd, ofile, ftable, lost, panicked>>

(* bad: the old inode is locked again, and the link is taken back.         *)
link_bad(p) ==
  LET i == st[p].ip
      ic == L(p)
  IN
  /\ At(p, "link_bad")
  /\ icache' = SetNlink(iunlock(ic, i), i, ic[i].nlink - 1)
  /\ iupdate(icache', {i})
  /\ Return(p, <<i>>)
  /\ UNCHANGED <<dir, cwd, ofile, ftable, lost, panicked>>

-----------------------------------------------------------------------------
(* sys_unlink()                                                            *)

(* The directory is locked.                                                *)
CannotUnlink_dot(n) == n = "."   \* mutant: ".." may be unlinked

CannotUnlink(n) == n \in Dots

unlink(p) ==
  LET s == S(p)
      ic == L(p)
      n == Head(s.path)
      found == dirlookup(s.dp, n)
  IN
  /\ At(p, "unlink")
  /\ IF CannotUnlink(n) \/ found = 0
     THEN /\ icache' = iunlock(ic, s.dp)
          /\ Return(p, <<s.dp>>)
     ELSE /\ icache' = iget(ic, found)
          /\ Goto(p, [s EXCEPT !.pc = "unlink_ip", !.ip = found, !.want = found])
  /\ UNCHANGED <<dinode, dir, cwd, ofile, ftable, lost, panicked>>

(* Directory and entry are locked: erase the entry, and the ".." link.     *)
unlink_ip(p) ==
  LET s == S(p)
      ic == L(p)
      t == ic[s.ip].type
  IN
  /\ At(p, "unlink_ip")
  /\ IF ic[s.ip].nlink < 1 THEN panic("unlink: nlink < 1")
     ELSE /\ IF t = "dir" /\ ~isdirempty(s.ip)
             THEN /\ icache' = iunlock(ic, s.ip)
                  /\ Goto(p, [s EXCEPT !.pc = "unlink_bad", !.put = <<s.ip>>, !.ip = 0])
                  /\ UNCHANGED <<dinode, dir>>
             ELSE /\ dir' = [dir EXCEPT ![s.dp][Head(s.path)] = 0]
                  /\ icache' = iunlock(SetNlink(ic, s.dp,
                                   ic[s.dp].nlink - DotDotLinks(t)), s.dp)
                  /\ iupdate(icache', {s.dp})
                  /\ Goto(p, [s EXCEPT !.pc = "unlinked", !.put = <<s.dp>>, !.dp = 0])
          /\ UNCHANGED <<cwd, ofile, ftable, lost, panicked>>

unlink_bad(p) ==
  /\ At(p, "unlink_bad")
  /\ icache' = iunlock(icache, st[p].dp)
  /\ Return(p, <<st[p].dp>>)
  /\ UNCHANGED <<dinode, dir, cwd, ofile, ftable, lost, panicked>>

unlinked(p) ==
  LET i == st[p].ip
      ic == L(p)
  IN
  /\ At(p, "unlinked")
  /\ icache' = iunlock(SetNlink(ic, i, ic[i].nlink - 1), i)
  /\ iupdate(icache', {i})
  /\ Return(p, <<i>>)
  /\ UNCHANGED <<dir, cwd, ofile, ftable, lost, panicked>>

-----------------------------------------------------------------------------
(* create(), called by sys_open(), sys_mkdir() and sys_mknod()             *)

NewType(c) == CASE c.op = "mkdir" -> "dir" [] c.op = "mknod" -> c.type
                [] OTHER -> "file"

(* The directory is locked: an existing entry is locked after it is let go. *)
create(p) ==
  LET s == S(p)
      ic == L(p)
      found == dirlookup(s.dp, Head(s.path))
  IN
  /\ At(p, "create")
  /\ IF found # 0
     THEN /\ icache' = iunlock(iget(ic, found), s.dp)
          /\ Goto(p, [s EXCEPT !.pc = "create_found", !.ip = found, !.want = found,
                               !.put = <<s.dp>>, !.dp = 0])
     ELSE /\ Goto(p, [s EXCEPT !.pc = "ialloc"])
          /\ icache' = ic
  /\ UNCHANGED <<dinode, dir, cwd, ofile, ftable, lost, panicked>>

create_found(p) ==
  LET s == S(p)
      ic == L(p)
  IN
  /\ At(p, "create_found")
  /\ IF s.call.op = "create" /\ ic[s.ip].type \in {"file", "dev", "baddev"}
     THEN /\ Goto(p, [s EXCEPT !.pc = "opened"])
          /\ icache' = ic
     ELSE /\ icache' = iunlock(ic, s.ip)
          /\ Return(p, <<s.ip>>)
  /\ UNCHANGED <<dinode, dir, cwd, ofile, ftable, lost, panicked>>

(* ialloc(): the first inode that is free on the disk, whatever the cache
   says of it; the scan is one step.                                       *)
ialloc(p) ==
  /\ At(p, "ialloc")
  /\ IF FreeInums = {} THEN panic("ialloc: no inodes")
     ELSE LET i == CHOOSE j \in FreeInums : \A k \in FreeInums : j <= k IN
          /\ dinode' = [dinode EXCEPT ![i] = [type |-> NewType(st[p].call), nlink |-> 0]]
          /\ dir' = [dir EXCEPT ![i] = NoEntries]
          /\ icache' = iget(icache, i)
          /\ st' = [st EXCEPT ![p].pc = "create_new", ![p].ip = i, ![p].want = i]
          /\ UNCHANGED <<cwd, ofile, ftable, lost, panicked>>

(* Directory and new inode are locked: links, "." and "..", the entry.     *)
create_new(p) ==
  LET s == S(p)
      ic == L(p)
      t == NewType(s.call)
      ln == SetNlink(SetNlink(ic, s.ip, 1), s.dp, ic[s.dp].nlink + DotDotLinks(t))
      dots == IF t = "dir" THEN [NoEntries EXCEPT !["."] = s.ip, ![".."] = s.dp]
                           ELSE NoEntries
  IN
  /\ At(p, "create_new")
  /\ iupdate(ln, {s.ip, s.dp})
  /\ dir' = [dir EXCEPT ![s.ip] = dots, ![s.dp][Head(s.path)] = s.ip]
  /\ icache' = iunlock(ln, s.dp)
  /\ Goto(p, [s EXCEPT !.pc = IF s.call.op = "create" THEN "opened" ELSE "created",
                       !.put = <<s.dp>>, !.dp = 0])
  /\ UNCHANGED <<cwd, ofile, ftable, lost, panicked>>

(* sys_mkdir() and sys_mknod() return.                                     *)
created(p) ==
  /\ At(p, "created")
  /\ icache' = iunlock(icache, st[p].ip)
  /\ Return(p, <<st[p].ip>>)
  /\ UNCHANGED <<dinode, dir, cwd, ofile, ftable, lost, panicked>>

-----------------------------------------------------------------------------
(* sys_open(), sys_chdir() and the calls on descriptors                    *)

(* Without O_CREATE: the inode is locked, directories are read only.       *)
open(p) ==
  LET s == S(p)
      ic == L(p)
  IN
  /\ At(p, "open")
  /\ IF ic[s.ip].type = "dir" /\ s.call.write
     THEN /\ icache' = iunlock(ic, s.ip)
          /\ Return(p, <<s.ip>>)
     ELSE /\ Goto(p, [s EXCEPT !.pc = "opened"])
          /\ icache' = ic
  /\ UNCHANGED <<dinode, dir, cwd, ofile, ftable, lost, panicked>>

filealloc == {f \in Files : ftable[f].ref = 0}
fdalloc(p) == {fd \in Fds : ofile[p][fd] = 0}

(* A file and a descriptor for the locked inode: the file takes over the
   reference.  A file without a descriptor is given back.                  *)
opened(p) ==
  LET i == st[p].ip
      ic == L(p)
  IN
  /\ At(p, "opened")
  /\ icache' = iunlock(ic, i)
  /\ IF ic[i].type = "baddev" \/ filealloc = {} \/ fdalloc(p) = {}
     THEN /\ Return(p, <<i>>)
          /\ UNCHANGED <<ftable, ofile>>
     ELSE LET f  == CHOOSE x \in filealloc : \A y \in filealloc : x <= y
              fd == CHOOSE x \in fdalloc(p) : \A y \in fdalloc(p) : x <= y
          IN /\ ftable' = [ftable EXCEPT ![f] = [ref |-> 1, ip |-> i]]
             /\ ofile' = [ofile EXCEPT ![p][fd] = f]
             /\ Return(p, <<>>)
  /\ UNCHANGED <<dinode, dir, cwd, lost, panicked>>

chdir(p) ==
  LET i == st[p].ip
      ic == L(p)
  IN
  /\ At(p, "chdir")
  /\ icache' = iunlock(ic, i)
  /\ IF ic[i].type # "dir" THEN Return(p, <<i>>) /\ UNCHANGED cwd
     ELSE Return(p, <<cwd[p]>>) /\ cwd' = [cwd EXCEPT ![p] = i]
  /\ UNCHANGED <<dinode, dir, ofile, ftable, lost, panicked>>

(* argfd(): the descriptors of p that name an open file.                   *)
argfd(p) == {fd \in Fds : ofile[p][fd] # 0}

sys_dup(p) ==
  /\ At(p, "user") /\ fdalloc(p) # {}
  /\ \E old \in argfd(p) :
       LET fd == CHOOSE x \in fdalloc(p) : \A y \in fdalloc(p) : x <= y IN
       /\ ofile' = [ofile EXCEPT ![p][fd] = ofile[p][old]]
       /\ ftable' = [ftable EXCEPT ![ofile[p][old]].ref = @ + 1]
  /\ UNCHANGED <<dinode, dir, icache, st, cwd, lost, panicked>>

(* fileclose(): the last one gives the inode's reference up.               *)
fileclose(f) == [ftable EXCEPT ![f] = IF @.ref > 1 THEN [@ EXCEPT !.ref = @ - 1]
                                                   ELSE Closed]

sys_close(p) ==
  /\ At(p, "user")
  /\ \E fd \in argfd(p) :
       LET f == ofile[p][fd] IN
       /\ ofile' = [ofile EXCEPT ![p][fd] = 0]
       /\ ftable' = fileclose(f)
       /\ Return(p, IF ftable[f].ref = 1 THEN <<ftable[f].ip>> ELSE <<>>)
  /\ UNCHANGED <<dinode, dir, icache, cwd, lost, panicked>>

(* filestat() and, in what matters here, readi() for a read: lock, look,
   unlock.                                                                 *)
filestat(p) ==
  /\ At(p, "user")
  /\ \E fd \in argfd(p) :
       LET i == ftable[ofile[p][fd]].ip IN
       /\ icache[i].lock = NoProc /\ ~ilock_panics(i)
       /\ icache' = iunlock(ilock(icache, i, p), i)
  /\ UNCHANGED <<dinode, dir, st, cwd, ofile, ftable, lost, panicked>>

-----------------------------------------------------------------------------
AtRest == \A p \in Procs : st[p] = Idle

(* A crash and a reboot, as the log lets it happen: nothing of memory is left.
   Inodes that only memory kept are never found again.                     *)
crash ==
  /\ panicked = "" /\ AtRest
  /\ icache' = iinit
  /\ cwd' = [p \in Procs |-> ROOTINO]
  /\ ofile' = [p \in Procs |-> [fd \in Fds |-> 0]]
  /\ ftable' = [f \in Files |-> Closed]
  /\ lost' = lost \union {i \in Inums : dinode[i].type # "none" /\ dinode[i].nlink = 0}
  /\ UNCHANGED <<dinode, dir, st, panicked>>

Stopped == panicked # "" /\ UNCHANGED vars

Next ==
  \/ \E p \in Procs :
       \/ iput(p) \/ iput_free(p) \/ iput_inval(p) \/ iput_drop(p)
       \/ (\E c \in Calls[p] : syscall(p, c)) \/ namex_dir(p)
       \/ link_old(p) \/ link_new(p) \/ link_dup(p) \/ link_bad(p)
       \/ unlink(p) \/ unlink_ip(p) \/ unlink_bad(p) \/ unlinked(p)
       \/ create(p) \/ create_found(p) \/ ialloc(p) \/ create_new(p) \/ created(p)
       \/ open(p) \/ opened(p) \/ chdir(p)
       \/ sys_dup(p) \/ sys_close(p) \/ filestat(p)
  \/ crash
  \/ Stopped

Spec == Init /\ [][Next]_vars
-----------------------------------------------------------------------------
(* Properties                                                              *)

(* Type invariant: the disk, the inode cache, the open files.               *)
TypeOK ==
  /\ dinode \in [Inums -> [type : Types, nlink : 0..(2 * NI)]]
  /\ dir \in [Inums -> [Names \union Dots -> 0..NI]]
  /\ icache \in [Inums -> [ref : Nat, valid : BOOLEAN, type : Types, nlink : Nat,
                          lock : Procs \union {NoProc}]]
  /\ cwd \in [Procs -> Inums]
  /\ ofile \in [Procs -> [Fds -> 0..NFILE]]
  /\ ftable \in [Files -> [ref : 0..(NOFILE * Cardinality(Procs)), ip : 0..NI]]
  /\ lost \subseteq Inums

(* The entries that name an inode, and the directories in it.              *)
Entries(i) == {e \in Inums \X Names : dir[e[1]][e[2]] = i}
Subdirs(i) == {d \in Inums \ {ROOTINO} : dir[d][".."] = i /\ Entries(d) # {}}
Links(i)   == Cardinality(Entries(i)) + Cardinality(Subdirs(i))
              + (IF i = ROOTINO THEN 1 ELSE 0)

(* However link(), unlink(), mkdir() and create() of several processes
   interleave, an inode never has more entries naming it than links counted, so
   it is not freed under a name; whenever no call is in progress, which is when
   the log commits, the two agree (but for inodes of a directory that was
   removed between nameiparent() and the dirlink() into it).               *)
LinkCounts ==
  /\ TypeOK
  /\ \A i \in Inums : Links(i) <= dinode[i].nlink
  /\ AtRest => \A i \in Inums \ lost : Links(i) = dinode[i].nlink

(* A reference count is the number of pointers: the current directories, the
   open files and the variables of the calls in progress.  One too few and
   iput() frees an inode in use, one too many and it is never freed.       *)
RefCounts ==
  \A i \in Inums :
    icache[i].ref =
      Cardinality({p \in Procs : cwd[p] = i})
      + Cardinality({f \in Files : ftable[f].ref > 0 /\ ftable[f].ip = i})
      + Cardinality({h \in Procs \X (1..5) :
           LET v == <<st[h[1]].ip, st[h[1]].dp>> \o st[h[1]].put
           IN h[2] \in DOMAIN v /\ v[h[2]] = i})

(* Whoever can lock a cached inode without waiting finds what the disk has,
   although ialloc() takes a free inode on the disk while an iput() that freed
   it may still hold its cache entry.                                      *)
CacheCoherent ==
  \A i \in Inums :
    icache[i].valid /\ icache[i].lock = NoProc =>
      /\ dinode[i].type # "none"
      /\ dinode[i] = [type |-> icache[i].type, nlink |-> icache[i].nlink]

(* No panic of ilock(), sys_unlink() or, when iput() would have to wait for
   the sleep-lock it says is free, of sched().  Running out of inodes is the
   one panic a full disk causes.                                           *)
NoPanic ==
  /\ panicked \in {"", "ialloc: no inodes"}
  /\ \A p \in Procs : st[p].want # 0 => ~ilock_panics(st[p].want)
  /\ \A f \in Files : ftable[f].ref > 0 => ~ilock_panics(ftable[f].ip)

(* The inode p waits for is locked by somebody in Q.                       *)
WaitsFor(p, Q) == /\ st[p].want # 0 /\ st[p].put = <<>>
                  /\ icache[st[p].want].lock \in Q

(* No call panics, and although sys_unlink() and create() lock a directory and
   then an entry of it, others one inode at a time, no set of processes waits
   for inode locks held within the set.                                    *)
CallsProceed ==
  /\ NoPanic
  /\ \A Q \in SUBSET Procs : Q # {} => \E p \in Q : ~WaitsFor(p, Q)
=============================================================================
