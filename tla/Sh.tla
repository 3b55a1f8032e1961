--------------------------------- MODULE Sh ---------------------------------
(* The shell at work: runcmd() and main() of src/user/sh.c and the loop of
   src/user/init.c, on processes with file descriptors and pipes.  The system
   calls are what the kernel modules show them to be: pipes are bounded queues
   with an end of file (Pipe), wait() returns a zombie child and orphans go to
   init (Proc), descriptors are allocated from the lowest (Fs).              *)
EXTENDS ShParse, FiniteSets

CONSTANTS NPROC,      \* slots; slot 1 is init
          NOFILE,     \* descriptors of a process
          NPIPE,      \* pipes the kernel has memory for
          PIPESIZE,   \* bytes in a pipe
          Sessions,   \* what a user may type: sequences of lines, a line of tokens
          Trees       \* commands the parser is checked with

(* The commands of all lines.                                               *)
Lines   == UNION {{s[i] : i \in 1..Len(s)} : s \in Sessions}
Command == [line \in Lines |-> parsecmd(line)]

VARIABLES proc,       \* slot -> process
          pipe,       \* pipe -> bytes in it and the command it was made for
          session,    \* the lines this user types
          typed,      \* how many of them so far
          failed      \* a system call has failed

vars == <<proc, pipe, session, typed, failed>>

Slots == 1..NPROC
Fds   == 0..(NOFILE - 1)
Pipes == 1..NPIPE

(* What a descriptor refers to.                                             *)
File(kind, name, k) == [kind |-> kind, name |-> name, pipe |-> k]
Shut    == File("none", "", 0)
Tty     == File("tty", "", 0)

Free == [state |-> "unused", parent |-> 0, pc |-> "", cmd |-> execcmd(<<>>), path |-> <<>>,
         fd |-> [f \in Fds |-> Shut], bg |-> FALSE, cwd |-> FALSE, n |-> 0]

Init ==
  /\ proc = [p \in Slots |-> IF p = 1 THEN [Free EXCEPT !.state = "run", !.parent = 1,
                                                        !.pc = "init"] ELSE Free]
  /\ pipe = [k \in Pipes |-> [n |-> 0, path |-> <<>>]]
  /\ session \in Sessions
  /\ typed = 0
  /\ failed = FALSE

-----------------------------------------------------------------------------
(* System calls                                                            *)

At(p, pc) == proc[p].state = "run" /\ proc[p].pc = pc

Lowest(S)    == CHOOSE x \in S : \A y \in S : x <= y
close(r, f)  == [r EXCEPT !.fd[f] = Shut]
opened(r, e) == [r EXCEPT !.fd[Lowest({f \in Fds : r.fd[f] = Shut})] = e]
dup(r, f)    == opened(r, r.fd[f])

Holders(kind, k) ==
  {p \in Slots : proc[p].state = "run" /\ \E f \in Fds : proc[p].fd[f] = File(kind, "", k)}
Unopened == {k \in Pipes : Holders("read", k) \union Holders("write", k) = {}}

Unused == {q \in Slots : proc[q].state = "unused"}

(* fork1(): the child is a copy with the fields given; the parent goes to pc.  *)
fork1(p, child, pc) ==
  /\ Unused # {}
  /\ proc' = [proc EXCEPT ![Lowest(Unused)] = [child EXCEPT !.parent = p], ![p].pc = pc]
  /\ UNCHANGED <<pipe, session, typed, failed>>

(* exit(): the descriptors are closed, the children go to init.             *)
exited(procs, p) ==
  [q \in Slots |-> IF q = p THEN [Free EXCEPT !.state = "zombie", !.parent = procs[p].parent,
                                              !.bg = procs[p].bg]
                   ELSE IF procs[q].state # "unused" /\ procs[q].parent = p
                   THEN [procs[q] EXCEPT !.parent = 1] ELSE procs[q]]

exit(p) == proc' = exited(proc, p) /\ UNCHANGED <<pipe, session, typed>>

(* wait(0): the first child in the table that has exited; whoever waits has
   forked a child.                                                          *)
Exited(p) == {q \in Slots : proc[q].state = "zombie" /\ proc[q].parent = p}

wait(p, r) ==
  /\ Exited(p) # {}
  /\ proc' = [proc EXCEPT ![Lowest(Exited(p))] = Free, ![p] = r]
  /\ UNCHANGED <<pipe, session, typed, failed>>

(* panic() and every other way of giving up; one call at most fails for want of
   memory or of a file (a bound), any number for want of a slot or of a pipe. *)
panics(p) == failed' = TRUE /\ exit(p)
fails(p)  == ~failed /\ panics(p)
fork_fails(p) == (failed => Unused = {}) /\ panics(p)

-----------------------------------------------------------------------------
(* init.c: standard descriptors, then a shell, again and again.             *)

init_open ==
  /\ At(1, "init")
  /\ proc' = [proc EXCEPT ![1] = [opened(opened(opened(@, Tty), Tty), Tty) EXCEPT !.pc = "start"]]
  /\ UNCHANGED <<pipe, session, typed, failed>>

(* fork() and exec("sh"); a slot is free, that of the shell before, and n holds
   pid.  A call of init that fails stops the kernel (Proc) and does not fail here. *)
init_fork ==
  /\ At(1, "start")
  /\ \E q \in {Lowest(Unused)} :
       proc' = [proc EXCEPT ![q] = [proc[1] EXCEPT !.parent = 1, !.pc = "sh"],
                            ![1].pc = "reap", ![1].n = q]
  /\ UNCHANGED <<pipe, session, typed, failed>>

init_wait ==
  /\ At(1, "reap")
  /\ wait(1, [proc[1] EXCEPT !.pc = IF Lowest(Exited(1)) = proc[1].n THEN "start" ELSE "reap"])

-----------------------------------------------------------------------------
(* sh.c main()                                                              *)

(* Three descriptors are open: the fourth is closed again.                  *)
sh_open(p) ==
  /\ At(p, "sh")
  /\ proc' = [proc EXCEPT ![p].pc = "getcmd"]
  /\ UNCHANGED <<pipe, session, typed, failed>>

(* getcmd(): a line; after the last line the end of the input, once, and then a
   user who types nothing more.                                             *)
getcmd(p) ==
  /\ At(p, "getcmd")
  /\ typed' = typed + 1
  /\ \/ /\ typed < Len(session)
        /\ proc' = [proc EXCEPT ![p].pc = IF session[typed'][1] = "cd" THEN "cd" ELSE "fork"]
     \/ typed = Len(session) /\ proc' = exited(proc, p)
  /\ UNCHANGED <<pipe, session, failed>>

chdir(p) ==
  /\ At(p, "cd")
  /\ \/ /\ proc' = [proc EXCEPT ![p].pc = "getcmd", ![p].cwd = TRUE]
        /\ UNCHANGED failed
     \/ /\ ~failed /\ failed' = TRUE
        /\ proc' = [proc EXCEPT ![p].pc = "getcmd"]
  /\ UNCHANGED <<pipe, session, typed>>

sh_fork(p) ==
  /\ At(p, "fork")
  /\ \/ fork1(p, [proc[p] EXCEPT !.pc = "parse", !.path = <<typed>>], "sh_wait")
     \/ fork_fails(p)

sh_wait(p) == At(p, "sh_wait") /\ wait(p, [proc[p] EXCEPT !.pc = "getcmd"])

-----------------------------------------------------------------------------
(* runcmd()                                                                 *)

(* The child goes down to the command it will run.                          *)
Run(r, cmd, step) == [r EXCEPT !.pc = "run", !.cmd = cmd, !.path = @ \o step]

parse(p) ==
  /\ At(p, "parse")
  /\ LET r == Command[session[proc[p].path[1]]] IN
     IF r.panic # "" THEN exit(p) ELSE /\ proc' = [proc EXCEPT ![p] = Run(@, r.cmd, <<>>)]
                                       /\ UNCHANGED <<pipe, session, typed>>
  /\ UNCHANGED failed

Runs(p, type) == At(p, "run") /\ proc[p].cmd.type = type

(* EXEC: the program is there and will write n bytes, or exec() fails.      *)
run_exec(p) ==
  /\ Runs(p, "EXEC")
  /\ \/ /\ proc[p].cmd.argv # <<>>
        /\ \E n \in 0..(PIPESIZE + 1) :
             proc' = [proc EXCEPT ![p].pc = "program", ![p].n = n]
        /\ UNCHANGED <<pipe, session, typed>>
     \/ exit(p)
  /\ UNCHANGED failed

run_redir(p) ==
  LET c == proc[p].cmd IN
  /\ Runs(p, "REDIR")
  /\ \/ /\ proc' = [proc EXCEPT ![p] = Run(opened(close(@, c.fd), File("file", c.file, 0)),
                                           c.cmd, <<>>)]
        /\ UNCHANGED <<pipe, session, typed, failed>>
     \/ fails(p)

run_list(p) ==
  /\ Runs(p, "LIST")
  /\ fork1(p, Run(proc[p], proc[p].cmd.left, <<1>>), "list") \/ fork_fails(p)

list_wait(p) == At(p, "list") /\ wait(p, Run(proc[p], proc[p].cmd.right, <<2>>))

(* PIPE: p[0] and p[1], the two children, both ends closed, two waits.      *)
run_pipe(p) ==
  /\ Runs(p, "PIPE")
  /\ \/ /\ Unopened # {}
        /\ LET k == Lowest(Unopened) IN
           /\ proc' = [proc EXCEPT ![p] = [opened(opened(@, File("read", "", k)), File("write", "", k))
                                             EXCEPT !.pc = "left", !.n = k]]
           /\ pipe' = [pipe EXCEPT ![k] = [n |-> 0, path |-> proc[p].path]]
        /\ UNCHANGED <<session, typed, failed>>
     \/ (failed => Unopened = {}) /\ panics(p)

End(r, kind) == CHOOSE f \in Fds : r.fd[f] = File(kind, "", r.n)

(* Mutants: the write end stays open in the right child, in the parent.     *)
RightEnds_leaky(r)  == close(dup(close(r, 0), End(r, "read")), End(r, "read"))
ParentEnds_leaky(r) == close(r, End(r, "read"))

LeftEnds(r)   == close(close(dup(close(r, 1), End(r, "write")), End(r, "read")), End(r, "write"))
RightEnds(r)  == close(close(dup(close(r, 0), End(r, "read")), End(r, "read")), End(r, "write"))
ParentEnds(r) == close(close(r, End(r, "read")), End(r, "write"))

pipe_left(p) ==
  /\ At(p, "left")
  /\ fork1(p, [proc[p] EXCEPT !.pc = "inleft"], "right") \/ fork_fails(p)

pipe_right(p) ==
  /\ At(p, "right")
  /\ fork1(p, [proc[p] EXCEPT !.pc = "inright"], "close") \/ fork_fails(p)

(* The children arrange their descriptors and run their side.               *)
in_left(p) ==
  /\ At(p, "inleft")
  /\ proc' = [proc EXCEPT ![p] = [Run(LeftEnds(@), @.cmd.left, <<1>>) EXCEPT !.n = 0]]
  /\ UNCHANGED <<pipe, session, typed, failed>>

in_right(p) ==
  /\ At(p, "inright")
  /\ proc' = [proc EXCEPT ![p] = [Run(RightEnds(@), @.cmd.right, <<2>>) EXCEPT !.n = 0]]
  /\ UNCHANGED <<pipe, session, typed, failed>>

(* Mutant: the parent waits for one child only.                             *)
Waits_once == 1

Waits == 2

pipe_close(p) ==
  /\ At(p, "close")
  /\ proc' = [proc EXCEPT ![p] = [ParentEnds(@) EXCEPT !.pc = "waits", !.n = Waits]]
  /\ UNCHANGED <<pipe, session, typed, failed>>

pipe_wait(p) ==
  /\ At(p, "waits")
  /\ IF proc[p].n > 0 THEN wait(p, [proc[p] EXCEPT !.n = @ - 1])
     ELSE exit(p) /\ UNCHANGED failed

(* BACK: the child is nobody's, the parent ends.                            *)
run_back(p) ==
  /\ Runs(p, "BACK")
  /\ fork1(p, [Run(proc[p], proc[p].cmd.cmd, <<1>>) EXCEPT !.bg = TRUE], "done") \/ fork_fails(p)

done(p) == At(p, "done") /\ exit(p) /\ UNCHANGED failed

-----------------------------------------------------------------------------
(* A program: writes what it has to standard output, reads standard input to the
   end, and exits; it exits at once when nobody reads what it writes.        *)
write(p) ==
  LET e == proc[p].fd[1] IN
  /\ At(p, "program") /\ proc[p].n > 0
  /\ \/ /\ e.kind = "write" /\ Holders("read", e.pipe) = {}
        /\ exit(p)
     \/ /\ e.kind = "write" /\ Holders("read", e.pipe) # {} /\ pipe[e.pipe].n < PIPESIZE
        /\ pipe' = [pipe EXCEPT ![e.pipe].n = @ + 1]
        /\ proc' = [proc EXCEPT ![p].n = @ - 1]
        /\ UNCHANGED <<session, typed>>
     \/ /\ e.kind # "write"
        /\ proc' = [proc EXCEPT ![p].n = 0]
        /\ UNCHANGED <<pipe, session, typed>>
  /\ UNCHANGED failed

read(p) ==
  LET e == proc[p].fd[0] IN
  /\ At(p, "program") /\ proc[p].n = 0
  /\ \/ /\ e.kind = "read" /\ pipe[e.pipe].n > 0
        /\ pipe' = [pipe EXCEPT ![e.pipe].n = @ - 1]
        /\ UNCHANGED <<proc, session, typed>>
     \/ /\ e.kind = "read" => pipe[e.pipe].n = 0 /\ Holders("write", e.pipe) = {}
        /\ exit(p)
  /\ UNCHANGED failed

Step(p) ==
  \/ sh_open(p) \/ getcmd(p) \/ chdir(p) \/ sh_fork(p) \/ sh_wait(p)
  \/ parse(p) \/ run_exec(p) \/ run_redir(p) \/ run_list(p) \/ list_wait(p)
  \/ run_pipe(p) \/ pipe_left(p) \/ pipe_right(p) \/ in_left(p) \/ in_right(p)
  \/ pipe_close(p) \/ pipe_wait(p) \/ run_back(p) \/ done(p)
  \/ write(p) \/ read(p)

InitStep == init_open \/ init_fork \/ init_wait

Next == InitStep \/ \E p \in Slots : Step(p)

Spec == Init /\ [][Next]_vars

(* The scheduler runs every process that can run.                           *)
FairSpec == Spec /\ WF_vars(InitStep) /\ \A p \in Slots : WF_vars(Step(p))

-----------------------------------------------------------------------------
(* Properties                                                               *)

(* Type invariant: processes, pipes and how far the user has got.            *)
TypeOK ==
  /\ \A p \in Slots : /\ proc[p].state \in {"unused", "run", "zombie"}
                      /\ proc[p].parent \in 0..NPROC /\ proc[p].n \in Nat
  /\ \A k \in Pipes : pipe[k].n \in 0..PIPESIZE
  /\ typed \in 0..(Len(session) + 1) /\ failed \in BOOLEAN

(* What a line means: the standard input and output of the program at the end of
   path, when those of the whole command t are i and o and t is at path at.   *)
PipeAt(kind, at) == [kind |-> kind, name |-> "", path |-> at]

RECURSIVE Means(_, _, _, _, _)
Means(t, path, at, i, o) ==
  CASE t.type = "EXEC"  -> <<i, o>>
    [] t.type = "REDIR" ->
         Means(t.cmd, path, at,
               IF t.fd = 0 THEN [kind |-> "file", name |-> t.file, path |-> <<>>] ELSE i,
               IF t.fd = 1 THEN [kind |-> "file", name |-> t.file, path |-> <<>>] ELSE o)
    [] t.type = "BACK"  -> Means(t.cmd, Tail(path), Append(at, 1), i, o)
    [] t.type = "LIST"  ->
         Means(IF path[1] = 1 THEN t.left ELSE t.right, Tail(path), Append(at, path[1]), i, o)
    [] t.type = "PIPE"  ->
         IF path[1] = 1 THEN Means(t.left, Tail(path), Append(at, 1), i, PipeAt("write", at))
                        ELSE Means(t.right, Tail(path), Append(at, 2), PipeAt("read", at), o)

Denoted(e) == [kind |-> e.kind, name |-> e.name,
               path |-> IF e.kind \in {"read", "write"} THEN pipe[e.pipe].path ELSE <<>>]

(* Every program starts with exactly the descriptors its line means: 0 and 1 from
   its redirections and pipes, 2 the console, and no end of a pipe besides,
   wherever it stands in pipes, lists, blocks and the background; in the directory
   the last cd went to.  The lines are parsed as they are written.          *)
RunsAsWritten ==
  /\ TypeOK
  /\ proc[1].pc = "init" => \A t \in Trees : ParsesBack(t)
  /\ \A p \in Slots : At(p, "program") =>
       LET line == proc[p].path[1] IN
       /\ <<Denoted(proc[p].fd[0]), Denoted(proc[p].fd[1])>>
            = Means(Command[session[line]].cmd, Tail(proc[p].path), <<line>>, Denoted(Tty), Denoted(Tty))
       /\ proc[p].fd[2] = Tty
       /\ \A f \in Fds : f > 2 => proc[p].fd[f] = Shut
       /\ ~failed => (proc[p].cwd <=> \E i \in 1..line : session[i][1] = "cd")

(* Unless a system call has failed, the shell prompts again only when all programs
   of its lines have ended, those in the background aside.                   *)
ForegroundDone ==
  (\E p \in Slots : At(p, "getcmd")) /\ ~failed =>
     \A q \in Slots : proc[q].state # "unused" /\ proc[q].path # <<>> => proc[q].bg

(* Every line comes to its end and every process that has exited is reaped: no
   reader waits for the end of a pipe some waiting process keeps open.      *)
LinesEnd ==
  \A p \in Slots : /\ (proc[p].pc = "sh_wait") ~> (proc[p].pc # "sh_wait")
                   /\ (proc[p].state = "zombie") ~> (proc[p].state # "zombie")
=============================================================================
