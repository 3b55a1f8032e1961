------------------------------ MODULE LogProofs ------------------------------
(***************************************************************************)
(* Proofs about the log of kernel/log.c, for any number of processes and   *)
(* blocks and any log size.                                                *)
(*   LogTypeOK, LogCommitPoint, LogNoPanic                                 *)
(*               types, the commit point, room in the log                  *)
(*   LogAtomic   log.c implements AtomicDisk: every step of log.c, of      *)
(*               recovery and every crash is a step of the atomic disk or  *)
(*               none, as long as logged blocks stay cached                *)
(*               (LoggedStaysCached), which is what it needs from bio.c    *)
(*   LogDurable  as long as that is so, nothing is lost once end_op() of   *)
(*               the last call has returned                                *)
(*   LogPins     it is so if nothing else uses the buffers, or if the      *)
(*               machine does not crash                                    *)
(* After a crash, recovery unpins buffers that nobody has pinned, and with *)
(* other traffic for the buffers LoggedStaysCached does fail, as           *)
(* MCLogRecover.cfg shows.                                                 *)
(***************************************************************************)
EXTENDS Log, FiniteSetTheorems, TLAPS

(***************************************************************************)
(* The inductive invariant.                                                *)
(***************************************************************************)
CommitPC == {"write_log", "write_head", "install_trans", "clear", "done"}

\* outstanding counts the calls in progress; one process commits at a time, and then no
\* call is in progress; nobody runs before recovery is over.
Control ==
  /\ outstanding = Cardinality(Active)
  /\ \A p, q \in Procs : pc[p] \in CommitPC /\ pc[q] \in CommitPC => p = q
  /\ committing <=> \E p \in Procs : pc[p] \in CommitPC
  /\ committing => Active = {}
  /\ boot # "up" => \A p \in Procs : pc[p] = "idle"

\* what each call in progress has written is in the log, except the block it is logging
Written ==
  /\ \A p \in Procs : IsFiniteSet(wrote[p]) /\ Cardinality(wrote[p]) <= OpBlocks
  /\ \A p \in Procs : pc[p] = "log_write" => buf[p] \in wrote[p]
  /\ \A p \in Active : \A b \in wrote[p] :
        b \in Range(lh) \/ (pc[p] = "log_write" /\ b = buf[p])

\* Process q is about to append a block to the log.
Appending(q) == pc[q] = "log_write" /\ buf[q] \notin Range(lh)

\* One token <<q, i>> for each block that a call in progress may still append.
Tokens ==
  {t \in Procs \X (1..MAXOPBLOCKS) :
     /\ t[1] \in Active
     /\ \/ t[2] > Cardinality(wrote[t[1]])
        \/ t[2] = Cardinality(wrote[t[1]]) /\ Appending(t[1])}

\* The log has room for all of them: this is what begin_op()'s estimate achieves.
Room == Len(lh) + Cardinality(Tokens) <= LOGSIZE

\* the first k-1 blocks of the transaction have been copied home
Installed(k) == \A j \in 1..Len(lh) : j < k => disk[lh[j]] = dlog[j]

\* no block occurs twice in a header
Distinct(h) == \A j, k \in 1..Len(h) : h[j] = h[k] => j = k

\* The header on disk is empty except between the commit point and the end of the
\* installation, or after a crash in that interval.
Header ==
  /\ Distinct(lh) /\ Len(lh) <= LOGSIZE
  /\ Distinct(dhead) /\ Len(dhead) <= LOGSIZE
  /\ boot = "read_head" => lh = <<>>
  /\ boot \in {"install_trans", "clear"} => dhead = lh
  /\ boot = "install_trans" => tail \in 1..Len(lh) /\ Installed(tail)
  /\ boot = "clear" => Installed(Len(lh) + 1)
  /\ boot = "up" => dhead = <<>> \/ \E p \in Procs : pc[p] \in {"install_trans", "clear"}
  /\ \A p \in Procs :
       /\ pc[p] \in {"install_trans", "clear"} => dhead = lh
       /\ pc[p] \in {"write_log", "write_head", "install_trans"} => tail \in 1..Len(lh)
       /\ pc[p] = "install_trans" => Installed(tail)
       /\ pc[p] = "clear" => Installed(Len(lh) + 1)
       /\ pc[p] = "log_write" => buf[p] \in Blocks

Inv == TypeOK /\ Control /\ Written /\ Room /\ Header

-----------------------------------------------------------------------------
(***************************************************************************)
(* The type invariant.                                                     *)
(***************************************************************************)
\* The arithmetic of buf.refcnt stays within its type.
LEMMA RefArith ==
  \A r \in 0..RefMod-1 : Inc(r) \in 0..RefMod-1 /\ Dec(r) \in 0..RefMod-1
BY LogAssumption DEF Inc, Dec

\* The initial state, the disk as mkfs leaves it, satisfies the invariant.
LEMMA InitInv == Init => Inv
<1> SUFFICES ASSUME Init PROVE Inv
  OBVIOUS
<1>1. TypeOK
  <2>1. refcnt \in [Blocks -> 0..RefMod-1] /\ tail \in 1..LOGSIZE
    BY LogAssumption DEF Init
  <2>2. dlog \in [1..LOGSIZE -> Values] /\ cache \in [Blocks -> Values \cup {NoBuf}]
    BY LogAssumption DEF Init
  <2>3. pc \in [Procs -> PC]
    BY DEF Init, PC
  <2>4. dhead \in Seq(Blocks) /\ lh \in Seq(Blocks)
    BY DEF Init
  <2>5. buf \in [Procs -> Blocks \cup {NoBuf}]
    BY DEF Init
  <2>6. wrote \in [Procs -> SUBSET Blocks]
    BY DEF Init
  <2>7. /\ disk \in [Blocks -> Values]
        /\ outstanding \in Nat
        /\ committing \in BOOLEAN /\ panicked \in BOOLEAN
        /\ boot \in {"read_head", "install_trans", "clear", "up"}
    BY DEF Init
  <2>8. QED
    BY <2>1, <2>2, <2>3, <2>4, <2>5, <2>6, <2>7 DEF TypeOK
<1>2. Active = {}
  BY DEF Init, Active
<1>3. Control
  BY <1>2, FS_EmptySet DEF Init, Control, CommitPC
<1>4. Written
  BY <1>2, FS_EmptySet, LogAssumption DEF Init, Written
<1>5. Tokens = {}
  BY <1>2 DEF Tokens
<1>6. Room
  BY <1>5, FS_EmptySet, LogAssumption DEF Init, Room
<1>7. Header
  BY LogAssumption DEF Init, Header, Distinct, Installed
<1> QED
  BY <1>1, <1>3, <1>4, <1>6, <1>7 DEF Inv

\* Every step keeps the shapes of the state.
LEMMA TypeStep == Inv /\ [Next]_vars => TypeOK'
<1> SUFFICES ASSUME Inv, [Next]_vars PROVE TypeOK'
  OBVIOUS
<1> USE DEF Inv
<1>1. CASE UNCHANGED vars
  BY <1>1 DEF TypeOK, vars
<1>2. ASSUME NEW p \in Procs, begin_op(p) PROVE TypeOK'
  <2>1. pc' \in [Procs -> PC]
    BY <1>2 DEF TypeOK, begin_op, PC
  <2>2. outstanding' \in Nat
    BY <1>2 DEF TypeOK, begin_op
  <2>3. wrote' \in [Procs -> SUBSET Blocks]
    BY <1>2 DEF TypeOK, begin_op
  <2>4. QED
    BY <1>2, <2>1, <2>2, <2>3 DEF TypeOK, begin_op, diskVars
<1>3. ASSUME NEW p \in Procs, kill(p) PROVE TypeOK'
  BY <1>3 DEF TypeOK, kill, PC, diskVars, logVars
<1>4. ASSUME NEW p \in Procs, NEW b \in Blocks, NEW v \in Values, modify(p, b, v) PROVE TypeOK'
  <2>1. refcnt' \in [Blocks -> 0..RefMod-1]
    BY <1>4, RefArith DEF TypeOK, modify
  <2>2. QED
    BY <1>4, <2>1 DEF TypeOK, modify, PC, diskVars, logVars
<1>5. ASSUME NEW p \in Procs, log_write(p) PROVE TypeOK'
  <2>1. buf[p] \in Blocks
    BY <1>5 DEF log_write, Header
  <2>2. refcnt' \in [Blocks -> 0..RefMod-1]
    <3>1. refcnt[buf[p]] \in 0..RefMod-1 /\ refcnt \in [Blocks -> 0..RefMod-1]
      BY <2>1 DEF TypeOK
    <3>2. Dec(refcnt[buf[p]]) \in 0..RefMod-1 /\ Dec(Inc(refcnt[buf[p]])) \in 0..RefMod-1
      BY <3>1, RefArith
    <3>3. \/ refcnt' = [refcnt EXCEPT ![buf[p]] = Dec(@)]
          \/ refcnt' = [refcnt EXCEPT ![buf[p]] = Dec(Inc(@))]
      BY <1>5 DEF log_write
    <3>4. QED
      BY <2>1, <3>1, <3>2, <3>3
  <2>3. lh' \in Seq(Blocks)
    <3>1. lh' = lh \/ lh' = Append(lh, buf[p])
      BY <1>5 DEF log_write
    <3>2. lh \in Seq(Blocks)
      BY DEF TypeOK
    <3>3. QED
      BY <2>1, <3>1, <3>2
  <2>4. QED
    BY <1>5, <2>2, <2>3 DEF TypeOK, log_write, PC, diskVars
<1>6. ASSUME NEW p \in Procs, end_op(p) PROVE TypeOK'
  <2>1. Active # {} /\ IsFiniteSet(Active)
    BY <1>6, LogAssumption, FS_Subset DEF end_op, Active
  <2>2. outstanding \in Nat \ {0}
    BY <2>1, FS_EmptySet DEF TypeOK, Control
  <2>3. pc' \in [Procs -> PC]
    BY <1>6 DEF TypeOK, end_op, wakeup, PC
  <2>4. outstanding' \in Nat /\ tail' \in 1..LOGSIZE
    BY <1>6, <2>2, LogAssumption DEF TypeOK, end_op
  <2>5. panicked' \in BOOLEAN /\ committing' \in BOOLEAN
    BY <1>6 DEF TypeOK, end_op
  <2>6. QED
    BY <1>6, <2>3, <2>4, <2>5 DEF TypeOK, end_op, diskVars
<1>7. ASSUME NEW p \in Procs, write_log(p) PROVE TypeOK'
  <2>1. tail \in 1..Len(lh) /\ Len(lh) \in Nat /\ Len(lh) <= LOGSIZE
    BY <1>7 DEF TypeOK, write_log, Header
  <2>2. lh[tail] \in Blocks /\ Mem(lh[tail]) \in Values
    BY <2>1 DEF TypeOK, Mem
  <2>3. tail' \in 1..LOGSIZE
    BY <1>7, <2>1, LogAssumption DEF TypeOK, write_log
  <2>4. pc' \in [Procs -> PC]
    BY <1>7 DEF TypeOK, write_log, PC
  <2>5. QED
    BY <1>7, <2>2, <2>3, <2>4 DEF TypeOK, write_log, logVars
<1>8. ASSUME NEW p \in Procs, write_head(p) PROVE TypeOK'
  BY <1>8, LogAssumption DEF TypeOK, write_head, PC, logVars
<1>9. ASSUME tail \in 1..Len(lh), install_block
      PROVE  /\ disk' \in [Blocks -> Values]
             /\ cache' \in [Blocks -> Values \cup {NoBuf}]
             /\ refcnt' \in [Blocks -> 0..RefMod-1]
             /\ tail' \in 1..LOGSIZE
  <2>1. Len(lh) \in Nat /\ Len(lh) <= LOGSIZE /\ lh[tail] \in Blocks
    BY <1>9 DEF TypeOK, Header
  <2>2. dlog[tail] \in Values
    BY <1>9, <2>1, LogAssumption DEF TypeOK
  <2>3. disk' \in [Blocks -> Values] /\ cache' \in [Blocks -> Values \cup {NoBuf}]
    BY <1>9, <2>1, <2>2 DEF TypeOK, install_block
  <2>4. Dec(Dec(Inc(refcnt[lh[tail]]))) \in 0..RefMod-1
    BY <2>1, RefArith DEF TypeOK
  <2>5. refcnt' \in [Blocks -> 0..RefMod-1]
    BY <1>9, <2>1, <2>4 DEF TypeOK, install_block
  <2>6. tail' \in 1..LOGSIZE
    BY <1>9, <2>1, LogAssumption DEF TypeOK, install_block
  <2>7. QED
    BY <2>3, <2>5, <2>6
<1>10. ASSUME NEW p \in Procs, install_trans(p) PROVE TypeOK'
  <2>1. tail \in 1..Len(lh) /\ install_block
    BY <1>10 DEF install_trans, Header
  <2>2. pc' \in [Procs -> PC]
    BY <1>10 DEF TypeOK, install_trans, PC
  <2>3. QED
    BY <1>10, <1>9, <2>1, <2>2 DEF TypeOK, install_trans, logVars
<1>11. ASSUME NEW p \in Procs, clear(p) PROVE TypeOK'
  BY <1>11 DEF TypeOK, clear, PC
<1>12. ASSUME NEW p \in Procs, end_commit(p) PROVE TypeOK'
  BY <1>12 DEF TypeOK, end_commit, wakeup, PC, diskVars
<1>13. ASSUME NEW b \in Blocks, recycle(b) PROVE TypeOK'
  BY <1>13 DEF TypeOK, recycle, diskVars, logVars, procVars
<1>14. CASE crash
  <2>1. refcnt' \in [Blocks -> 0..RefMod-1] /\ tail' \in 1..LOGSIZE
    BY <1>14, LogAssumption DEF crash
  <2>2. pc' \in [Procs -> PC] /\ cache' \in [Blocks -> Values \cup {NoBuf}]
    BY <1>14 DEF crash, PC
  <2>3. lh' \in Seq(Blocks)
    BY <1>14 DEF crash
  <2>4. buf' \in [Procs -> Blocks \cup {NoBuf}]
    BY <1>14 DEF crash
  <2>5. wrote' \in [Procs -> SUBSET Blocks]
    BY <1>14 DEF crash
  <2>6. /\ outstanding' \in Nat
        /\ committing' \in BOOLEAN /\ panicked' \in BOOLEAN
        /\ boot' \in {"read_head", "install_trans", "clear", "up"}
    BY <1>14 DEF crash
  <2>7. UNCHANGED <<disk, dlog, dhead>>
    BY <1>14 DEF crash, diskVars
  <2>8. QED
    BY <2>1, <2>2, <2>3, <2>4, <2>5, <2>6, <2>7 DEF TypeOK
<1>15. CASE read_head
  BY <1>15, LogAssumption DEF TypeOK, read_head, diskVars, procVars
<1>16. CASE recover_install
  <2>1. tail \in 1..Len(lh) /\ install_block
    BY <1>16 DEF recover_install, Header
  <2>2. QED
    BY <1>16, <1>9, <2>1 DEF TypeOK, recover_install, logVars, procVars
<1>17. CASE recover_clear
  BY <1>17 DEF TypeOK, recover_clear, procVars
<1> QED
  BY <1>1, <1>2, <1>3, <1>4, <1>5, <1>6, <1>7, <1>8, <1>10, <1>11, <1>12, <1>13, <1>14,
     <1>15, <1>16, <1>17 DEF Next, Step, Recovery

-----------------------------------------------------------------------------
(***************************************************************************)
(* Who is active and who commits.                                          *)
(***************************************************************************)
\* The calls in progress are finitely many, and outstanding counts them.
LEMMA ActiveFinite ==
  ASSUME TypeOK, Control
  PROVE  /\ IsFiniteSet(Active)
         /\ outstanding = 0 <=> Active = {}
         /\ outstanding = Cardinality(Active)
<1>1. IsFiniteSet(Active)
  BY LogAssumption, FS_Subset DEF Active
<1> QED
  BY <1>1, FS_EmptySet DEF Control

\* A step that moves no process into or out of a call or a commit keeps Control.
LEMMA ControlSame ==
  ASSUME TypeOK, Control, Active' = Active, UNCHANGED <<outstanding, committing>>,
         \A q \in Procs : pc'[q] \in CommitPC <=> pc[q] \in CommitPC,
         boot' # "up" => \A q \in Procs : pc'[q] = "idle"
  PROVE  Control'
BY DEF Control

\* Every step keeps the count of calls and the exclusion of commits.
LEMMA ControlStep == Inv /\ [Next]_vars => Control'
<1> SUFFICES ASSUME Inv, [Next]_vars PROVE Control'
  OBVIOUS
<1> USE DEF Inv
<1>1. CASE UNCHANGED vars
  BY <1>1 DEF Control, Active, vars
<1>2. ASSUME NEW p \in Procs, begin_op(p) PROVE Control'
  <2>1. CASE pc' = [pc EXCEPT ![p] = "sleep"] /\ UNCHANGED outstanding
    <3>1. \A q \in Procs : pc'[q] = IF q = p THEN "sleep" ELSE pc[q]
      BY <2>1 DEF TypeOK
    <3>2. Active' = Active /\ \A q \in Procs : pc'[q] \in CommitPC <=> pc[q] \in CommitPC
      BY <1>2, <3>1 DEF begin_op, Active, CommitPC
    <3>3. QED
      BY <1>2, <2>1, <3>2, ControlSame DEF begin_op, Running
  <2>2. CASE /\ ~committing
             /\ outstanding' = outstanding + 1
             /\ pc' = [pc EXCEPT ![p] = "op"]
    <3>1. \A q \in Procs : pc'[q] = IF q = p THEN "op" ELSE pc[q]
      BY <2>2 DEF TypeOK
    <3>2. p \notin Active /\ Active' = Active \cup {p}
      BY <1>2, <3>1 DEF begin_op, Active
    <3>3. outstanding' = Cardinality(Active')
      BY <2>2, <3>2, ActiveFinite, FS_AddElement
    <3>4. \A q \in Procs : pc'[q] \notin CommitPC
      BY <2>2, <3>1 DEF Control, CommitPC
    <3>5. committing' = FALSE /\ boot' = "up"
      BY <1>2, <2>2 DEF begin_op, Running, TypeOK
    <3>6. QED
      BY <3>3, <3>4, <3>5 DEF Control
  <2>3. QED
    BY <1>2, <2>1, <2>2 DEF begin_op
<1>3. ASSUME NEW p \in Procs, kill(p) PROVE Control'
  <2>1. \A q \in Procs : pc'[q] = IF q = p THEN "begin" ELSE pc[q]
    BY <1>3 DEF TypeOK, kill
  <2>2. Active' = Active /\ \A q \in Procs : pc'[q] \in CommitPC <=> pc[q] \in CommitPC
    BY <1>3, <2>1 DEF kill, Active, CommitPC
  <2>3. QED
    BY <1>3, <2>2, ControlSame DEF kill, Running, logVars
<1>4. ASSUME NEW p \in Procs, NEW b \in Blocks, NEW v \in Values, modify(p, b, v) PROVE Control'
  <2>1. \A q \in Procs : pc'[q] = IF q = p THEN "log_write" ELSE pc[q]
    BY <1>4 DEF TypeOK, modify
  <2>2. Active' = Active /\ \A q \in Procs : pc'[q] \in CommitPC <=> pc[q] \in CommitPC
    BY <1>4, <2>1 DEF modify, Active, CommitPC
  <2>3. QED
    BY <1>4, <2>2, ControlSame DEF modify, Running, logVars
<1>5. ASSUME NEW p \in Procs, log_write(p) PROVE Control'
  <2>1. \A q \in Procs : pc'[q] = IF q = p THEN "op" ELSE pc[q]
    BY <1>5 DEF TypeOK, log_write
  <2>2. Active' = Active /\ \A q \in Procs : pc'[q] \in CommitPC <=> pc[q] \in CommitPC
    BY <1>5, <2>1 DEF log_write, Active, CommitPC
  <2>3. QED
    BY <1>5, <2>2, ControlSame DEF log_write, Running
<1>6. ASSUME NEW p \in Procs, end_op(p) PROVE Control'
  <2>1. p \in Active /\ ~committing /\ outstanding # 0
    BY <1>6, ActiveFinite DEF end_op, Active, Control
  <2>2. boot' = "up" /\ outstanding' = outstanding - 1
    BY <1>6 DEF end_op, Running
  <2>3. \A q \in Procs : pc[q] \notin CommitPC
    BY <2>1 DEF Control
  <2>4. CASE outstanding = 1
    <3>1. \A q \in Procs :
            pc'[q] = IF q = p THEN IF Len(lh) > 0 THEN "write_log" ELSE "done" ELSE pc[q]
      BY <1>6, <2>4 DEF TypeOK, end_op
    <3>2. Active' = Active \ {p}
      BY <3>1 DEF Active
    <3>3. Cardinality(Active') = 0 /\ IsFiniteSet(Active')
      BY <2>1, <2>4, <3>2, ActiveFinite, FS_RemoveElement
    <3>4. Active' = {}
      BY <3>3, FS_EmptySet
    <3>5. \A q \in Procs : pc'[q] \in CommitPC <=> q = p
      BY <2>3, <3>1 DEF CommitPC
    <3>6. committing' = TRUE
      BY <1>6, <2>4 DEF end_op
    <3>7. outstanding' = Cardinality(Active')
      BY <2>2, <2>4, <3>3
    <3>8. QED
      BY <2>2, <3>4, <3>5, <3>6, <3>7 DEF Control
  <2>5. CASE outstanding # 1
    <3>1. \A q \in Procs :
            pc'[q] = IF q = p THEN "idle" ELSE IF pc[q] = "sleep" THEN "begin" ELSE pc[q]
      BY <1>6, <2>5 DEF TypeOK, end_op, wakeup
    <3>2. Active' = Active \ {p}
      BY <3>1 DEF Active
    <3>3. outstanding' = Cardinality(Active')
      BY <2>1, <2>2, <3>2, ActiveFinite, FS_RemoveElement
    <3>4. \A q \in Procs : pc'[q] \notin CommitPC
      BY <2>3, <3>1 DEF CommitPC
    <3>5. committing' = FALSE
      BY <1>6, <2>1, <2>5 DEF end_op, TypeOK
    <3>6. QED
      BY <2>2, <3>3, <3>4, <3>5 DEF Control
  <2>6. QED
    BY <2>4, <2>5
<1>7. ASSUME NEW p \in Procs, write_log(p) \/ write_head(p) \/ install_trans(p) \/ clear(p)
      PROVE  Control'
  <2>1. pc[p] \in CommitPC /\ pc'[p] \in CommitPC /\ \A q \in Procs : q # p => pc'[q] = pc[q]
    BY <1>7 DEF TypeOK, write_log, write_head, install_trans, clear, CommitPC
  <2>2. Active' = Active /\ \A q \in Procs : pc'[q] \in CommitPC <=> pc[q] \in CommitPC
    BY <2>1 DEF Active, CommitPC
  <2>3. boot' = "up" /\ UNCHANGED <<outstanding, committing>>
    BY <1>7 DEF write_log, write_head, install_trans, clear, Running, logVars
  <2>4. QED
    BY <2>2, <2>3, ControlSame
<1>8. ASSUME NEW p \in Procs, end_commit(p) PROVE Control'
  <2>1. \A q \in Procs :
          pc'[q] = IF q = p THEN "idle" ELSE IF pc[q] = "sleep" THEN "begin" ELSE pc[q]
    BY <1>8 DEF TypeOK, end_commit, wakeup
  <2>2. pc[p] \in CommitPC /\ boot' = "up" /\ committing' = FALSE /\ outstanding' = outstanding
    BY <1>8 DEF end_commit, CommitPC, Running
  <2>3. \A q \in Procs : pc'[q] \notin CommitPC
    BY <2>1, <2>2 DEF Control, CommitPC
  <2>4. Active' = Active
    BY <1>8, <2>1 DEF end_commit, Active
  <2>5. QED
    BY <2>2, <2>3, <2>4 DEF Control
<1>9. ASSUME NEW b \in Blocks, recycle(b) PROVE Control'
  BY <1>9 DEF Control, Active, recycle, logVars, procVars
<1>10. CASE crash
  <2>1. \A q \in Procs : pc'[q] = "idle"
    BY <1>10 DEF crash
  <2>2. Active' = {} /\ \A q \in Procs : pc'[q] \notin CommitPC
    BY <2>1 DEF Active, CommitPC
  <2>3. QED
    BY <1>10, <2>1, <2>2, FS_EmptySet DEF Control, crash
<1>11. CASE Recovery
  <2>1. UNCHANGED <<pc, outstanding, committing>> /\ boot # "up"
    BY <1>11 DEF Recovery, read_head, recover_install, recover_clear, procVars, logVars
  <2>2. Active' = Active
    BY <2>1 DEF Active
  <2>3. QED
    BY <2>1, <2>2 DEF Control
<1> QED
  BY <1>1, <1>2, <1>3, <1>4, <1>5, <1>6, <1>7, <1>8, <1>9, <1>10, <1>11 DEF Next, Step

-----------------------------------------------------------------------------
(***************************************************************************)
(* The room in the log.                                                    *)
(***************************************************************************)
TokensBounded ==
  /\ IsFiniteSet(Tokens)
  /\ Cardinality(Tokens) \in Nat
  /\ outstanding * MAXOPBLOCKS \in Nat
  /\ Cardinality(Tokens) <= outstanding * MAXOPBLOCKS

\* The tokens are finitely many, at most MAXOPBLOCKS for each call in progress.
LEMMA TokensFinite == TypeOK /\ Control => TokensBounded
<1> SUFFICES ASSUME TypeOK, Control PROVE TokensBounded
  OBVIOUS
<1>1. IsFiniteSet(1..MAXOPBLOCKS) /\ Cardinality(1..MAXOPBLOCKS) = MAXOPBLOCKS
  BY LogAssumption, FS_Interval
<1>2. /\ IsFiniteSet(Active \X (1..MAXOPBLOCKS))
      /\ Cardinality(Active \X (1..MAXOPBLOCKS)) = outstanding * MAXOPBLOCKS
  <2>1. IsFiniteSet(Active) /\ outstanding = Cardinality(Active)
    BY ActiveFinite
  <2>2. /\ IsFiniteSet(Active \X (1..MAXOPBLOCKS))
        /\ Cardinality(Active \X (1..MAXOPBLOCKS))
              = Cardinality(Active) * Cardinality(1..MAXOPBLOCKS)
    BY <1>1, <2>1, FS_Product
  <2>3. QED
    BY <1>1, <2>1, <2>2, Zenon
<1>3. Tokens \subseteq Active \X (1..MAXOPBLOCKS)
  BY DEF Tokens
<1>4. IsFiniteSet(Tokens) /\ Cardinality(Tokens) <= Cardinality(Active \X (1..MAXOPBLOCKS))
  BY <1>2, <1>3, FS_Subset
<1>5. Cardinality(Tokens) \in Nat /\ Cardinality(Active \X (1..MAXOPBLOCKS)) \in Nat
  BY <1>2, <1>4, FS_CardinalityType
<1> QED
  BY <1>2, <1>4, <1>5, Zenon DEF TokensBounded

\* Fewer tokens and an unchanged log keep Room.
LEMMA RoomShrink ==
  ASSUME TypeOK, Control, Room, Tokens' \subseteq Tokens, lh' = lh
  PROVE  Room'
<1>1. /\ IsFiniteSet(Tokens) /\ Cardinality(Tokens) \in Nat
      /\ IsFiniteSet(Tokens') /\ Cardinality(Tokens') <= Cardinality(Tokens)
  BY TokensFinite, FS_Subset DEF TokensBounded
<1>2. Cardinality(Tokens') \in Nat /\ Len(lh) \in Nat
  BY <1>1, FS_CardinalityType DEF TypeOK
<1> QED
  BY <1>1, <1>2, LogAssumption DEF Room

\* blocks in the log, and blocks that the calls in progress may still add
Used == Len(lh) + Cardinality(Tokens)

\* What a step does to them: only begin_op() adds to the sum.
Shrinks ==
  \/ Active' = {}
  \/ Active' \subseteq Active /\ Tokens' \subseteq Tokens /\ lh' = lh
  \/ Active' = Active /\ Used' <= Used
  \/ \E p \in Procs : begin_op(p) /\ p \in Active'

\* A step that leaves the calls in progress and what they wrote alone keeps the budget.
LEMMA BudgetSame ==
  ASSUME TypeOK, Control, Written, Room,
         UNCHANGED <<lh, buf, wrote>>, Active' \subseteq Active,
         \A q \in Procs : pc'[q] = "log_write" <=> pc[q] = "log_write"
  PROVE  Written' /\ Room' /\ Shrinks
<1>1. Written'
  <2>1. /\ \A q \in Procs : IsFiniteSet(wrote'[q]) /\ Cardinality(wrote'[q]) <= OpBlocks
        /\ \A q \in Procs : pc'[q] = "log_write" => buf'[q] \in wrote'[q]
    BY Zenon DEF Written
  <2>2. ASSUME NEW q \in Active', NEW b \in wrote'[q]
        PROVE  b \in Range(lh') \/ (pc'[q] = "log_write" /\ b = buf'[q])
    <3>1. q \in Procs /\ q \in Active /\ b \in wrote[q]
      BY DEF Active
    <3>2. b \in Range(lh) \/ (pc[q] = "log_write" /\ b = buf[q])
      BY <3>1 DEF Written
    <3>3. QED
      BY <3>1, <3>2
  <2>3. QED
    BY <2>1, <2>2 DEF Written
<1>2. \A q \in Procs : Appending(q)' <=> Appending(q)
  BY DEF Appending
<1>3. Tokens' \subseteq Tokens
  BY <1>2 DEF Tokens
<1> QED
  BY <1>1, <1>3, RoomShrink DEF Shrinks

\* With no call in progress and an empty or unchanged log the budget is trivially kept.
LEMMA BudgetIdle ==
  ASSUME TypeOK, TypeOK', Room, Active' = {}, lh' = <<>> \/ (lh' = lh /\ Active = {}),
         \A q \in Procs : IsFiniteSet(wrote'[q]) /\ Cardinality(wrote'[q]) <= OpBlocks
  PROVE  Written' /\ Room' /\ Shrinks
<1>1. \A q \in Procs : pc'[q] # "log_write"
  BY DEF Active
<1>2. Tokens' = {}
  BY DEF Tokens
<1>3. Active = {} => Tokens = {}
  BY DEF Tokens
<1>4. Len(lh') + 0 <= LOGSIZE
  <2>1. CASE lh' = <<>>
    BY <2>1, LogAssumption
  <2>2. CASE lh' = lh /\ Active = {}
    BY <1>3, <2>2, FS_EmptySet DEF Room, TypeOK
  <2>3. QED
    BY <2>1, <2>2
<1> QED
  BY <1>1, <1>2, <1>4, FS_EmptySet DEF Written, Room, Shrinks

\* Every step keeps the budget of the calls in progress.
LEMMA BudgetStep == Inv /\ [Next]_vars => Written' /\ Room' /\ Shrinks
<1> SUFFICES ASSUME Inv, [Next]_vars PROVE Written' /\ Room' /\ Shrinks
  OBVIOUS
<1>0. TypeOK /\ Control /\ Written /\ Room /\ Header /\ TypeOK' /\ Control'
  BY TypeStep, ControlStep DEF Inv
<1>1. CASE UNCHANGED vars
  <2>1. Active' = Active /\ UNCHANGED <<lh, buf, wrote, pc>>
    BY <1>1 DEF Active, vars
  <2>2. QED
    BY <1>0, <2>1, BudgetSame
<1>2. ASSUME NEW p \in Procs, begin_op(p) PROVE Written' /\ Room' /\ Shrinks
  <2>1. CASE pc' = [pc EXCEPT ![p] = "sleep"] /\ UNCHANGED wrote
    <3>1. \A q \in Procs : pc'[q] = IF q = p THEN "sleep" ELSE pc[q]
      BY <1>0, <2>1 DEF TypeOK
    <3>2. UNCHANGED <<lh, buf, wrote>> /\ pc[p] \in {"idle", "begin"}
      BY <1>2, <2>1 DEF begin_op
    <3>3. Active' \subseteq Active
      BY <3>1 DEF Active
    <3>4. QED
      BY <1>0, <3>1, <3>2, <3>3, BudgetSame
  <2>2. CASE /\ ~NoRoom
             /\ outstanding' = outstanding + 1
             /\ pc' = [pc EXCEPT ![p] = "op"]
             /\ wrote' = [wrote EXCEPT ![p] = {}]
    <3>1. /\ \A q \in Procs : pc'[q] = IF q = p THEN "op" ELSE pc[q]
          /\ \A q \in Procs : wrote'[q] = IF q = p THEN {} ELSE wrote[q]
          /\ UNCHANGED <<lh, buf>>
      BY <1>0, <1>2, <2>2 DEF TypeOK, begin_op
    <3>2. Active' \subseteq Active \cup {p}
      BY <3>1 DEF Active
    <3>3. Written'
      <4>1. \A q \in Procs : IsFiniteSet(wrote'[q]) /\ Cardinality(wrote'[q]) <= OpBlocks
        BY <1>0, <3>1, FS_EmptySet, LogAssumption DEF Written
      <4>2. \A q \in Procs : pc'[q] = "log_write" => buf'[q] \in wrote'[q]
        BY <1>0, <3>1 DEF Written
      <4>3. ASSUME NEW q \in Active', NEW b \in wrote'[q]
            PROVE  b \in Range(lh') \/ (pc'[q] = "log_write" /\ b = buf'[q])
        <5>1. q \in Active /\ b \in wrote[q] /\ pc'[q] = pc[q]
          BY <3>1, <3>2 DEF Active
        <5>2. QED
          BY <1>0, <3>1, <5>1 DEF Written
      <4>4. QED
        BY <4>1, <4>2, <4>3 DEF Written
    <3>4. TokensBounded'
      BY <1>0, TokensFinite, PTL
    <3>5. Len(lh) + outstanding' * MAXOPBLOCKS <= LOGSIZE
      BY <1>0, <2>2, LogAssumption DEF NoRoom, TypeOK
    <3>6. Len(lh) \in Nat
      BY <1>0 DEF TypeOK
    <3>7. Room'
      BY <3>1, <3>4, <3>5, <3>6, LogAssumption DEF Room, TokensBounded
    <3>8. p \in Active'
      BY <3>1 DEF Active
    <3>9. QED
      BY <1>2, <3>3, <3>7, <3>8 DEF Shrinks
  <2>3. QED
    BY <1>2, <2>1, <2>2 DEF begin_op
<1>3. ASSUME NEW p \in Procs, kill(p) PROVE Written' /\ Room' /\ Shrinks
  <2>1. \A q \in Procs : pc'[q] = IF q = p THEN "begin" ELSE pc[q]
    BY <1>0, <1>3 DEF TypeOK, kill
  <2>2. Active' \subseteq Active /\ UNCHANGED <<lh, buf, wrote>> /\ pc[p] = "sleep"
    BY <1>3, <2>1 DEF kill, Active, logVars
  <2>3. QED
    BY <1>0, <2>1, <2>2, BudgetSame
<1>4. ASSUME NEW p \in Procs, NEW b \in Blocks, NEW v \in Values, modify(p, b, v)
      PROVE  Written' /\ Room' /\ Shrinks
  <2>1. /\ \A q \in Procs : pc'[q] = IF q = p THEN "log_write" ELSE pc[q]
        /\ \A q \in Procs : buf'[q] = IF q = p THEN b ELSE buf[q]
        /\ \A q \in Procs : wrote'[q] = IF q = p THEN wrote[p] \cup {b} ELSE wrote[q]
        /\ lh' = lh /\ pc[p] = "op"
        /\ b \in wrote[p] \/ Cardinality(wrote[p]) < OpBlocks
    BY <1>0, <1>4 DEF TypeOK, modify, logVars
  <2>2. Active' = Active
    BY <2>1 DEF Active
  <2>3. IsFiniteSet(wrote[p]) /\ Cardinality(wrote[p]) \in Nat /\ Cardinality(wrote[p]) <= OpBlocks
    BY <1>0, FS_CardinalityType DEF Written
  <2>4. /\ IsFiniteSet(wrote'[p])
        /\ Cardinality(wrote'[p]) =
              IF b \in wrote[p] THEN Cardinality(wrote[p]) ELSE Cardinality(wrote[p]) + 1
    <3>1. wrote'[p] = wrote[p] \cup {b}
      BY <2>1
    <3>2. /\ IsFiniteSet(wrote[p] \cup {b})
          /\ Cardinality(wrote[p] \cup {b}) =
                IF b \in wrote[p] THEN Cardinality(wrote[p]) ELSE Cardinality(wrote[p]) + 1
      BY <2>3, FS_AddElement, Zenon
    <3>3. QED
      BY <3>1, <3>2, Zenon
  <2>5. Cardinality(wrote'[p]) <= OpBlocks
    BY <2>1, <2>3, <2>4, LogAssumption
  <2>6. Written'
    BY <1>0, <2>1, <2>2, <2>4, <2>5 DEF Written, Active
  <2>7. \A q \in Procs : q # p => (Appending(q)' <=> Appending(q))
    BY <2>1 DEF Appending
  <2>8. b \in wrote[p] => ~Appending(p)'
    BY <1>0, <2>1 DEF Written, Active, Appending
  <2>9. ASSUME NEW t \in Tokens' PROVE t \in Tokens
    <3>1. t \in Procs \X (1..MAXOPBLOCKS) /\ t[1] \in Active
      BY <2>2 DEF Tokens
    <3>2. CASE t[1] # p
      BY <2>1, <2>7, <3>1, <3>2 DEF Tokens
    <3>3. CASE t[1] = p
      <4>1. t[2] > Cardinality(wrote[p])
        BY <2>3, <2>4, <2>8, <3>1, <3>3 DEF Tokens
      <4>2. QED
        BY <3>1, <3>3, <4>1 DEF Tokens
    <3>4. QED
      BY <3>2, <3>3
  <2>10. QED
    BY <1>0, <2>1, <2>2, <2>6, <2>9, RoomShrink DEF Shrinks
<1>5. ASSUME NEW p \in Procs, log_write(p) PROVE Written' /\ Room' /\ Shrinks
  <2>1. /\ \A q \in Procs : pc'[q] = IF q = p THEN "op" ELSE pc[q]
        /\ \A q \in Procs : q # p => buf'[q] = buf[q]
        /\ wrote' = wrote /\ pc[p] = "log_write"
        /\ lh' = IF buf[p] \in Range(lh) THEN lh ELSE Append(lh, buf[p])
    BY <1>0, <1>5 DEF TypeOK, log_write
  <2>2. Active' = Active
    BY <2>1 DEF Active
  <2>3. buf[p] \in Blocks /\ lh \in Seq(Blocks)
    BY <1>0, <2>1 DEF Header, TypeOK
  <2>4. Range(lh') = Range(lh) \cup {buf[p]}
    BY <2>1, <2>3 DEF Range
  <2>5. Written'
    BY <1>0, <2>1, <2>2, <2>4 DEF Written, Active
  <2>6. \A q \in Procs : Appending(q)' => Appending(q) /\ q # p
    BY <2>1, <2>4 DEF Appending
  <2>7. Tokens' \subseteq Tokens
    BY <2>1, <2>2, <2>6 DEF Tokens
  <2>8. CASE buf[p] \in Range(lh)
    BY <1>0, <2>1, <2>2, <2>5, <2>7, <2>8, RoomShrink DEF Shrinks
  <2>9. CASE buf[p] \notin Range(lh)
    <3> DEFINE t == <<p, Cardinality(wrote[p])>>
    <3>1. /\ IsFiniteSet(wrote[p]) /\ wrote[p] # {}
          /\ Cardinality(wrote[p]) \in Nat /\ Cardinality(wrote[p]) <= OpBlocks
      BY <1>0, <2>1, FS_CardinalityType DEF Written
    <3>2. Cardinality(wrote[p]) \in 1..MAXOPBLOCKS
      BY <3>1, FS_EmptySet, LogAssumption
    <3>3. t \in Tokens
      BY <2>1, <2>9, <3>2 DEF Tokens, Appending, Active
    <3>4. t \notin Tokens'
      BY <2>1, <2>6, <3>1 DEF Tokens
    <3>5. Tokens' \subseteq Tokens \ {t}
      BY <2>7, <3>4
    <3>6. IsFiniteSet(Tokens) /\ Cardinality(Tokens) \in Nat
      BY <1>0, TokensFinite DEF TokensBounded
    <3>7. IsFiniteSet(Tokens \ {t}) /\ Cardinality(Tokens \ {t}) = Cardinality(Tokens) - 1
      BY <3>3, <3>6, FS_RemoveElement
    <3>8. Cardinality(Tokens') <= Cardinality(Tokens) - 1 /\ Cardinality(Tokens') \in Nat
      BY <3>5, <3>7, FS_Subset, FS_CardinalityType
    <3>9. Len(lh') = Len(lh) + 1 /\ Len(lh) \in Nat
      BY <2>1, <2>3, <2>9
    <3>10. QED
      BY <1>0, <2>2, <2>5, <3>6, <3>8, <3>9, LogAssumption DEF Room, Shrinks, Used
  <2>10. QED
    BY <2>8, <2>9
<1>6. ASSUME NEW p \in Procs, end_op(p) PROVE Written' /\ Room' /\ Shrinks
  <2>1. \A q \in Procs : q # p => pc'[q] = pc[q] \/ (pc[q] = "sleep" /\ pc'[q] = "begin")
    BY <1>0, <1>6 DEF TypeOK, end_op, wakeup
  <2>2. pc[p] = "op" /\ pc'[p] \in {"write_log", "done", "idle"} /\ UNCHANGED <<lh, buf, wrote>>
    BY <1>0, <1>6 DEF TypeOK, end_op, wakeup
  <2>3. Active' \subseteq Active
    BY <2>1, <2>2 DEF Active
  <2>4. QED
    BY <1>0, <2>1, <2>2, <2>3, BudgetSame
<1>7. ASSUME NEW p \in Procs, write_log(p) \/ write_head(p) \/ install_trans(p) \/ end_commit(p)
      PROVE  Written' /\ Room' /\ Shrinks
  <2>1. \A q \in Procs : q # p => pc'[q] = pc[q] \/ (pc[q] = "sleep" /\ pc'[q] = "begin")
    BY <1>0, <1>7 DEF TypeOK, write_log, write_head, install_trans, end_commit, wakeup
  <2>2. pc[p] \in CommitPC /\ pc'[p] \in CommitPC \cup {"idle"}
    BY <1>0, <1>7 DEF TypeOK, write_log, write_head, install_trans, end_commit, wakeup, CommitPC
  <2>3. UNCHANGED <<lh, buf, wrote>>
    BY <1>7 DEF write_log, write_head, install_trans, end_commit, logVars
  <2>4. Active' \subseteq Active
    BY <2>1, <2>2 DEF Active, CommitPC
  <2>5. \A q \in Procs : pc'[q] = "log_write" <=> pc[q] = "log_write"
    BY <2>1, <2>2 DEF CommitPC
  <2>6. QED
    BY <1>0, <2>3, <2>4, <2>5, BudgetSame
<1>8. ASSUME NEW p \in Procs, clear(p) PROVE Written' /\ Room' /\ Shrinks
  <2>1. pc[p] \in CommitPC /\ lh' = <<>> /\ wrote' = wrote /\ committing' = committing
    BY <1>8 DEF clear, CommitPC
  <2>2. Active' = {}
    BY <1>0, <2>1 DEF Control
  <2>3. QED
    BY <1>0, <2>1, <2>2, BudgetIdle DEF Written
<1>9. ASSUME NEW b \in Blocks, recycle(b) PROVE Written' /\ Room' /\ Shrinks
  <2>1. Active' = Active /\ UNCHANGED <<lh, buf, wrote, pc>>
    BY <1>9 DEF Active, recycle, logVars, procVars
  <2>2. QED
    BY <1>0, <2>1, BudgetSame
<1>10. CASE crash
  <2>1. lh' = <<>> /\ Active' = {} /\ \A q \in Procs : wrote'[q] = {}
    BY <1>10 DEF crash, Active
  <2>2. \A q \in Procs : IsFiniteSet(wrote'[q]) /\ Cardinality(wrote'[q]) <= OpBlocks
    <3>1. IsFiniteSet({}) /\ Cardinality({}) <= OpBlocks
      BY FS_EmptySet, LogAssumption
    <3>2. QED
      BY <2>1, <3>1, Zenon
  <2>3. QED
    BY <1>0, <2>1, <2>2, BudgetIdle
<1>11. CASE Recovery
  <2>1. UNCHANGED <<pc, wrote>> /\ boot # "up"
    BY <1>11 DEF Recovery, read_head, recover_install, recover_clear, procVars
  <2>2. Active = {} /\ Active' = {} /\ Tokens' = {}
    BY <1>0, <2>1 DEF Control, Active, Tokens
  <2>3. Len(lh') <= LOGSIZE
    BY <1>0, <1>11, LogAssumption
       DEF Recovery, read_head, recover_install, recover_clear, logVars, Header
  <2>4. Written'
    BY <1>0, <2>1, <2>2 DEF Written, Active
  <2>5. QED
    BY <1>0, <2>2, <2>3, <2>4, FS_EmptySet DEF Room, TypeOK, Shrinks
<1> QED
  BY <1>1, <1>2, <1>3, <1>4, <1>5, <1>6, <1>7, <1>8, <1>9, <1>10, <1>11 DEF Next, Step

-----------------------------------------------------------------------------
(***************************************************************************)
(* The header on disk and the progress of the installation.                *)
(***************************************************************************)
\* A step that touches neither the log nor the progress of a commit keeps Header.
LEMMA HeaderSame ==
  ASSUME Header, UNCHANGED <<disk, dlog, dhead, lh, tail, boot>>,
         \A q \in Procs : pc'[q] \in CommitPC => pc'[q] = pc[q],
         \A q \in Procs : pc[q] \in {"install_trans", "clear"} => pc'[q] = pc[q],
         \A q \in Procs : pc'[q] = "log_write" => buf'[q] \in Blocks
  PROVE  Header'
<1>1. \A k : Installed(k)' <=> Installed(k)
  BY DEF Installed
<1>2. /\ Distinct(lh') /\ Len(lh') <= LOGSIZE
      /\ Distinct(dhead') /\ Len(dhead') <= LOGSIZE
      /\ boot' = "read_head" => lh' = <<>>
      /\ boot' \in {"install_trans", "clear"} => dhead' = lh'
  BY DEF Header
<1>3. /\ boot' = "install_trans" => tail' \in 1..Len(lh') /\ Installed(tail)'
      /\ boot' = "clear" => Installed(Len(lh) + 1)'
  BY <1>1 DEF Header
<1>4. boot' = "up" => dhead' = <<>> \/ \E q \in Procs : pc'[q] \in {"install_trans", "clear"}
  BY DEF Header
<1>5. \A q \in Procs :
        /\ pc'[q] \in {"install_trans", "clear"} => dhead' = lh'
        /\ pc'[q] \in {"write_log", "write_head", "install_trans"} => tail' \in 1..Len(lh')
  BY DEF Header, CommitPC
<1>6. \A q \in Procs :
        /\ pc'[q] = "install_trans" => Installed(tail)'
        /\ pc'[q] = "clear" => Installed(Len(lh) + 1)'
  BY <1>1 DEF Header, CommitPC
<1> QED
  BY <1>2, <1>3, <1>4, <1>5, <1>6 DEF Header

\* A round of install_trans() copies one more block home: the others keep their
\* contents because no block is logged twice.
LEMMA InstallBlock ==
  ASSUME TypeOK, Header, install_block, tail \in 1..Len(lh), Installed(tail),
         UNCHANGED <<dlog, lh>>
  PROVE  /\ tail = Len(lh) => Installed(Len(lh) + 1)'
         /\ tail # Len(lh) => tail' \in 1..Len(lh) /\ Installed(tail)'
<1>1. Len(lh) \in Nat /\ tail \in Nat /\ \A j \in 1..Len(lh) : lh[j] \in Blocks
  BY DEF TypeOK
<1>2. \A b \in Blocks : disk'[b] = IF b = lh[tail] THEN dlog[tail] ELSE disk[b]
  BY DEF TypeOK, install_block
<1>3. ASSUME NEW j \in 1..Len(lh), j < tail + 1 PROVE disk'[lh[j]] = dlog[j]
  <2>1. CASE j = tail
    BY <1>1, <1>2, <2>1
  <2>2. CASE j # tail
    <3>1. j < tail /\ lh[j] # lh[tail]
      BY <1>1, <1>3, <2>2 DEF Header, Distinct
    <3>2. QED
      BY <1>1, <1>2, <3>1 DEF Installed
  <2>3. QED
    BY <2>1, <2>2
<1>4. \A j \in 1..Len(lh) : j < tail + 1 => disk'[lh[j]] = dlog[j]
  BY <1>3
<1>5. tail = Len(lh) => Installed(Len(lh) + 1)'
  BY <1>1, <1>4 DEF Installed
<1>6. tail # Len(lh) => tail' \in 1..Len(lh) /\ tail' = tail + 1
  BY <1>1 DEF install_block
<1>7. tail # Len(lh) => Installed(tail)'
  BY <1>1, <1>4, <1>6 DEF Installed
<1> QED
  BY <1>5, <1>6, <1>7

\* Every step keeps the header and the installation consistent.
LEMMA HeaderStep == Inv /\ [Next]_vars => Header'
<1> SUFFICES ASSUME Inv, [Next]_vars PROVE Header'
  OBVIOUS
<1>0. /\ TypeOK /\ Control /\ Written /\ Room /\ Header
      /\ TypeOK' /\ Control' /\ Room'
  BY TypeStep, ControlStep, BudgetStep DEF Inv
<1>1. CASE UNCHANGED vars
  BY <1>0, <1>1, HeaderSame DEF vars, Header
<1>2. ASSUME NEW p \in Procs, begin_op(p) \/ kill(p) PROVE Header'
  <2>1. /\ \A q \in Procs : q # p => pc'[q] = pc[q]
        /\ pc[p] \in {"idle", "begin", "sleep"} /\ pc'[p] \in {"sleep", "op", "begin"}
        /\ UNCHANGED <<disk, dlog, dhead, lh, tail, boot, buf>>
    BY <1>0, <1>2 DEF TypeOK, begin_op, kill, diskVars, logVars
  <2>2. QED
    BY <1>0, <2>1, HeaderSame DEF CommitPC, Header
<1>3. ASSUME NEW p \in Procs, NEW b \in Blocks, NEW v \in Values, modify(p, b, v) PROVE Header'
  <2>1. /\ \A q \in Procs : q # p => pc'[q] = pc[q] /\ buf'[q] = buf[q]
        /\ pc[p] = "op" /\ pc'[p] = "log_write" /\ buf'[p] = b
        /\ UNCHANGED <<disk, dlog, dhead, lh, tail, boot>>
    BY <1>0, <1>3 DEF TypeOK, modify, diskVars, logVars
  <2>2. QED
    BY <1>0, <2>1, HeaderSame DEF CommitPC, Header
<1>4. ASSUME NEW p \in Procs, end_commit(p) PROVE Header'
  <2>1. \A q \in Procs :
          pc'[q] = IF q = p THEN "idle" ELSE IF pc[q] = "sleep" THEN "begin" ELSE pc[q]
    BY <1>0, <1>4 DEF TypeOK, end_commit, wakeup
  <2>2. pc[p] = "done" /\ UNCHANGED <<disk, dlog, dhead, lh, tail, boot, buf>>
    BY <1>4 DEF end_commit, diskVars
  <2>3. QED
    BY <1>0, <2>1, <2>2, HeaderSame DEF CommitPC, Header
<1>5. ASSUME NEW b \in Blocks, recycle(b) PROVE Header'
  <2>1. UNCHANGED <<disk, dlog, dhead, lh, tail, boot, pc, buf>>
    BY <1>5 DEF recycle, diskVars, logVars, procVars
  <2>2. QED
    BY <1>0, <2>1, HeaderSame DEF Header
<1>6. ASSUME NEW p \in Procs, log_write(p) PROVE Header'
  <2>1. /\ \A q \in Procs : pc'[q] = IF q = p THEN "op" ELSE pc[q]
        /\ \A q \in Procs : q # p => buf'[q] = buf[q]
        /\ pc[p] = "log_write" /\ boot = "up" /\ boot' = "up"
        /\ lh' = IF buf[p] \in Range(lh) THEN lh ELSE Append(lh, buf[p])
        /\ dhead' = dhead
    BY <1>0, <1>6 DEF TypeOK, log_write, diskVars, Running
  <2>2. \A q \in Procs : pc[q] \notin CommitPC
    BY <1>0, <2>1 DEF Control, Active
  <2>3. \A q \in Procs : pc'[q] \notin CommitPC
    BY <2>1, <2>2 DEF CommitPC
  <2>4. dhead' = <<>>
    BY <1>0, <2>1, <2>2 DEF Header, CommitPC
  <2>5. lh \in Seq(Blocks) /\ buf[p] \in Blocks
    BY <1>0, <2>1 DEF TypeOK, Header
  <2>6. Distinct(lh')
    <3>1. CASE buf[p] \in Range(lh)
      BY <1>0, <2>1, <3>1 DEF Header
    <3>2. CASE buf[p] \notin Range(lh)
      <4>1. /\ lh' = Append(lh, buf[p]) /\ Len(lh') = Len(lh) + 1 /\ Len(lh) \in Nat
            /\ \A j \in 1..Len(lh) : lh'[j] = lh[j] /\ lh[j] # buf[p]
            /\ lh'[Len(lh) + 1] = buf[p]
        BY <2>1, <2>5, <3>2 DEF Range
      <4>2. Distinct(lh)
        BY <1>0 DEF Header
      <4>3. QED
        BY <4>1, <4>2 DEF Distinct
    <3>3. QED
      BY <3>1, <3>2
  <2>7. Len(lh') <= LOGSIZE
    <3>1. TokensBounded'
      BY <1>0, TokensFinite, PTL
    <3>2. Len(lh') \in Nat
      BY <1>0 DEF TypeOK
    <3>3. QED
      BY <1>0, <3>1, <3>2, LogAssumption DEF Room, TokensBounded
  <2>8. Distinct(dhead') /\ Len(dhead') <= LOGSIZE
    BY <1>0, <2>1 DEF Header
  <2>9. \A q \in Procs : pc'[q] = "log_write" => buf'[q] \in Blocks
    BY <1>0, <2>1 DEF Header
  <2>10. QED
    BY <2>1, <2>3, <2>4, <2>6, <2>7, <2>8, <2>9 DEF Header, CommitPC
<1>7. ASSUME NEW p \in Procs, end_op(p) PROVE Header'
  <2>1. /\ \A q \in Procs : q # p => pc'[q] = pc[q] \/ (pc[q] = "sleep" /\ pc'[q] = "begin")
        /\ pc[p] = "op" /\ pc'[p] \in {"write_log", "done", "idle"}
        /\ pc'[p] = "write_log" => Len(lh) > 0 /\ tail' = 1
        /\ UNCHANGED <<disk, dlog, dhead, lh, boot, buf>> /\ boot = "up"
    BY <1>0, <1>7 DEF TypeOK, end_op, wakeup, diskVars, Running
  <2>2. \A q \in Procs : pc[q] \notin CommitPC
    BY <1>0, <2>1 DEF Control, Active
  <2>3. dhead' = <<>>
    BY <1>0, <2>1, <2>2 DEF Header, CommitPC
  <2>4. \A q \in Procs : pc'[q] \in CommitPC => pc'[q] \in {"write_log", "done"}
    BY <2>1, <2>2 DEF CommitPC
  <2>5. \A q \in Procs : pc'[q] = "write_log" => tail' \in 1..Len(lh')
    <3>1. \A q \in Procs : pc'[q] = "write_log" => q = p
      BY <2>1, <2>2 DEF CommitPC
    <3>2. Len(lh) \in Nat /\ lh' = lh
      BY <1>0, <2>1 DEF TypeOK
    <3>3. QED
      BY <2>1, <3>1, <3>2
  <2>6. \A q \in Procs : pc'[q] = "log_write" => buf'[q] \in Blocks
    BY <1>0, <2>1 DEF Header
  <2>7. /\ Distinct(lh') /\ Len(lh') <= LOGSIZE
        /\ Distinct(dhead') /\ Len(dhead') <= LOGSIZE
    BY <1>0, <2>1 DEF Header
  <2>8. QED
    BY <2>1, <2>3, <2>4, <2>5, <2>6, <2>7 DEF Header, CommitPC
<1>8. ASSUME NEW p \in Procs, write_log(p) \/ write_head(p) PROVE Header'
  <2>1. /\ \A q \in Procs : q # p => pc'[q] = pc[q] /\ pc[q] \notin CommitPC
        /\ pc[p] \in {"write_log", "write_head"} /\ boot' = "up" /\ UNCHANGED <<disk, lh, buf>>
    BY <1>0, <1>8 DEF TypeOK, write_log, write_head, Control, CommitPC, Running, logVars
  <2>2. tail \in 1..Len(lh) /\ Len(lh) \in Nat
    BY <1>0, <2>1 DEF Header, TypeOK
  <2>3. tail' \in 1..Len(lh')
    BY <1>8, <2>1, <2>2 DEF write_log, write_head
  <2>4. \/ pc'[p] \in {"write_log", "write_head"} /\ dhead' = dhead
        \/ pc'[p] = "install_trans" /\ dhead' = lh /\ tail' = 1
    BY <1>0, <1>8 DEF TypeOK, write_log, write_head
  <2>5. boot = "up" /\ dhead = <<>>
    BY <1>0, <1>8, <2>1 DEF Header, CommitPC, write_log, write_head, Running
  <2>6. /\ Distinct(lh') /\ Len(lh') <= LOGSIZE
        /\ Distinct(dhead') /\ Len(dhead') <= LOGSIZE
    BY <1>0, <2>1, <2>4 DEF Header
  <2>7. tail' = 1 => Installed(tail)'
    BY DEF Installed
  <2>8. \A q \in Procs : pc'[q] = "log_write" => buf'[q] \in Blocks
    BY <1>0, <2>1, <2>4 DEF Header
  <2>9. \A q \in Procs : pc'[q] \in {"install_trans", "clear"} =>
           dhead' = lh' /\ tail' = 1 /\ pc'[q] = "install_trans"
    BY <2>1, <2>4 DEF CommitPC
  <2>10. dhead' = <<>> \/ pc'[p] = "install_trans"
    BY <2>4, <2>5
  <2>11. QED
    BY <2>1, <2>3, <2>6, <2>7, <2>8, <2>9, <2>10 DEF Header
<1>9. ASSUME NEW p \in Procs, install_trans(p) PROVE Header'
  <2>1. /\ \A q \in Procs : q # p => pc'[q] = pc[q] /\ pc[q] \notin CommitPC
        /\ pc[p] = "install_trans" /\ boot' = "up" /\ UNCHANGED <<dlog, dhead, lh, buf>>
        /\ pc'[p] = IF tail = Len(lh) THEN "clear" ELSE "install_trans"
    BY <1>0, <1>9 DEF TypeOK, install_trans, Control, CommitPC, Running, logVars
  <2>2. install_block /\ tail \in 1..Len(lh) /\ Installed(tail) /\ dhead = lh
    BY <1>0, <1>9 DEF install_trans, Header
  <2>3. /\ tail = Len(lh) => Installed(Len(lh) + 1)'
        /\ tail # Len(lh) => tail' \in 1..Len(lh) /\ Installed(tail)'
    BY <1>0, <2>1, <2>2, InstallBlock
  <2>4. /\ Distinct(lh') /\ Len(lh') <= LOGSIZE
        /\ Distinct(dhead') /\ Len(dhead') <= LOGSIZE
    BY <1>0, <2>1 DEF Header
  <2>5. \A q \in Procs : pc'[q] = "log_write" => buf'[q] \in Blocks
    BY <1>0, <2>1 DEF Header
  <2>6. \A q \in Procs :
          /\ pc'[q] \in {"write_log", "write_head", "install_trans"} => tail' \in 1..Len(lh')
          /\ pc'[q] = "install_trans" => Installed(tail)'
          /\ pc'[q] = "clear" => Installed(Len(lh) + 1)'
    BY <2>1, <2>3 DEF CommitPC
  <2>7. QED
    BY <2>1, <2>2, <2>4, <2>5, <2>6 DEF Header
<1>10. ASSUME NEW p \in Procs, clear(p) PROVE Header'
  <2>1. /\ \A q \in Procs : q # p => pc'[q] = pc[q] /\ pc[q] \notin CommitPC
        /\ pc'[p] = "done" /\ boot' = "up" /\ lh' = <<>> /\ dhead' = <<>> /\ buf' = buf
    BY <1>0, <1>10 DEF TypeOK, clear, Control, CommitPC, Running
  <2>2. \A q \in Procs : pc'[q] = "log_write" => buf'[q] \in Blocks
    BY <1>0, <2>1 DEF Header
  <2>3. QED
    BY <2>1, <2>2, LogAssumption DEF Header, Distinct, CommitPC
<1>11. CASE crash
  <2>1. /\ \A q \in Procs : pc'[q] = "idle"
        /\ lh' = <<>> /\ dhead' = dhead /\ boot' = "read_head"
    BY <1>11 DEF crash, diskVars
  <2>2. Distinct(lh') /\ Len(lh') <= LOGSIZE
    BY <2>1, LogAssumption DEF Distinct
  <2>3. Distinct(dhead') /\ Len(dhead') <= LOGSIZE
    BY <1>0, <2>1 DEF Header
  <2>4. QED
    BY <2>1, <2>2, <2>3 DEF Header
<1>12. CASE read_head
  <2>1. /\ \A q \in Procs : pc'[q] = "idle"
        /\ lh' = dhead /\ dhead' = dhead /\ tail' = 1
        /\ boot' = IF Len(dhead) > 0 THEN "install_trans" ELSE "clear"
    BY <1>0, <1>12 DEF Control, read_head, diskVars, procVars
  <2>2. /\ Distinct(lh') /\ Len(lh') <= LOGSIZE
        /\ Distinct(dhead') /\ Len(dhead') <= LOGSIZE
    BY <1>0, <2>1 DEF Header
  <2>3. Installed(tail)' /\ Len(lh') \in Nat
    BY <1>0, <2>1 DEF Installed, TypeOK
  <2>4. boot' = "clear" => Installed(Len(lh) + 1)'
    BY <2>1, <2>3 DEF Installed
  <2>5. boot' = "install_trans" => tail' \in 1..Len(lh')
    BY <2>1, <2>3
  <2>6. QED
    BY <2>1, <2>2, <2>3, <2>4, <2>5 DEF Header
<1>13. CASE recover_install
  <2>1. /\ \A q \in Procs : pc'[q] = "idle"
        /\ boot' = IF tail = Len(lh) THEN "clear" ELSE "install_trans"
        /\ UNCHANGED <<dlog, dhead, lh>>
    BY <1>0, <1>13 DEF recover_install, Control, logVars, procVars
  <2>2. install_block /\ tail \in 1..Len(lh) /\ Installed(tail) /\ dhead = lh
    BY <1>0, <1>13 DEF recover_install, Header
  <2>3. /\ tail = Len(lh) => Installed(Len(lh) + 1)'
        /\ tail # Len(lh) => tail' \in 1..Len(lh) /\ Installed(tail)'
    BY <1>0, <2>1, <2>2, InstallBlock
  <2>4. /\ Distinct(lh') /\ Len(lh') <= LOGSIZE
        /\ Distinct(dhead') /\ Len(dhead') <= LOGSIZE
    BY <1>0, <2>1 DEF Header
  <2>5. QED
    BY <2>1, <2>2, <2>3, <2>4 DEF Header
<1>14. CASE recover_clear
  <2>1. /\ \A q \in Procs : pc'[q] = "idle"
        /\ lh' = <<>> /\ dhead' = <<>> /\ boot' = "up"
    BY <1>0, <1>14 DEF Control, recover_clear, procVars
  <2>2. QED
    BY <2>1, LogAssumption DEF Header, Distinct
<1> QED
  BY <1>1, <1>2, <1>3, <1>4, <1>5, <1>6, <1>7, <1>8, <1>9, <1>10, <1>11, <1>12, <1>13, <1>14
  DEF Next, Step, Recovery

-----------------------------------------------------------------------------
\* Inv holds in every reachable state.
LEMMA Invariance == Spec => []Inv
<1>1. Inv /\ [Next]_vars => Inv'
  BY TypeStep, ControlStep, BudgetStep, HeaderStep DEF Inv
<1> QED
  BY InitInv, <1>1, PTL DEF Spec

\* TYPE CORRECTNESS, for any number of processes and blocks and any log size.  That tail
\* and the appended block numbers stay within the log is not a matter of types: it
\* needs the room that begin_op() keeps.
THEOREM LogTypeOK == Spec => []TypeOK
<1>1. Inv => TypeOK
  BY DEF Inv
<1> QED
  BY Invariance, <1>1, PTL

-----------------------------------------------------------------------------
(***************************************************************************)
(* What survives a crash changes at the commit point only.                 *)
(***************************************************************************)
\* With the header empty, what survives is what the home blocks hold.
LEMMA DurableEmpty ==
  dhead = <<>> => Durable = [b \in Blocks |-> disk[b]]
BY DEF Durable, Range

\* Copying a committed block home does not change what survives.
LEMMA DurableInstall ==
  ASSUME TypeOK, install_block, tail \in 1..Len(lh), dhead = lh, UNCHANGED <<dlog, dhead>>
  PROVE  Durable' = Durable
<1>1. lh[tail] \in Range(dhead)
  BY DEF TypeOK, Range
<1>2. \A b \in Blocks : b \notin Range(dhead) => disk'[b] = disk[b]
  BY <1>1 DEF TypeOK, install_block
<1> QED
  BY <1>2 DEF Durable

\* Clearing the header after everything was copied home does not change what survives.
LEMMA DurableClear ==
  ASSUME TypeOK, dhead = lh, Installed(Len(lh) + 1), dhead' = <<>>, UNCHANGED disk
  PROVE  Durable' = Durable
<1>1. ASSUME NEW b \in Blocks, b \in Range(dhead) PROVE dlog[Slot(dhead, b)] = disk[b]
  <2>1. DOMAIN dhead = 1..Len(lh) /\ Len(lh) \in Nat
    BY DEF TypeOK
  <2>2. Slot(dhead, b) \in 1..Len(lh) /\ dhead[Slot(dhead, b)] = b
    BY <1>1, <2>1 DEF Range, Slot
  <2>3. QED
    BY <2>1, <2>2 DEF Installed
<1>2. Durable = [b \in Blocks |-> disk[b]]
  BY <1>1 DEF Durable
<1>3. Durable' = [b \in Blocks |-> disk'[b]]
  BY DEF Durable, Range
<1> QED
  BY <1>2, <1>3

\* DurableOnlyAtCommit for every instance: neither write_log(), nor the rounds of
\* install_trans() after a commit or at boot, nor the two places that clear the header
\* change what a reboot finds; only commit()'s first write_head() does.
THEOREM LogCommitPoint == Spec => DurableOnlyAtCommit
<1> DEFINE Commit == \E p \in Procs : pc[p] = "write_head" /\ pc'[p] = "install_trans"
<1>1. Inv /\ [Next]_vars => [Durable' # Durable => Commit]_vars
  <2> SUFFICES ASSUME Inv, Next PROVE Durable' = Durable \/ Commit
    OBVIOUS
  <2> USE DEF Inv
  <2>1. CASE UNCHANGED diskVars
    BY <2>1 DEF Durable, diskVars
  <2>2. ASSUME NEW p \in Procs, write_log(p) PROVE Durable' = Durable
    <3>1. dhead = <<>> /\ UNCHANGED <<disk, dhead>>
      BY <2>2 DEF write_log, Header, Running, Control, CommitPC
    <3>2. QED
      BY <3>1, DurableEmpty DEF Durable, Range
  <2>3. ASSUME NEW p \in Procs, write_head(p) PROVE Commit
    BY <2>3 DEF write_head, TypeOK
  <2>4. ASSUME NEW p \in Procs, install_trans(p) PROVE Durable' = Durable
    BY <2>4, DurableInstall DEF install_trans, Header
  <2>5. ASSUME NEW p \in Procs, clear(p) PROVE Durable' = Durable
    BY <2>5, DurableClear DEF clear, Header
  <2>6. CASE recover_install
    BY <2>6, DurableInstall DEF recover_install, Header
  <2>7. CASE recover_clear
    BY <2>7, DurableClear DEF recover_clear, Header
  <2>8. QED
    BY <2>1, <2>2, <2>3, <2>4, <2>5, <2>6, <2>7
    DEF Next, Step, Recovery, begin_op, kill, modify, log_write, end_op, end_commit, recycle,
        crash, read_head
<1> QED
  BY Invariance, <1>1, PTL DEF Spec, DurableOnlyAtCommit

-----------------------------------------------------------------------------
(***************************************************************************)
(* The panics of log.c.                                                    *)
(***************************************************************************)
\* the transaction is empty when nobody is in it, and when its commit is over
Drained ==
  boot = "up" => \/ lh = <<>>
                 \/ /\ outstanding # 0 \/ committing
                    /\ \A p \in Procs : pc[p] # "done"

\* Every step keeps it.
LEMMA DrainedStep == Inv /\ Drained /\ [Next]_vars => Drained'
<1> SUFFICES ASSUME Inv, Drained, [Next]_vars PROVE Drained'
  OBVIOUS
<1>0. TypeOK /\ Control /\ Control' /\ TypeOK'
  BY TypeStep, ControlStep DEF Inv
<1>1. CASE UNCHANGED vars
  BY <1>1 DEF Drained, vars
<1>2. ASSUME NEW p \in Procs, begin_op(p) PROVE Drained'
  BY <1>0, <1>2 DEF Drained, begin_op, TypeOK
<1>3. ASSUME NEW p \in Procs, kill(p) PROVE Drained'
  BY <1>0, <1>3 DEF Drained, kill, TypeOK, logVars
<1>4. ASSUME NEW p \in Procs, NEW b \in Blocks, NEW v \in Values, modify(p, b, v) PROVE Drained'
  BY <1>0, <1>4 DEF Drained, modify, TypeOK, logVars
<1>5. ASSUME NEW p \in Procs, log_write(p) PROVE Drained'
  <2>1. p \in Active
    BY <1>5 DEF log_write, Active
  <2>2. outstanding # 0 /\ ~committing
    BY <1>0, <2>1, ActiveFinite DEF Control
  <2>3. \A q \in Procs : pc'[q] # "done"
    BY <1>0, <1>5, <2>2 DEF log_write, TypeOK, Control, CommitPC
  <2>4. QED
    BY <1>5, <2>2, <2>3 DEF log_write, Drained
<1>6. ASSUME NEW p \in Procs, end_op(p) PROVE Drained'
  <2>1. p \in Active
    BY <1>6 DEF end_op, Active
  <2>2. ~committing /\ outstanding \in Nat
    BY <1>0, <2>1 DEF Control, TypeOK
  <2>3. \A q \in Procs : pc[q] # "done"
    BY <2>2, <1>0 DEF Control, CommitPC
  <2>4. CASE outstanding = 1
    <3>1. committing' /\ lh' = lh /\ pc' = [pc EXCEPT ![p] = IF Len(lh) > 0 THEN "write_log" ELSE "done"]
      BY <1>6, <2>4 DEF end_op
    <3>2. CASE lh = <<>>
      BY <3>1, <3>2 DEF Drained
    <3>3. CASE lh # <<>>
      <4>1. Len(lh) > 0
        BY <1>0, <3>3 DEF TypeOK
      <4>2. \A q \in Procs : pc'[q] # "done"
        BY <1>0, <2>3, <3>1, <4>1 DEF TypeOK
      <4>3. QED
        BY <3>1, <4>2 DEF Drained
    <3>4. QED
      BY <3>2, <3>3
  <2>5. CASE outstanding # 1
    <3>1. outstanding \in Nat \ {0}
      BY <1>0, <2>1, ActiveFinite DEF TypeOK
    <3>2. outstanding' # 0
      BY <1>6, <2>5, <3>1 DEF end_op
    <3>3. \A q \in Procs : pc'[q] # "done"
      BY <1>0, <1>6, <2>3, <2>5 DEF end_op, wakeup, TypeOK
    <3>4. QED
      BY <3>2, <3>3 DEF Drained
  <2>6. QED
    BY <2>4, <2>5
<1>7. ASSUME NEW p \in Procs, write_log(p) \/ write_head(p) \/ install_trans(p) PROVE Drained'
  <2>1. /\ committing /\ \A q \in Procs : q # p => pc[q] # "done"
    BY <1>0, <1>7 DEF Control, CommitPC, write_log, write_head, install_trans
  <2>2. committing' /\ \A q \in Procs : pc'[q] # "done"
    BY <1>0, <1>7, <2>1 DEF TypeOK, write_log, write_head, install_trans, logVars
  <2>3. QED
    BY <2>2 DEF Drained
<1>8. ASSUME NEW p \in Procs, clear(p) PROVE Drained'
  BY <1>8 DEF clear, Drained
<1>9. ASSUME NEW p \in Procs, end_commit(p) PROVE Drained'
  BY <1>9 DEF end_commit, Drained, Running
<1>10. ASSUME NEW b \in Blocks, recycle(b) PROVE Drained'
  BY <1>10 DEF recycle, Drained, logVars, procVars
<1>11. CASE crash
  BY <1>11 DEF crash, Drained
<1>12. CASE Recovery
  BY <1>12 DEF Recovery, read_head, recover_install, recover_clear, Drained
<1> QED
  BY <1>1, <1>2, <1>3, <1>4, <1>5, <1>6, <1>7, <1>8, <1>9, <1>10, <1>11, <1>12 DEF Next, Step

\* A call alone in its transaction was either alone from its beginning, or the log also
\* holds what a call that has ended left of its reservation.
Alone ==
  \A p \in Procs : Active = {p} =>
     Used <= MAXOPBLOCKS \/ Used + (MAXOPBLOCKS - OpBlocks) <= LOGSIZE

RoomInv == Inv /\ Drained /\ Alone

\* the part of its reservation that call p never uses
Spare(p) == {p} \X (OpBlocks+1..MAXOPBLOCKS)

\* It is among the tokens of the call, as long as the call is in progress.
LEMMA SpareTokens ==
  ASSUME Inv, NEW p \in Active
  PROVE  /\ Spare(p) \subseteq Tokens /\ IsFiniteSet(Spare(p))
         /\ Cardinality(Spare(p)) = MAXOPBLOCKS - OpBlocks
<1>1. /\ IsFiniteSet(OpBlocks+1..MAXOPBLOCKS)
      /\ Cardinality(OpBlocks+1..MAXOPBLOCKS) = MAXOPBLOCKS - OpBlocks
  BY LogAssumption, FS_Interval
<1>2. IsFiniteSet({p}) /\ Cardinality({p}) = 1
  BY FS_Singleton
<1>3. IsFiniteSet(Spare(p)) /\ Cardinality(Spare(p)) = MAXOPBLOCKS - OpBlocks
  <2>1. Cardinality(Spare(p)) = 1 * (MAXOPBLOCKS - OpBlocks) /\ IsFiniteSet(Spare(p))
    BY <1>1, <1>2, FS_Product DEF Spare
  <2>2. QED
    BY <2>1, LogAssumption
<1>4. /\ p \in Procs /\ IsFiniteSet(wrote[p])
      /\ Cardinality(wrote[p]) \in Nat /\ Cardinality(wrote[p]) <= OpBlocks
  BY FS_CardinalityType DEF Inv, Written, Active
<1>5. Spare(p) \subseteq Tokens
  BY <1>4, LogAssumption DEF Tokens, Spare
<1> QED
  BY <1>3, <1>5

\* So a second call in progress leaves that many more places free.
LEMMA SpareRest ==
  ASSUME Inv, NEW p \in Active, NEW T, T \subseteq Tokens, T \cap Spare(p) = {}
  PROVE  /\ IsFiniteSet(T) /\ Cardinality(T) \in Nat
         /\ Cardinality(T) + (MAXOPBLOCKS - OpBlocks) <= Cardinality(Tokens)
<1>1. /\ IsFiniteSet(Tokens) /\ Cardinality(Tokens) \in Nat
  BY TokensFinite DEF TokensBounded, Inv
<1>2. /\ IsFiniteSet(T) /\ Cardinality(T) \in Nat
      /\ T \cup Spare(p) \subseteq Tokens
  BY <1>1, SpareTokens, FS_Subset, FS_CardinalityType
<1>3. Cardinality(T \cup Spare(p)) = Cardinality(T) + Cardinality(Spare(p)) - Cardinality(T \cap Spare(p))
  BY <1>2, SpareTokens, FS_Union
<1>4. Cardinality(T \cap Spare(p)) = 0
  BY FS_EmptySet
<1>5. Cardinality(T \cup Spare(p)) <= Cardinality(Tokens)
  BY <1>1, <1>2, FS_Subset
<1>6. Cardinality(Spare(p)) = MAXOPBLOCKS - OpBlocks
  BY SpareTokens
<1> QED
  BY <1>1, <1>2, <1>3, <1>4, <1>5, <1>6, LogAssumption

\* Every step keeps Alone.
LEMMA AloneStep == RoomInv /\ [Next]_vars => Alone'
<1> SUFFICES ASSUME RoomInv, [Next]_vars, NEW p \in Procs, Active' = {p}
             PROVE  Used' <= MAXOPBLOCKS \/ Used' + (MAXOPBLOCKS - OpBlocks) <= LOGSIZE
  BY DEF Alone
<1>0. Inv /\ Shrinks /\ TypeOK' /\ Control'
  BY TypeStep, ControlStep, BudgetStep DEF RoomInv
<1>1. /\ Len(lh) \in Nat /\ Len(lh') \in Nat
      /\ IsFiniteSet(Tokens) /\ Cardinality(Tokens) \in Nat
      /\ IsFiniteSet(Tokens)' /\ Cardinality(Tokens') \in Nat
      /\ Cardinality(Tokens') <= outstanding' * MAXOPBLOCKS
  <2>1. TokensBounded
    BY <1>0, TokensFinite DEF Inv
  <2>2. TokensBounded'
    BY <1>0, TokensFinite, PTL
  <2>3. QED
    BY <1>0, <2>1, <2>2 DEF TokensBounded, Inv, TypeOK
<1>2. CASE Active' \subseteq Active /\ Tokens' \subseteq Tokens /\ lh' = lh
  <2>1. CASE Active = {p}
    <3>1. Cardinality(Tokens') <= Cardinality(Tokens)
      BY <1>1, <1>2, FS_Subset
    <3>2. QED
      BY <1>1, <1>2, <2>1, <3>1, LogAssumption DEF RoomInv, Alone, Used
  <2>2. CASE Active # {p}
    <3>1. PICK q \in Active : q # p
      BY <1>2, <2>2
    <3>2. Tokens' \cap Spare(q) = {}
      BY <3>1 DEF Tokens, Spare
    <3>3. Cardinality(Tokens') + (MAXOPBLOCKS - OpBlocks) <= Cardinality(Tokens)
      BY <1>0, <1>2, <3>2, SpareRest
    <3>4. QED
      BY <1>0, <1>1, <1>2, <3>3, LogAssumption DEF Inv, Room, Used
  <2>3. QED
    BY <2>1, <2>2
<1>3. CASE Active' = Active /\ Used' <= Used
  BY <1>1, <1>3, LogAssumption DEF RoomInv, Alone, Used
<1>4. CASE \E q \in Procs : begin_op(q) /\ q \in Active'
  <2>1. begin_op(p) /\ p \in Active'
    BY <1>4
  <2>2. pc[p] \in {"idle", "begin"} /\ Running
    BY <2>1 DEF begin_op
  <2>3. outstanding' = outstanding + 1 /\ ~committing /\ lh' = lh
    BY <1>0, <2>1, <2>2 DEF begin_op, Active, Inv, TypeOK
  <2>4. outstanding' = 1
    BY <1>0, FS_Singleton DEF Control
  <2>5. lh = <<>>
    BY <1>0, <2>2, <2>3, <2>4 DEF RoomInv, Drained, Running, Inv, TypeOK
  <2>6. Cardinality(Tokens') <= MAXOPBLOCKS
    BY <1>1, <2>4, LogAssumption
  <2>7. QED
    BY <1>1, <2>3, <2>5, <2>6, LogAssumption DEF Used
<1> QED
  BY <1>0, <1>2, <1>3, <1>4 DEF Shrinks

\* With Slack, a call in progress never finds the log full.
LEMMA SlackRoom ==
  ASSUME RoomInv, Slack, NEW p \in Active
  PROVE  ~TooBig
<1>1. /\ Len(lh) \in Nat /\ IsFiniteSet(Tokens) /\ Cardinality(Tokens) \in Nat
      /\ Len(lh) + Cardinality(Tokens) <= LOGSIZE
  BY TokensFinite DEF RoomInv, Inv, TypeOK, TokensBounded, Room
<1>2. IsFiniteSet(Spare(p)) /\ Spare(p) \subseteq Tokens /\ Cardinality(Spare(p)) = MAXOPBLOCKS - OpBlocks
  BY SpareTokens DEF RoomInv
<1>3. MAXOPBLOCKS - OpBlocks <= Cardinality(Tokens)
  BY <1>1, <1>2, FS_Subset
<1>4. CASE Active = {p}
  <2>1. p \in Procs
    BY DEF Active
  <2>2. CASE Used <= MAXOPBLOCKS
    BY <1>1, <1>3, <2>2, LogAssumption DEF Used, Slack, TooBig
  <2>3. CASE Used + (MAXOPBLOCKS - OpBlocks) <= LOGSIZE
    BY <1>1, <1>3, <2>3, LogAssumption DEF Used, Slack, TooBig
  <2>4. QED
    BY <1>4, <2>1, <2>2, <2>3 DEF RoomInv, Alone
<1>5. CASE Active # {p}
  <2>1. PICK q \in Active : q # p
    BY <1>5
  <2>2. Spare(p) \cap Spare(q) = {}
    BY <2>1 DEF Spare
  <2>3. Cardinality(Spare(p)) + (MAXOPBLOCKS - OpBlocks) <= Cardinality(Tokens)
    BY <1>2, <2>2, SpareRest DEF RoomInv
  <2>4. QED
    BY <1>1, <1>2, <2>3, LogAssumption DEF Slack, TooBig
<1> QED
  BY <1>4, <1>5

\* NoPanicWithSlack for every instance: begin_op()'s estimate keeps log_write() away from
\* "too big a transaction" and from "log_write outside of trans", and end_op() never meets
\* a commit in progress.
THEOREM LogNoPanic == Spec => []NoPanicWithSlack
<1>1. Init => Drained /\ Alone /\ NoPanicWithSlack
  BY DEF Init, Drained, Alone, Active, NoPanicWithSlack
<1>2. RoomInv /\ NoPanicWithSlack /\ [Next]_vars => NoPanicWithSlack'
  <2> SUFFICES ASSUME RoomInv, NoPanicWithSlack, [Next]_vars, Slack PROVE ~panicked'
    BY DEF NoPanicWithSlack
  <2>0. Inv /\ ~panicked
    BY DEF RoomInv, NoPanicWithSlack
  <2>1. ASSUME NEW p \in Procs, NEW b \in Blocks, NEW v \in Values, modify(p, b, v)
        PROVE  ~panicked'
    <3>1. p \in Active
      BY <2>1 DEF modify, Active
    <3>2. outstanding \in Nat \ {0}
      BY <2>0, <3>1, ActiveFinite DEF Inv, TypeOK
    <3>3. ~TooBig
      BY <3>1, SlackRoom
    <3>4. ~(outstanding < 1)
      BY <3>2
    <3>5. QED
      BY <2>1, <3>3, <3>4, Zenon DEF modify
  <2>2. ASSUME NEW p \in Procs, end_op(p) PROVE ~panicked'
    BY <2>0, <2>2 DEF end_op, Inv, Control, Active
  <2>3. CASE UNCHANGED panicked \/ panicked' = FALSE
    BY <2>0, <2>3
  <2>4. QED
    BY <2>1, <2>2, <2>3
    DEF Next, vars, Step, Recovery, begin_op, kill, log_write, write_log, write_head,
        install_trans, clear, end_commit, recycle, crash, read_head, recover_install, recover_clear
<1>3. RoomInv /\ [Next]_vars /\ Inv' => RoomInv'
  BY DrainedStep, AloneStep DEF RoomInv
<1>4. Inv /\ Drained /\ Alone => RoomInv
  BY DEF RoomInv
<1> QED
  BY Invariance, <1>1, <1>2, <1>3, <1>4, PTL DEF Spec

-----------------------------------------------------------------------------
(***************************************************************************)
(* The invariant for AtomicDisk: how memory, log and home blocks differ.   *)
(***************************************************************************)
\* a process holds the buffer of block b, between its change and log_write()
Held(b) == \E p \in Procs : pc[p] = "log_write" /\ buf[p] = b

\* entry i of the open transaction has not been copied home yet
Uninstalled(i) ==
  /\ \A p \in Procs : pc[p] \notin {"clear", "done"}
  /\ i < tail => \A p \in Procs : pc[p] # "install_trans"

\* block b is logged and its home block is stale
Pending(b) == \E i \in 1..Len(lh) : lh[i] = b /\ Uninstalled(i)

\* a buffer differs from its home block only if it is pending or about to be logged
Clean ==
  \A b \in Blocks : cache[b] \notin {NoBuf, disk[b]} => boot = "up" /\ (Held(b) \/ Pending(b))

\* the log blocks that the commit has written hold what memory holds
Copied ==
  \A p \in Procs :
    /\ pc[p] = "write_log" => \A i \in 1..Len(lh) : i < tail => dlog[i] = Mem(lh[i])
    /\ pc[p] \in {"write_head", "install_trans", "clear"} =>
         \A i \in 1..Len(lh) : dlog[i] = Mem(lh[i])

MemInv == Inv /\ Clean /\ Copied /\ Drained

-----------------------------------------------------------------------------
(***************************************************************************)
(* What the steps do to the two views of the disk.                         *)
(***************************************************************************)
\* while calls are in progress nobody commits, so every logged block is pending
LEMMA NoCommitter ==
  ASSUME Inv, NEW p \in Active
  PROVE  \A q \in Procs : pc[q] \notin CommitPC
BY DEF Inv, Control, Active

\* a buffer that differs from its home block is not recycled, so memory stays the same
LEMMA RecycleMem ==
  ASSUME MemInv, NEW b \in Blocks, recycle(b), LoggedStaysCached'
  PROVE  \A x \in Blocks : Mem(x)' = Mem(x)
<1> USE DEF recycle, diskVars, logVars, procVars
<1>1. cache \in [Blocks -> Values \cup {NoBuf}]
  BY DEF MemInv, Inv, TypeOK
<1>2. DOMAIN lh = 1..Len(lh)
  BY DEF MemInv, Inv, TypeOK
<1>3. ~Pending(b)
  BY <1>1, <1>2 DEF LoggedStaysCached, Running, Pending, Uninstalled
<1>4. cache[b] = disk[b]
  BY <1>3 DEF MemInv, Clean, Held
<1> QED
  BY <1>1, <1>4 DEF Mem

\* copying a logged block home leaves memory as it is, because the log block holds the
\* same contents
LEMMA InstallMem ==
  ASSUME MemInv, NEW p \in Procs, install_trans(p)
  PROVE  \A x \in Blocks : Mem(x)' = Mem(x)
<1>1. tail \in 1..Len(lh) /\ lh[tail] \in Blocks /\ dlog[tail] = Mem(lh[tail])
  BY DEF MemInv, Inv, TypeOK, Header, Copied, install_trans
<1>2. dlog[tail] \in Values
  BY <1>1, LogAssumption DEF MemInv, Inv, TypeOK, Mem
<1> QED
  BY <1>1, <1>2, LogAssumption DEF MemInv, Inv, TypeOK, install_trans, install_block, Mem

\* write_log() reads blocks into the cache, which leaves memory as it is
LEMMA WriteLogMem ==
  ASSUME MemInv, NEW p \in Procs, write_log(p)
  PROVE  \A x \in Blocks : Mem(x)' = Mem(x)
<1>1. lh[tail] \in Blocks
  BY DEF MemInv, Inv, TypeOK, Header, write_log
<1> QED
  BY <1>1, LogAssumption DEF MemInv, Inv, TypeOK, write_log, Mem

-----------------------------------------------------------------------------
(***************************************************************************)
(* One lemma per action.                                                   *)
(***************************************************************************)
Rest == Clean /\ Copied /\ Drained

\* a call that begins, waits or is killed while it waits writes nothing
LEMMA Keeps_begin_op ==
  ASSUME MemInv, Inv', NEW p \in Procs, begin_op(p) \/ kill(p)
  PROVE  Rest'
<1>1. /\ \A q \in Procs : q # p => pc'[q] = pc[q]
      /\ pc[p] \in {"idle", "begin", "sleep"} /\ pc'[p] \in {"sleep", "op", "begin"}
      /\ UNCHANGED <<disk, dlog, dhead, cache, lh, committing, tail, boot, buf>>
  BY DEF MemInv, Inv, TypeOK, begin_op, kill, diskVars, logVars
<1>2. outstanding' # 0 \/ outstanding' = outstanding
  BY DEF MemInv, Inv, TypeOK, begin_op, kill, logVars
<1>3. Clean'
  BY <1>1 DEF MemInv, Clean, Held, Pending, Uninstalled
<1>4. Copied'
  BY <1>1 DEF MemInv, Copied, Mem
<1>5. Drained'
  BY <1>1, <1>2 DEF MemInv, Drained
<1> QED
  BY <1>3, <1>4, <1>5 DEF Rest

\* a changed buffer is held, and everything pending stays so: nobody commits
LEMMA Keeps_modify ==
  ASSUME MemInv, Inv', NEW p \in Procs, NEW b \in Blocks, NEW v \in Values, modify(p, b, v)
  PROVE  Rest'
<1>1. /\ \A q \in Procs : q # p => pc'[q] = pc[q] /\ buf'[q] = buf[q]
      /\ pc[p] = "op" /\ pc'[p] = "log_write" /\ buf'[p] = b
      /\ \A x \in Blocks : x # b => cache'[x] = cache[x]
      /\ boot = "up"
      /\ UNCHANGED <<disk, dlog, dhead, lh, outstanding, committing, tail, boot>>
  BY DEF MemInv, Inv, TypeOK, modify, diskVars, logVars, Running
<1>2. p \in Active
  BY <1>1 DEF Active
<1>3. \A q \in Procs : pc[q] \notin CommitPC /\ pc'[q] \notin CommitPC
  BY <1>1, <1>2, NoCommitter DEF MemInv, CommitPC
<1>4. Clean'
  BY <1>1, <1>3 DEF MemInv, Clean, Held, Pending, Uninstalled, CommitPC
<1>5. Copied'
  BY <1>3 DEF Copied, CommitPC
<1>6. Drained'
  BY <1>1 DEF MemInv, Drained
<1> QED
  BY <1>4, <1>5, <1>6 DEF Rest

\* the buffer that is released is pending from now on
LEMMA Keeps_log_write ==
  ASSUME MemInv, Inv', NEW p \in Procs, log_write(p)
  PROVE  Rest'
<1>1. /\ \A q \in Procs : q # p => pc'[q] = pc[q] /\ buf'[q] = buf[q]
      /\ pc[p] = "log_write" /\ pc'[p] = "op"
      /\ UNCHANGED <<disk, dlog, dhead, cache, outstanding, committing, tail, boot>>
  BY DEF MemInv, Inv, TypeOK, log_write, diskVars
<1>2. p \in Active /\ p \in Active'
  BY <1>1 DEF Active
<1>3. \A q \in Procs : pc[q] \notin CommitPC /\ pc'[q] \notin CommitPC
  BY <1>1, <1>2, NoCommitter DEF MemInv, CommitPC
<1>4. /\ Len(lh) \in Nat /\ Len(lh') \in Nat /\ Len(lh) <= Len(lh')
      /\ \A i \in 1..Len(lh) : lh'[i] = lh[i]
      /\ \E i \in 1..Len(lh') : lh'[i] = buf[p]
  <2>1. lh \in Seq(Blocks) /\ buf[p] \in Blocks
    BY <1>1 DEF MemInv, Inv, TypeOK, Header
  <2>2. CASE buf[p] \in Range(lh)
    BY <2>1, <2>2 DEF log_write, Range
  <2>3. CASE lh' = Append(lh, buf[p])
    BY <2>1, <2>3
  <2> QED
    BY <2>2, <2>3 DEF log_write
<1>5. \A i : Uninstalled(i)'
  BY <1>3 DEF Uninstalled, CommitPC
<1>6. ASSUME NEW b \in Blocks, Held(b) \/ Pending(b) PROVE Held(b)' \/ Pending(b)'
  BY <1>1, <1>4, <1>5, <1>6 DEF Held, Pending
<1>7. Clean'
  BY <1>1, <1>6 DEF MemInv, Clean
<1>8. Copied'
  BY <1>3 DEF Copied, CommitPC
<1>9. outstanding # 0
  BY <1>2, ActiveFinite DEF MemInv, Inv
<1>10. Drained'
  BY <1>1, <1>3, <1>9 DEF Drained, CommitPC
<1> QED
  BY <1>7, <1>8, <1>10 DEF Rest

\* the commit starts with nothing copied; it is over at once if nothing was logged
LEMMA Keeps_end_op ==
  ASSUME MemInv, Inv', NEW p \in Procs, end_op(p)
  PROVE  Rest'
<1>1. /\ \A q \in Procs : q # p => pc'[q] = pc[q] \/ (pc[q] = "sleep" /\ pc'[q] = "begin")
      /\ pc[p] = "op"
      /\ UNCHANGED <<disk, dlog, dhead, cache, lh, boot, buf>>
  BY DEF MemInv, Inv, TypeOK, end_op, wakeup, diskVars
<1>2. p \in Active
  BY <1>1 DEF Active
<1>3. \A q \in Procs : pc[q] \notin CommitPC
  BY <1>2, NoCommitter DEF MemInv
<1>4. CASE outstanding = 1
  <2>1. /\ committing' = TRUE /\ tail' = 1
        /\ pc'[p] = IF Len(lh) > 0 THEN "write_log" ELSE "done"
        /\ \A q \in Procs : q # p => pc'[q] = pc[q]
    BY <1>4 DEF MemInv, Inv, TypeOK, end_op
  <2>2. Len(lh) \in Nat /\ (Len(lh) = 0 => lh = <<>>)
    BY DEF MemInv, Inv, TypeOK
  <2>3. \A b \in Blocks : Pending(b) => Pending(b)'
    BY <1>1, <1>3, <2>1, <2>2 DEF Pending, Uninstalled, CommitPC
  <2>4. Clean'
    BY <1>1, <2>1, <2>3 DEF MemInv, Clean, Held
  <2>5. Copied'
    BY <1>1, <1>3, <2>1, <2>2 DEF Copied, CommitPC
  <2>6. Drained'
    BY <1>1, <1>3, <2>1, <2>2 DEF Drained, CommitPC
  <2> QED
    BY <2>4, <2>5, <2>6 DEF Rest
<1>5. CASE outstanding # 1
  <2>1. /\ pc'[p] = "idle" /\ UNCHANGED <<committing, tail>>
        /\ outstanding' = outstanding - 1
    BY <1>5 DEF MemInv, Inv, TypeOK, end_op, wakeup
  <2>2. Clean'
    BY <1>1, <2>1 DEF MemInv, Clean, Held, Pending, Uninstalled
  <2>3. Copied'
    BY <1>1, <1>3, <2>1 DEF Copied, CommitPC
  <2>4. outstanding' # 0
    BY <1>5, <2>1 DEF MemInv, Inv, TypeOK
  <2>5. Drained'
    BY <1>1, <1>3, <2>1, <2>4 DEF Drained, CommitPC
  <2> QED
    BY <2>2, <2>3, <2>5 DEF Rest
<1> QED
  BY <1>4, <1>5

\* one process commits, and nobody holds a buffer meanwhile
LEMMA Committer ==
  ASSUME Inv, NEW p \in Procs, pc[p] \in CommitPC
  PROVE  /\ committing
         /\ \A q \in Procs : q # p => pc[q] \notin CommitPC
         /\ \A b : ~Held(b)
BY DEF Inv, Control, Active, Held

\* one more block of the log holds what memory holds
LEMMA Keeps_write_log ==
  ASSUME MemInv, Inv', NEW p \in Procs, write_log(p)
  PROVE  Rest'
<1>1. /\ \A q \in Procs : q # p => pc'[q] = pc[q]
      /\ pc[p] = "write_log"
      /\ pc'[p] = IF tail = Len(lh) THEN "write_head" ELSE "write_log"
      /\ tail' = IF tail = Len(lh) THEN 1 ELSE tail + 1
      /\ UNCHANGED <<disk, dhead, lh, outstanding, committing, boot, buf>>
  BY DEF MemInv, Inv, TypeOK, write_log, logVars
<1>2. /\ committing
      /\ \A q \in Procs : q # p => pc[q] \notin CommitPC
      /\ \A b : ~Held(b)
  BY <1>1, Committer DEF MemInv, CommitPC
<1>3. tail \in 1..Len(lh) /\ Len(lh) \in Nat /\ \A i \in 1..Len(lh) : lh[i] \in Blocks
  BY <1>1 DEF MemInv, Inv, TypeOK, Header
<1>4. \A x \in Blocks : Mem(x)' = Mem(x)
  BY WriteLogMem
<1>5. \A i \in 1..Len(lh) : dlog'[i] = IF i = tail THEN Mem(lh[tail]) ELSE dlog[i]
  <2>1. \A i \in 1..Len(lh) : i \in DOMAIN dlog
    BY <1>3, LogAssumption DEF MemInv, Inv, TypeOK, Header
  <2>2. dlog' = [dlog EXCEPT ![tail] = Mem(lh[tail])]
    BY DEF write_log
  <2> QED
    BY <1>3, <2>1, <2>2
<1>6. Clean'
  <2>1. \A x \in Blocks : cache'[x] \notin {NoBuf, disk[x]} => cache[x] \notin {NoBuf, disk[x]}
    BY <1>3 DEF MemInv, Inv, TypeOK, write_log, Mem
  <2>2. \A x \in Blocks : Pending(x) => Pending(x)'
    BY <1>1, <1>2 DEF Pending, Uninstalled, CommitPC
  <2> QED
    BY <1>1, <1>2, <2>1, <2>2 DEF MemInv, Clean
<1>7. Copied'
  <2>1. \A i \in 1..Len(lh) : i < tail => dlog[i] = Mem(lh[i])
    BY <1>1 DEF MemInv, Copied
  <2>2. \A i \in 1..Len(lh) : i <= tail => dlog'[i] = Mem(lh[i])'
    BY <1>1, <1>3, <1>4, <1>5, <2>1
  <2>3. pc'[p] = "write_log" => \A i \in 1..Len(lh') : i < tail' => dlog'[i] = Mem(lh[i])'
    BY <1>1, <1>3, <2>2
  <2>4. pc'[p] = "write_head" => \A i \in 1..Len(lh') : dlog'[i] = Mem(lh[i])'
    BY <1>1, <1>3, <2>2
  <2> QED
    BY <1>1, <1>2, <2>3, <2>4 DEF Copied, CommitPC
<1>8. Drained'
  BY <1>1, <1>2 DEF Drained, CommitPC
<1> QED
  BY <1>6, <1>7, <1>8 DEF Rest

\* the commit point changes no contents
LEMMA Keeps_write_head ==
  ASSUME MemInv, Inv', NEW p \in Procs, write_head(p)
  PROVE  Rest'
<1>1. /\ \A q \in Procs : q # p => pc'[q] = pc[q]
      /\ pc[p] = "write_head" /\ pc'[p] = "install_trans" /\ tail' = 1
      /\ UNCHANGED <<disk, dlog, cache, lh, outstanding, committing, boot, buf>>
  BY DEF MemInv, Inv, TypeOK, write_head, logVars
<1>2. /\ committing
      /\ \A q \in Procs : q # p => pc[q] \notin CommitPC
      /\ \A b : ~Held(b)
  BY <1>1, Committer DEF MemInv, CommitPC
<1>3. Clean'
  <2>1. \A x \in Blocks : Pending(x) => Pending(x)'
    BY <1>1, <1>2 DEF Pending, Uninstalled, CommitPC
  <2> QED
    BY <1>1, <1>2, <2>1 DEF MemInv, Clean
<1>4. Copied'
  BY <1>1, <1>2 DEF MemInv, Copied, Mem, CommitPC
<1>5. Drained'
  BY <1>1, <1>2 DEF Drained, CommitPC
<1> QED
  BY <1>3, <1>4, <1>5 DEF Rest

\* the block that is copied home is clean from now on, the others stay pending
LEMMA Keeps_install_trans ==
  ASSUME MemInv, Inv', NEW p \in Procs, install_trans(p)
  PROVE  Rest'
<1>1. /\ \A q \in Procs : q # p => pc'[q] = pc[q]
      /\ pc[p] = "install_trans"
      /\ pc'[p] = IF tail = Len(lh) THEN "clear" ELSE "install_trans"
      /\ tail' = IF tail = Len(lh) THEN 1 ELSE tail + 1
      /\ UNCHANGED <<dlog, dhead, lh, outstanding, committing, boot, buf>>
  BY DEF MemInv, Inv, TypeOK, install_trans, install_block, logVars
<1>2. /\ committing
      /\ \A q \in Procs : q # p => pc[q] \notin CommitPC
      /\ \A b : ~Held(b)
  BY <1>1, Committer DEF MemInv, CommitPC
<1>3. tail \in 1..Len(lh) /\ Len(lh) \in Nat /\ \A i \in 1..Len(lh) : lh[i] \in Blocks
  BY <1>1 DEF MemInv, Inv, TypeOK, Header
<1>4. \A x \in Blocks : Mem(x)' = Mem(x)
  BY InstallMem
<1>5. /\ cache'[lh[tail]] = disk'[lh[tail]]
      /\ \A x \in Blocks : x # lh[tail] => cache'[x] = cache[x] /\ disk'[x] = disk[x]
  BY <1>3 DEF MemInv, Inv, TypeOK, install_trans, install_block
<1>6. Clean'
  <2>1. ASSUME NEW x \in Blocks, x # lh[tail], Pending(x) PROVE Pending(x)'
    <3>1. PICK i \in 1..Len(lh) : lh[i] = x /\ Uninstalled(i)
      BY <2>1 DEF Pending
    <3>2. i > tail
      BY <1>1, <1>3, <2>1, <3>1 DEF Uninstalled
    <3>3. tail # Len(lh)
      BY <1>3, <3>2
    <3>4. Uninstalled(i)'
      BY <1>1, <1>2, <1>3, <3>2, <3>3 DEF Uninstalled, CommitPC
    <3> QED
      BY <1>1, <3>1, <3>4 DEF Pending
  <2> QED
    BY <1>1, <1>2, <1>5, <2>1 DEF MemInv, Clean
<1>7. Copied'
  <2>1. \A i \in 1..Len(lh) : dlog'[i] = Mem(lh[i])'
    BY <1>1, <1>3, <1>4 DEF MemInv, Copied
  <2> QED
    BY <1>1, <1>2, <2>1 DEF Copied, CommitPC
<1>8. Drained'
  BY <1>1, <1>2 DEF Drained, CommitPC
<1> QED
  BY <1>6, <1>7, <1>8 DEF Rest

\* with everything copied home the transaction is emptied
LEMMA Keeps_clear ==
  ASSUME MemInv, Inv', NEW p \in Procs, clear(p)
  PROVE  Rest'
<1>1. /\ \A q \in Procs : q # p => pc'[q] = pc[q]
      /\ pc[p] = "clear" /\ pc'[p] = "done" /\ lh' = <<>>
      /\ UNCHANGED <<disk, cache>>
  BY DEF MemInv, Inv, TypeOK, clear
<1>2. /\ \A q \in Procs : q # p => pc[q] \notin CommitPC
      /\ \A b : ~Held(b) /\ ~Pending(b)
  BY <1>1, Committer DEF MemInv, CommitPC, Pending, Uninstalled
<1>3. Clean'
  BY <1>1, <1>2 DEF MemInv, Clean
<1>4. Copied'
  BY <1>1, <1>2 DEF Copied, CommitPC
<1>5. Drained'
  BY <1>1 DEF Drained
<1> QED
  BY <1>3, <1>4, <1>5 DEF Rest

\* the end of end_op() finds the transaction empty
LEMMA Keeps_end_commit ==
  ASSUME MemInv, Inv', NEW p \in Procs, end_commit(p)
  PROVE  Rest'
<1>1. /\ \A q \in Procs : q # p => pc'[q] = pc[q] \/ (pc[q] = "sleep" /\ pc'[q] = "begin")
      /\ pc[p] = "done" /\ pc'[p] = "idle"
      /\ boot = "up"
      /\ UNCHANGED <<disk, cache, lh>>
  BY DEF MemInv, Inv, TypeOK, end_commit, wakeup, diskVars, Running
<1>2. /\ \A q \in Procs : q # p => pc[q] \notin CommitPC
      /\ \A b : ~Held(b) /\ ~Pending(b)
  BY <1>1, Committer DEF MemInv, CommitPC, Pending, Uninstalled
<1>3. Clean'
  BY <1>1, <1>2 DEF MemInv, Clean
<1>4. Copied'
  BY <1>1, <1>2 DEF Copied, CommitPC
<1>5. Drained'
  BY <1>1 DEF MemInv, Drained
<1> QED
  BY <1>3, <1>4, <1>5 DEF Rest

\* a buffer that is given away was clean
LEMMA Keeps_recycle ==
  ASSUME MemInv, Inv', NEW b \in Blocks, recycle(b), LoggedStaysCached'
  PROVE  Rest'
<1>1. /\ UNCHANGED <<disk, dlog, lh, outstanding, committing, tail, boot, pc, buf>>
      /\ \A x \in Blocks : cache'[x] \in {cache[x], NoBuf}
  BY DEF MemInv, Inv, TypeOK, recycle, diskVars, logVars, procVars
<1>2. \A x \in Blocks : Mem(x)' = Mem(x)
  BY RecycleMem
<1>3. \A i \in 1..Len(lh) : lh[i] \in Blocks
  BY DEF MemInv, Inv, TypeOK
<1>4. Clean'
  BY <1>1 DEF MemInv, Clean, Held, Pending, Uninstalled
<1>5. Copied'
  BY <1>1, <1>2, <1>3 DEF MemInv, Copied
<1>6. Drained'
  BY <1>1 DEF MemInv, Drained
<1> QED
  BY <1>4, <1>5, <1>6 DEF Rest

\* a crash empties the cache, and what recovery reads into it is what it writes home
LEMMA Keeps_boot ==
  ASSUME MemInv, Inv', crash \/ Recovery
  PROVE  Rest'
<1>1. \A q \in Procs : pc'[q] = "idle"
  BY DEF MemInv, Inv, Control, crash, Recovery, read_head, recover_install, recover_clear, procVars
<1>2. Copied'
  BY <1>1 DEF Copied
<1>3. Drained'
  <2>1. boot' = "up" => lh' = <<>>
    BY DEF crash, Recovery, read_head, recover_install, recover_clear
  <2> QED
    BY <2>1 DEF Drained
<1>4. Clean'
  <2>1. CASE crash
    BY <2>1 DEF crash, Clean
  <2>2. CASE read_head \/ recover_clear
    BY <2>2 DEF MemInv, Clean, read_head, recover_clear, diskVars
  <2>3. CASE recover_install
    <3>1. lh[tail] \in Blocks /\ boot # "up"
      BY <2>3 DEF MemInv, Inv, TypeOK, Header, recover_install
    <3>2. \A x \in Blocks : cache'[x] = disk'[x] \/ (cache'[x] = cache[x] /\ disk'[x] = disk[x])
      BY <2>3, <3>1 DEF MemInv, Inv, TypeOK, recover_install, install_block
    <3> QED
      BY <3>1, <3>2 DEF MemInv, Clean
  <2> QED
    BY <2>1, <2>2, <2>3 DEF Recovery
<1> QED
  BY <1>2, <1>3, <1>4 DEF Rest

\* every step preserves the invariant, as long as logged blocks stay cached
LEMMA MemStep == MemInv /\ LoggedStaysCached' /\ [Next]_vars => MemInv'
<1> SUFFICES ASSUME MemInv, LoggedStaysCached', [Next]_vars PROVE MemInv'
  OBVIOUS
<1>1. Inv'
  BY TypeStep, ControlStep, BudgetStep, HeaderStep DEF MemInv, Inv
<1>2. CASE UNCHANGED vars
  <2> USE <1>2 DEF vars
  <2>1. Clean'
    BY DEF MemInv, Clean, Held, Pending, Uninstalled
  <2>2. Copied' /\ Drained'
    BY DEF MemInv, Copied, Mem, Drained
  <2> QED
    BY <1>1, <2>1, <2>2 DEF MemInv
<1>3. ASSUME NEW p \in Procs, Step(p) \/ kill(p) PROVE Rest'
  BY <1>1, <1>3, Keeps_begin_op, Keeps_log_write, Keeps_end_op, Keeps_write_log, Keeps_write_head,
     Keeps_install_trans, Keeps_clear, Keeps_end_commit DEF Step
<1>4. ASSUME Next PROVE Rest'
  BY <1>1, <1>3, <1>4, Keeps_modify, Keeps_recycle, Keeps_boot DEF Next
<1> QED
  BY <1>1, <1>2, <1>4 DEF MemInv, Rest

\* the invariant holds in every behaviour in which logged blocks stay cached
LEMMA MemInvariance == Spec /\ []LoggedStaysCached => []MemInv
<1>1. Init => MemInv
  <2> SUFFICES ASSUME Init PROVE MemInv
    OBVIOUS
  <2>1. Clean /\ Copied /\ Drained
    BY DEF Init, Clean, Copied, Drained
  <2> QED
    BY <2>1, InitInv DEF MemInv
<1> QED
  BY <1>1, MemStep, PTL DEF Spec

-----------------------------------------------------------------------------
(***************************************************************************)
(* What a call may rely on after end_op().                                 *)
(***************************************************************************)
\* end_op() and commit() (log.c): when the last call has returned and no commit is in
\* progress, a crash finds on disk everything that memory holds
THEOREM LogDurable == Spec /\ []LoggedStaysCached => []QuiescentDurable
<1>1. MemInv => QuiescentDurable
  <2> SUFFICES ASSUME MemInv, Running, outstanding = 0, ~committing PROVE Durable = Memory
    BY DEF QuiescentDurable
  <2>1. boot = "up" /\ lh = <<>>
    BY DEF MemInv, Drained, Running
  <2>2. \A p \in Procs : pc[p] \notin CommitPC /\ pc[p] # "log_write"
    BY ActiveFinite DEF MemInv, Inv, Control, Active
  <2>3. dhead = <<>>
    BY <2>1, <2>2 DEF MemInv, Inv, Header, CommitPC
  <2>4. \A b \in Blocks : Mem(b) = disk[b]
    BY <2>1, <2>2 DEF MemInv, Clean, Held, Pending, Mem
  <2> QED
    BY <2>1, <2>3, <2>4, DurableEmpty DEF Memory
<1> QED
  BY <1>1, MemInvariance, PTL

-----------------------------------------------------------------------------
(***************************************************************************)
(* The refinement: durable <- Durable, mem <- Memory, active <- Active.    *)
(***************************************************************************)
\* a step that keeps the cache, the home blocks and the progress of booting keeps memory
LEMMA SameMemory ==
  ASSUME boot = "up", boot' = "up", \A b \in Blocks : Mem(b)' = Mem(b)
  PROVE  Memory' = Memory
BY DEF Memory

\* begin_op() admits a call, or lets it wait; kill() only makes it test again
LEMMA Refines_begin_op ==
  ASSUME MemInv, NEW p \in Procs, begin_op(p) \/ kill(p)
  PROVE  Atomic!Begin(p) \/ UNCHANGED <<Durable, Memory, Active>>
<1>1. UNCHANGED <<Durable, Memory>>
  BY DEF begin_op, kill, diskVars, Durable, Memory, Mem
<1>2. \/ p \notin Active /\ Active' = Active \cup {p}
      \/ Active' = Active
  BY DEF MemInv, Inv, TypeOK, begin_op, kill, Active
<1> QED
  BY <1>1, <1>2 DEF Atomic!Begin

\* a change of a buffer is a write of the call
LEMMA Refines_modify ==
  ASSUME MemInv, NEW p \in Procs, NEW b \in Blocks, NEW v \in Values, modify(p, b, v)
  PROVE  Atomic!Write(p, b, v)
<1>1. p \in Active /\ Active' = Active
  BY DEF MemInv, Inv, TypeOK, modify, Active
<1>2. Durable' = Durable
  BY DEF modify, diskVars, Durable
<1>3. boot = "up" /\ boot' = "up" /\ disk' = disk
  BY DEF modify, Running, diskVars
<1>4. \A x \in Blocks : Mem(x)' = IF x = b THEN v ELSE Mem(x)
  BY <1>3, LogAssumption DEF MemInv, Inv, TypeOK, modify, Mem
<1>5. Memory' = [Memory EXCEPT ![b] = v]
  BY <1>3, <1>4 DEF Memory
<1> QED
  BY <1>1, <1>2, <1>5 DEF Atomic!Write

\* log_write(), and the end of end_op() after the commit, are invisible
LEMMA Refines_log_write ==
  ASSUME MemInv, NEW p \in Procs, log_write(p) \/ end_commit(p)
  PROVE  UNCHANGED <<Durable, Memory, Active>>
<1>1. UNCHANGED <<Durable, Memory>>
  BY DEF log_write, end_commit, diskVars, Durable, Memory, Mem
<1>2. Active' = Active
  BY DEF MemInv, Inv, TypeOK, log_write, end_commit, wakeup, Active
<1> QED
  BY <1>1, <1>2

\* end_op() ends the call, whether or not it has to commit
LEMMA Refines_end_op ==
  ASSUME MemInv, NEW p \in Procs, end_op(p)
  PROVE  Atomic!End(p)
<1>1. UNCHANGED <<Durable, Memory>>
  BY DEF end_op, diskVars, Durable, Memory, Mem
<1>2. p \in Active /\ Active' = Active \ {p}
  BY DEF MemInv, Inv, TypeOK, end_op, wakeup, Active
<1> QED
  BY <1>1, <1>2 DEF Atomic!End

\* a round of write_log() is invisible: no header names the block it writes
LEMMA Refines_write_log ==
  ASSUME MemInv, NEW p \in Procs, write_log(p)
  PROVE  UNCHANGED <<Durable, Memory, Active>>
<1>1. dhead = <<>> /\ boot = "up" /\ UNCHANGED <<disk, dhead, boot>>
  BY DEF MemInv, Inv, write_log, Header, Running, Control, CommitPC
<1>2. Durable' = Durable
  BY <1>1, DurableEmpty DEF Durable, Range
<1>3. Memory' = Memory
  BY <1>1, WriteLogMem, SameMemory
<1>4. Active' = Active
  BY DEF MemInv, Inv, TypeOK, write_log, Active
<1> QED
  BY <1>2, <1>3, <1>4

\* the first write_head() of commit() makes what memory holds durable, and no call is in
\* progress then
LEMMA Refines_write_head ==
  ASSUME MemInv, NEW p \in Procs, write_head(p)
  PROVE  Atomic!Commit
<1>1. /\ pc[p] = "write_head" /\ boot = "up" /\ dhead' = lh
      /\ UNCHANGED <<disk, dlog, cache, boot>>
  BY DEF write_head, Running
<1>2. Active = {}
  BY <1>1 DEF MemInv, Inv, Control, CommitPC
<1>3. Active' = Active
  BY DEF MemInv, Inv, TypeOK, write_head, Active
<1>4. Memory' = Memory
  BY <1>1, SameMemory DEF Mem
<1>5. ASSUME NEW b \in Blocks PROVE Durable'[b] = Mem(b)
  <2>1. DOMAIN lh = 1..Len(lh)
    BY DEF MemInv, Inv, TypeOK
  <2>2. CASE b \in Range(lh)
    <3>1. Slot(lh, b) \in 1..Len(lh) /\ lh[Slot(lh, b)] = b
      BY <2>1, <2>2 DEF Range, Slot
    <3>2. dlog[Slot(lh, b)] = Mem(b)
      BY <1>1, <3>1 DEF MemInv, Copied
    <3> QED
      BY <1>1, <2>2, <3>2 DEF Durable
  <2>3. CASE b \notin Range(lh)
    <3>1. ~Pending(b)
      BY <2>1, <2>3 DEF Pending, Range
    <3>2. ~Held(b)
      BY <1>1, Committer DEF MemInv, CommitPC
    <3>3. Mem(b) = disk[b]
      BY <3>1, <3>2 DEF MemInv, Clean, Mem
    <3> QED
      BY <1>1, <2>3, <3>3 DEF Durable
  <2> QED
    BY <2>2, <2>3
<1>6. Durable' = Memory
  BY <1>1, <1>5 DEF Durable, Memory
<1> QED
  BY <1>2, <1>3, <1>4, <1>6 DEF Atomic!Commit

\* copying home and clearing the header are invisible
LEMMA Refines_install_trans ==
  ASSUME MemInv, NEW p \in Procs, install_trans(p) \/ clear(p)
  PROVE  UNCHANGED <<Durable, Memory, Active>>
<1>1. boot = "up" /\ boot' = "up"
  BY DEF install_trans, clear, Running
<1>2. Durable' = Durable
  BY DurableInstall, DurableClear DEF MemInv, Inv, Header, install_trans, clear
<1>3. \A b \in Blocks : Mem(b)' = Mem(b)
  BY InstallMem DEF clear, Mem
<1>4. Active' = Active
  BY DEF MemInv, Inv, TypeOK, install_trans, clear, Active
<1> QED
  BY <1>1, <1>2, <1>3, <1>4, SameMemory

\* bget() giving a buffer away is invisible
LEMMA Refines_recycle ==
  ASSUME MemInv, NEW b \in Blocks, recycle(b), LoggedStaysCached'
  PROVE  UNCHANGED <<Durable, Memory, Active>>
<1>1. boot = "up" /\ boot' = "up"
  BY DEF recycle, Running
<1>2. Durable' = Durable
  BY DEF recycle, diskVars, Durable
<1>3. Active' = Active
  BY DEF recycle, procVars, Active
<1> QED
  BY <1>1, <1>2, <1>3, RecycleMem, SameMemory

\* a crash at any moment leaves memory with what is durable
LEMMA Refines_crash ==
  ASSUME MemInv, crash
  PROVE  Atomic!Crash
<1>1. Durable' = Durable
  BY DEF crash, diskVars, Durable
<1>2. Memory' = Durable
  BY <1>1 DEF crash, Memory
<1>3. Active' = {}
  BY DEF crash, Active
<1> QED
  BY <1>1, <1>2, <1>3 DEF Atomic!Crash

\* recovery is invisible: it brings the home blocks to what was durable already
LEMMA Refines_recovery ==
  ASSUME MemInv, Recovery
  PROVE  UNCHANGED <<Durable, Memory, Active>>
<1>1. Active' = Active /\ boot # "up"
  BY DEF Recovery, read_head, recover_install, recover_clear, procVars, Active
<1>2. Durable' = Durable
  <2>1. CASE read_head
    BY <2>1 DEF read_head, diskVars, Durable
  <2>2. CASE recover_install
    BY <2>2, DurableInstall DEF MemInv, Inv, Header, recover_install
  <2>3. CASE recover_clear
    BY <2>3, DurableClear DEF MemInv, Inv, Header, recover_clear
  <2> QED
    BY <2>1, <2>2, <2>3 DEF Recovery
<1>3. CASE boot' # "up"
  BY <1>1, <1>2, <1>3 DEF Memory
<1>4. CASE boot' = "up"
  <2>1. recover_clear
    BY <1>1, <1>4 DEF Recovery, read_head, recover_install
  <2>2. dhead' = <<>> /\ UNCHANGED <<disk, cache>>
    BY <2>1 DEF recover_clear
  <2>3. \A b \in Blocks : Mem(b)' = disk'[b]
    BY <1>1, <2>2 DEF MemInv, Clean, Mem
  <2>4. Durable' = [b \in Blocks |-> disk'[b]]
    BY <2>2 DEF Durable, Range
  <2>5. Memory' = Durable'
    BY <1>4, <2>3, <2>4 DEF Memory
  <2>6. Memory = Durable
    BY <1>1 DEF Memory
  <2> QED
    BY <1>1, <1>2, <2>5, <2>6
<1> QED
  BY <1>3, <1>4

\* log.c implements an atomic disk as long as logged blocks stay cached: with commits,
\* copies home, recoveries and crashes interleaved in any way, a crash loses whole calls
\* and never parts of them
THEOREM LogAtomic == Spec /\ []LoggedStaysCached => AtomicSpec
<1>1. Init => Atomic!Init
  <2> SUFFICES ASSUME Init PROVE Atomic!Init
    OBVIOUS
  <2>1. Durable = disk
    BY DurableEmpty DEF Init
  <2>2. Memory = Durable /\ Active = {}
    BY DEF Init, Memory, Active
  <2> QED
    BY <2>1, <2>2 DEF Init, Atomic!Init
<1>2. MemInv /\ LoggedStaysCached' /\ [Next]_vars => [Atomic!Next]_(Atomic!vars)
  <2> SUFFICES ASSUME MemInv, LoggedStaysCached', [Next]_vars
               PROVE  Atomic!Next \/ UNCHANGED <<Durable, Memory, Active>>
    BY DEF Atomic!vars
  <2>1. CASE UNCHANGED vars
    BY <2>1 DEF vars, Durable, Memory, Mem, Active
  <2>2. ASSUME NEW p \in Procs, Step(p) \/ kill(p)
        PROVE  Atomic!Next \/ UNCHANGED <<Durable, Memory, Active>>
    BY <2>2, Refines_begin_op, Refines_log_write, Refines_end_op, Refines_write_log,
       Refines_write_head, Refines_install_trans DEF Step, Atomic!Next
  <2>3. ASSUME NEW p \in Procs, NEW b \in Blocks, NEW v \in Values, modify(p, b, v)
        PROVE  Atomic!Next
    BY <2>3, Refines_modify DEF Atomic!Next
  <2>4. CASE crash
    BY <2>4, Refines_crash DEF Atomic!Next
  <2> QED
    BY <2>1, <2>2, <2>3, <2>4, Refines_recycle, Refines_recovery DEF Next
<1> QED
  BY <1>1, <1>2, MemInvariance, PTL DEF Spec, AtomicSpec, Atomic!Spec

-----------------------------------------------------------------------------
(***************************************************************************)
(* When logged blocks stay cached: the pins of log_write().                *)
(***************************************************************************)
\* nothing else uses the buffers; or no recovery ever installs anything, and buf.refcnt
\* can count a pin and a holder (RefMod is 2^32 in the code)
PinsHold == Recycling => ~Crashes /\ RefMod > 2

\* the references to the buffer of block b: log_write()'s pin and the process that holds it
References(b) == (IF Pending(b) THEN 1 ELSE 0) + (IF Held(b) THEN 1 ELSE 0)

\* the sleep-lock of a buffer excludes
OneHolder ==
  \A p, q \in Procs : pc[p] = "log_write" /\ pc[q] = "log_write" /\ buf[p] = buf[q] => p = q

\* a buffer that is pinned or held is there
PinnedCached == boot = "up" => \A b \in Blocks : Pending(b) \/ Held(b) => cache[b] # NoBuf

\* buf.refcnt is exact as long as no recovery has unpinned what nobody pinned
Counted ==
  Recycling => /\ boot # "up" => dhead = <<>> /\ lh = <<>>
               /\ \A b \in Blocks : refcnt[b] = References(b)

PinInv == MemInv /\ OneHolder /\ PinnedCached /\ Counted

\* the arithmetic of buf.refcnt while it counts a pin and a holder
LEMMA RefExact ==
  ASSUME RefMod > 2
  PROVE  /\ Inc(0) = 1 /\ Inc(1) = 2 /\ Dec(2) = 1 /\ Dec(Inc(1)) = 1 /\ Dec(Dec(Inc(1))) = 0
BY LogAssumption DEF Inc, Dec

\* a step that only moves processes around outside log_write() and the commit
LEMMA PinsSame ==
  ASSUME PinInv, Inv', UNCHANGED <<cache, refcnt, lh>>, boot = "up", boot' = "up",
         \A q \in Procs : pc'[q] = "log_write" <=> pc[q] = "log_write",
         \A q \in Procs : pc[q] = "log_write" => buf'[q] = buf[q],
         \A b \in Blocks : Pending(b)' = Pending(b)
  PROVE  OneHolder' /\ PinnedCached' /\ Counted'
<1>1. \A b \in Blocks : Held(b)' = Held(b)
  BY DEF Held
<1>2. OneHolder'
  BY DEF PinInv, MemInv, OneHolder
<1>3. PinnedCached'
  BY <1>1 DEF PinInv, MemInv, PinnedCached
<1>4. Counted'
  BY <1>1 DEF PinInv, MemInv, Counted, References
<1> QED
  BY <1>2, <1>3, <1>4

PinRest == OneHolder /\ PinnedCached /\ Counted

\* bread(), begin_op() and the commit up to its commit point move no pin
LEMMA Pins_quiet ==
  ASSUME PinInv, Inv', NEW p \in Procs,
         begin_op(p) \/ kill(p) \/ end_op(p) \/ write_head(p) \/ clear(p) \/ end_commit(p)
  PROVE  PinRest'
<1>1. boot = "up" /\ boot' = "up" /\ UNCHANGED <<cache, refcnt, buf>>
  BY DEF begin_op, kill, end_op, write_head, clear, end_commit, Running
<1>2. \A q \in Procs : pc'[q] = "log_write" <=> pc[q] = "log_write"
  BY DEF PinInv, MemInv, Inv, TypeOK, begin_op, kill, end_op, write_head, clear, end_commit, wakeup
<1>3. CASE clear(p)
  <2>1. pc[p] = "clear" /\ pc'[p] = "done"
    BY <1>3 DEF PinInv, MemInv, Inv, TypeOK, clear
  <2>2. \A b \in Blocks : ~Pending(b) /\ ~Pending(b)'
    BY <2>1 DEF Pending, Uninstalled
  <2>3. \A b \in Blocks : ~Held(b) /\ ~Held(b)'
    BY <1>2, <2>1, Committer DEF PinInv, MemInv, CommitPC, Held
  <2>4. OneHolder' /\ PinnedCached'
    BY <1>1, <1>2, <2>2, <2>3 DEF PinInv, MemInv, OneHolder, PinnedCached
  <2>5. Counted'
    BY <1>1, <2>2, <2>3 DEF PinInv, MemInv, Counted, References
  <2> QED
    BY <2>4, <2>5 DEF PinRest
<1>4. CASE ~clear(p)
  <2>1. lh' = lh
    BY <1>4 DEF begin_op, kill, end_op, write_head, end_commit, logVars
  <2>2. \A b \in Blocks : Pending(b)' = Pending(b)
    <3>1. CASE begin_op(p) \/ kill(p)
      <4>1. /\ \A q \in Procs : q # p => pc'[q] = pc[q]
            /\ pc[p] \in {"idle", "begin", "sleep"} /\ pc'[p] \in {"sleep", "op", "begin"}
            /\ tail' = tail
        BY <3>1 DEF PinInv, MemInv, Inv, TypeOK, begin_op, kill
      <4> QED
        BY <2>1, <4>1 DEF Pending, Uninstalled
    <3>2. CASE end_op(p)
      <4>1. p \in Active
        BY <3>2 DEF end_op, Active
      <4>2. \A q \in Procs : pc[q] \notin CommitPC
        BY <4>1, NoCommitter DEF PinInv, MemInv
      <4>3. Len(lh) \in Nat
        BY DEF PinInv, MemInv, Inv, TypeOK
      <4>4. \A q \in Procs : /\ pc'[q] # "install_trans" /\ pc'[q] # "clear"
                             /\ pc'[q] = "done" => Len(lh) = 0
        <5>1. pc \in [Procs -> PC]
          BY DEF PinInv, MemInv, Inv, TypeOK
        <5>2. CASE pc' = [pc EXCEPT ![p] = IF Len(lh) > 0 THEN "write_log" ELSE "done"]
          BY <4>2, <4>3, <5>1, <5>2 DEF CommitPC
        <5>3. CASE pc' = wakeup([pc EXCEPT ![p] = "idle"])
          BY <4>2, <5>1, <5>3 DEF wakeup, CommitPC
        <5> QED
          BY <3>2, <5>2, <5>3 DEF end_op
      <4> QED
        BY <2>1, <4>2, <4>3, <4>4 DEF Pending, Uninstalled, CommitPC
    <3>3. CASE write_head(p)
      <4>1. /\ \A q \in Procs : q # p => pc'[q] = pc[q]
            /\ pc[p] = "write_head" /\ pc'[p] = "install_trans" /\ tail' = 1
        BY <3>3 DEF PinInv, MemInv, Inv, TypeOK, write_head
      <4>2. \A q \in Procs : q # p => pc[q] \notin CommitPC
        BY <4>1, Committer DEF PinInv, MemInv, CommitPC
      <4> QED
        BY <2>1, <4>1, <4>2 DEF Pending, Uninstalled, CommitPC
    <3>4. CASE end_commit(p)
      <4>1. lh = <<>>
        BY <1>1, <3>4 DEF PinInv, MemInv, Drained, end_commit
      <4> QED
        BY <2>1, <4>1 DEF Pending
    <3> QED
      BY <1>4, <3>1, <3>2, <3>3, <3>4
  <2> QED
    BY <1>1, <1>2, <2>1, <2>2, PinsSame DEF PinRest
<1> QED
  BY <1>3, <1>4

\* the buffer of a changed block gains a holder
LEMMA Pins_modify ==
  ASSUME PinsHold, PinInv, Inv', NEW p \in Procs, NEW b \in Blocks, NEW v \in Values, modify(p, b, v)
  PROVE  PinRest'
<1>1. /\ \A q \in Procs : q # p => pc'[q] = pc[q] /\ buf'[q] = buf[q]
      /\ pc[p] = "op" /\ pc'[p] = "log_write" /\ buf'[p] = b
      /\ cache' = [cache EXCEPT ![b] = v]
      /\ refcnt' = [refcnt EXCEPT ![b] = Inc(@)]
      /\ \A q \in Procs : ~(pc[q] = "log_write" /\ buf[q] = b)
      /\ boot = "up"
      /\ UNCHANGED <<dhead, lh, tail, boot>>
  BY DEF PinInv, MemInv, Inv, TypeOK, modify, diskVars, logVars, Running
<1>2. \A x \in Blocks : Pending(x)' = Pending(x)
  BY <1>1 DEF Pending, Uninstalled
<1>3. \A x \in Blocks : Held(x)' <=> x = b \/ Held(x)
  BY <1>1 DEF Held
<1>4. ~Held(b)
  BY <1>1 DEF Held
<1>5. OneHolder'
  BY <1>1 DEF PinInv, OneHolder
<1>6. PinnedCached'
  BY <1>1, <1>2, <1>3, LogAssumption DEF PinInv, MemInv, Inv, TypeOK, PinnedCached
<1>7. Counted'
  <2> SUFFICES ASSUME Recycling, NEW x \in Blocks PROVE refcnt'[x] = References(x)'
    BY <1>1 DEF Counted
  <2>1. refcnt \in [Blocks -> 0..RefMod-1] /\ refcnt[x] = References(x)
    BY DEF PinInv, MemInv, Inv, TypeOK, Counted
  <2>2. CASE x = b
    <3>1. References(x)' = Inc(References(x))
      BY <1>2, <1>3, <1>4, <2>2, RefExact DEF References, PinsHold
    <3> QED
      BY <1>1, <2>1, <2>2, <3>1
  <2>3. CASE x # b
    BY <1>1, <1>2, <1>3, <2>1, <2>3 DEF References
  <2> QED
    BY <2>2, <2>3
<1> QED
  BY <1>5, <1>6, <1>7 DEF PinRest

\* log_write() replaces the holder by the pin, or drops the holder of a pinned buffer
LEMMA Pins_log_write ==
  ASSUME PinsHold, PinInv, Inv', NEW p \in Procs, log_write(p)
  PROVE  PinRest'
<1>1. /\ \A q \in Procs : q # p => pc'[q] = pc[q] /\ buf'[q] = buf[q]
      /\ pc[p] = "log_write" /\ pc'[p] = "op" /\ buf[p] \in Blocks
      /\ boot = "up"
      /\ UNCHANGED <<dhead, cache, tail, boot>>
  BY DEF PinInv, MemInv, Inv, TypeOK, Header, log_write, diskVars, Running
<1>2. p \in Active
  BY <1>1 DEF Active
<1>3. \A q \in Procs : pc[q] \notin CommitPC /\ pc'[q] \notin CommitPC
  BY <1>1, <1>2, NoCommitter DEF PinInv, MemInv, CommitPC
<1>4. \A i : Uninstalled(i) /\ Uninstalled(i)'
  BY <1>3 DEF Uninstalled, CommitPC
<1>5. \A x \in Blocks : /\ Pending(x) <=> x \in Range(lh)
                        /\ Pending(x)' <=> x = buf[p] \/ x \in Range(lh)
  <2>1. lh \in Seq(Blocks)
    BY DEF PinInv, MemInv, Inv, TypeOK
  <2>2. CASE buf[p] \in Range(lh) /\ lh' = lh
    BY <1>4, <2>1, <2>2 DEF Pending, Range
  <2>3. CASE lh' = Append(lh, buf[p])
    BY <1>1, <1>4, <2>1, <2>3 DEF Pending, Range
  <2> QED
    BY <2>2, <2>3 DEF log_write
<1>6. \A x \in Blocks : /\ Held(x)' <=> Held(x) /\ x # buf[p]
  BY <1>1 DEF PinInv, OneHolder, Held
<1>7. Held(buf[p])
  BY <1>1 DEF Held
<1>8. OneHolder'
  BY <1>1 DEF PinInv, OneHolder
<1>9. PinnedCached'
  BY <1>1, <1>5, <1>6, <1>7 DEF PinInv, PinnedCached
<1>10. Counted'
  <2> SUFFICES ASSUME Recycling, NEW x \in Blocks PROVE refcnt'[x] = References(x)'
    BY <1>1 DEF Counted
  <2>1. refcnt \in [Blocks -> 0..RefMod-1] /\ refcnt[x] = References(x)
    BY DEF PinInv, MemInv, Inv, TypeOK, Counted
  <2>2. CASE x = buf[p] /\ x \in Range(lh)
    <3>1. References(x) = 2 /\ References(x)' = 1
      BY <1>5, <1>6, <1>7, <2>2 DEF References
    <3> QED
      BY <2>1, <2>2, <3>1, RefExact DEF log_write, PinsHold
  <2>3. CASE x = buf[p] /\ x \notin Range(lh)
    <3>1. References(x) = 1 /\ References(x)' = 1
      BY <1>5, <1>6, <1>7, <2>3 DEF References
    <3> QED
      BY <2>1, <2>3, <3>1, RefExact DEF log_write, PinsHold
  <2>4. CASE x # buf[p]
    <3>1. References(x)' = References(x)
      BY <1>5, <1>6, <2>4 DEF References
    <3> QED
      BY <1>1, <2>1, <2>4, <3>1 DEF log_write
  <2> QED
    BY <2>2, <2>3, <2>4
<1> QED
  BY <1>8, <1>9, <1>10 DEF PinRest

\* write_log() reads and releases buffers that are there
LEMMA Pins_write_log ==
  ASSUME PinInv, Inv', NEW p \in Procs, write_log(p)
  PROVE  PinRest'
<1>1. /\ \A q \in Procs : q # p => pc'[q] = pc[q]
      /\ pc[p] = "write_log" /\ pc'[p] \in {"write_head", "write_log"}
      /\ boot = "up" /\ lh[tail] \in Blocks
      /\ UNCHANGED <<dhead, refcnt, lh, boot, buf>>
  BY DEF PinInv, MemInv, Inv, TypeOK, Header, write_log, logVars, Running
<1>2. \A q \in Procs : q # p => pc[q] \notin CommitPC
  BY <1>1, Committer DEF PinInv, MemInv, CommitPC
<1>3. \A x \in Blocks : Pending(x)' = Pending(x) /\ Held(x)' = Held(x)
  BY <1>1, <1>2 DEF Pending, Uninstalled, Held, CommitPC
<1>4. \A x \in Blocks : cache[x] # NoBuf => cache'[x] # NoBuf
  BY <1>1, LogAssumption DEF PinInv, MemInv, Inv, TypeOK, write_log, Mem
<1>5. OneHolder'
  BY <1>1 DEF PinInv, OneHolder
<1>6. PinnedCached'
  BY <1>1, <1>3, <1>4 DEF PinInv, PinnedCached
<1>7. Counted'
  BY <1>1, <1>3 DEF PinInv, Counted, References
<1> QED
  BY <1>5, <1>6, <1>7 DEF PinRest

\* a round of install_trans() drops the pin of the block that it has copied home
LEMMA Pins_install_trans ==
  ASSUME PinsHold, PinInv, Inv', NEW p \in Procs, install_trans(p)
  PROVE  PinRest'
<1>1. /\ \A q \in Procs : q # p => pc'[q] = pc[q]
      /\ pc[p] = "install_trans"
      /\ pc'[p] = IF tail = Len(lh) THEN "clear" ELSE "install_trans"
      /\ tail' = IF tail = Len(lh) THEN 1 ELSE tail + 1
      /\ boot = "up"
      /\ UNCHANGED <<dlog, dhead, lh, boot, buf>>
  BY DEF PinInv, MemInv, Inv, TypeOK, install_trans, install_block, logVars, Running
<1>2. /\ \A q \in Procs : q # p => pc[q] \notin CommitPC
      /\ \A b : ~Held(b)
  BY <1>1, Committer DEF PinInv, MemInv, CommitPC
<1>3. /\ tail \in 1..Len(lh) /\ Len(lh) \in Nat /\ \A i \in 1..Len(lh) : lh[i] \in Blocks
      /\ \A i \in 1..Len(lh) : lh[i] = lh[tail] => i = tail
  BY <1>1 DEF PinInv, MemInv, Inv, TypeOK, Header, Distinct
<1>4. \A b \in Blocks : ~Held(b)'
  BY <1>1, <1>2 DEF Held
<1>5. \A i \in 1..Len(lh) : /\ Uninstalled(i) <=> tail <= i
                            /\ Uninstalled(i)' <=> tail < i
  <2>1. ASSUME NEW i \in 1..Len(lh) PROVE Uninstalled(i) <=> tail <= i
    BY <1>1, <1>2, <1>3 DEF Uninstalled, CommitPC
  <2>2. ASSUME NEW i \in 1..Len(lh) PROVE Uninstalled(i)' <=> tail < i
    <3>1. CASE tail = Len(lh)
      BY <1>1, <1>3, <3>1 DEF Uninstalled
    <3>2. CASE tail # Len(lh)
      BY <1>1, <1>2, <1>3, <3>2 DEF Uninstalled, CommitPC
    <3> QED
      BY <3>1, <3>2
  <2> QED
    BY <2>1, <2>2
<1>6. \A x \in Blocks : IF x = lh[tail] THEN Pending(x) /\ ~Pending(x)' ELSE Pending(x)' = Pending(x)
  <2>1. Pending(lh[tail])
    BY <1>3, <1>5 DEF Pending
  <2>2. ~(\E i \in 1..Len(lh) : lh[i] = lh[tail] /\ Uninstalled(i)')
    BY <1>3, <1>5
  <2>3. ASSUME NEW x \in Blocks, x # lh[tail], NEW i \in 1..Len(lh), lh[i] = x
        PROVE  Uninstalled(i)' <=> Uninstalled(i)
    BY <1>3, <1>5, <2>3
  <2>4. ASSUME NEW x \in Blocks, x # lh[tail] PROVE Pending(x)' = Pending(x)
    BY <1>1, <2>3, <2>4 DEF Pending
  <2>5. ASSUME NEW x \in Blocks, x = lh[tail] PROVE ~Pending(x)'
    BY <1>1, <2>2, <2>5 DEF Pending
  <2> QED
    BY <2>1, <2>4, <2>5
<1>7. OneHolder'
  BY <1>1 DEF PinInv, OneHolder
<1>8. PinnedCached'
  <2>1. \A x \in Blocks : x # lh[tail] => cache'[x] = cache[x]
    BY <1>3 DEF PinInv, MemInv, Inv, TypeOK, install_trans, install_block
  <2> QED
    BY <1>1, <1>4, <1>6, <2>1 DEF PinInv, PinnedCached
<1>9. Counted'
  <2> SUFFICES ASSUME Recycling, NEW x \in Blocks PROVE refcnt'[x] = References(x)'
    BY <1>1 DEF Counted
  <2>1. refcnt \in [Blocks -> 0..RefMod-1] /\ refcnt[x] = References(x)
    BY DEF PinInv, MemInv, Inv, TypeOK, Counted
  <2>2. refcnt' = [refcnt EXCEPT ![lh[tail]] = Dec(Dec(Inc(@)))]
    BY DEF install_trans, install_block
  <2>3. CASE x = lh[tail]
    <3>1. References(x) = 1 /\ References(x)' = 0
      BY <1>2, <1>4, <1>6, <2>3 DEF References
    <3> QED
      BY <2>1, <2>2, <2>3, <3>1, RefExact DEF PinsHold
  <2>4. CASE x # lh[tail]
    BY <1>2, <1>4, <1>6, <2>1, <2>2, <2>4 DEF References
  <2> QED
    BY <2>3, <2>4
<1> QED
  BY <1>7, <1>8, <1>9 DEF PinRest

\* a buffer without references has neither a pin nor a holder
LEMMA Pins_recycle ==
  ASSUME PinInv, Inv', NEW b \in Blocks, recycle(b)
  PROVE  PinRest'
<1>1. /\ UNCHANGED <<dhead, refcnt, lh, tail, boot, pc, buf>>
      /\ Recycling /\ refcnt[b] = 0 /\ cache' = [cache EXCEPT ![b] = NoBuf]
  BY DEF recycle, diskVars, logVars, procVars
<1>2. \A x \in Blocks : Pending(x)' = Pending(x) /\ Held(x)' = Held(x)
  BY <1>1 DEF Pending, Uninstalled, Held
<1>3. ~Pending(b) /\ ~Held(b)
  BY <1>1 DEF PinInv, Counted, References
<1>4. OneHolder'
  BY <1>1 DEF PinInv, OneHolder
<1>5. PinnedCached'
  BY <1>1, <1>2, <1>3 DEF PinInv, MemInv, Inv, TypeOK, PinnedCached
<1>6. Counted'
  BY <1>1, <1>2 DEF PinInv, Counted, References
<1> QED
  BY <1>4, <1>5, <1>6 DEF PinRest

\* a machine that has not crashed finds nothing to recover
LEMMA Pins_boot ==
  ASSUME PinsHold, PinInv, Inv', crash \/ Recovery
  PROVE  PinRest'
<1>1. \A q \in Procs : pc'[q] = "idle"
  BY DEF PinInv, MemInv, Inv, Control, crash, Recovery, read_head, recover_install, recover_clear,
         procVars
<1>2. OneHolder'
  BY <1>1 DEF OneHolder
<1>3. boot' = "up" => lh' = <<>>
  BY DEF crash, Recovery, read_head, recover_install, recover_clear
<1>4. \A x \in Blocks : ~Held(x)' /\ (lh' = <<>> => ~Pending(x)')
  BY <1>1 DEF Held, Pending
<1>5. PinnedCached'
  BY <1>3, <1>4 DEF PinnedCached
<1>6. Counted'
  <2> SUFFICES ASSUME Recycling, Recovery PROVE Counted'
    BY DEF Counted, PinsHold, crash
  <2>1. boot # "up" /\ dhead = <<>> /\ lh = <<>>
    BY DEF PinInv, Counted, Recovery, read_head, recover_install, recover_clear
  <2>2. ~recover_install
    BY <2>1 DEF PinInv, MemInv, Inv, Header, recover_install
  <2>3. dhead' = <<>> /\ lh' = <<>> /\ UNCHANGED refcnt
    BY <2>1, <2>2 DEF Recovery, read_head, recover_clear, diskVars
  <2>4. \A x \in Blocks : ~Held(x) /\ ~Pending(x)
    BY <2>1 DEF PinInv, MemInv, Inv, Control, Held, Pending
  <2> QED
    BY <1>4, <2>3, <2>4 DEF PinInv, Counted, References
<1> QED
  BY <1>2, <1>5, <1>6 DEF PinRest

\* LoggedStaysCached says of the cache what PinnedCached says
LEMMA PinsCached == Inv /\ PinnedCached => LoggedStaysCached
<1> SUFFICES ASSUME Inv, PinnedCached, Running, NEW i \in DOMAIN lh
             PROVE  \/ \E p \in Procs : pc[p] \in {"clear", "done"}
                    \/ i < tail /\ \E p \in Procs : pc[p] = "install_trans"
                    \/ cache[lh[i]] # NoBuf
  BY DEF LoggedStaysCached
<1>1. i \in 1..Len(lh) /\ lh[i] \in Blocks
  BY DEF Inv, TypeOK
<1>2. Uninstalled(i) => Pending(lh[i])
  BY <1>1 DEF Pending
<1> QED
  BY <1>1, <1>2 DEF PinnedCached, Running, Uninstalled

\* log_write() and install_trans() (log.c), bpin() and bunpin() (bio.c): a logged block
\* stays in the cache until it is copied home, unless a crash and other traffic for the
\* buffers come together
THEOREM LogPins == ASSUME PinsHold PROVE Spec => []LoggedStaysCached
<1>1. Init => PinInv
  <2> SUFFICES ASSUME Init PROVE PinInv
    OBVIOUS
  <2>1. MemInv
    BY InitInv DEF Init, MemInv, Clean, Copied, Drained
  <2>2. \A b \in Blocks : ~Pending(b) /\ ~Held(b)
    BY DEF Init, Pending, Held
  <2>3. OneHolder /\ PinnedCached /\ Counted
    BY <2>2 DEF Init, OneHolder, PinnedCached, Counted, References
  <2> QED
    BY <2>1, <2>3 DEF PinInv
<1>2. PinInv /\ [Next]_vars => PinInv'
  <2> SUFFICES ASSUME PinInv, [Next]_vars PROVE PinInv'
    OBVIOUS
  <2>1. Inv'
    BY TypeStep, ControlStep, BudgetStep, HeaderStep DEF PinInv, MemInv, Inv
  <2>2. PinRest'
    <3>1. CASE UNCHANGED vars
      <4>1. \A b \in Blocks : Pending(b)' = Pending(b) /\ Held(b)' = Held(b)
        BY <3>1 DEF vars, Pending, Uninstalled, Held
      <4>2. OneHolder'
        BY <3>1 DEF PinInv, vars, OneHolder
      <4>3. PinnedCached' /\ Counted'
        BY <3>1, <4>1 DEF PinInv, vars, PinnedCached, Counted, References
      <4> QED
        BY <4>2, <4>3 DEF PinRest
    <3>2. ASSUME NEW p \in Procs, Step(p) \/ kill(p) PROVE PinRest'
      BY <2>1, <3>2, PinsHold, Pins_quiet, Pins_log_write, Pins_write_log, Pins_install_trans DEF Step
    <3>3. ASSUME Next PROVE PinRest'
      BY <2>1, <3>2, <3>3, PinsHold, Pins_modify, Pins_recycle, Pins_boot DEF Next
    <3> QED
      BY <3>1, <3>3
  <2>3. LoggedStaysCached'
    <3>1. PinnedCached'
      BY <2>2 DEF PinRest
    <3> QED
      BY <2>1, <3>1, PinsCached, PTL
  <2>4. MemInv'
    BY <2>3, MemStep DEF PinInv
  <2> QED
    BY <2>2, <2>4 DEF PinInv, PinRest
<1>3. PinInv => LoggedStaysCached
  BY PinsCached DEF PinInv, MemInv
<1> QED
  BY <1>1, <1>2, <1>3, PTL DEF Spec

\* the two results above for the configurations in which the pins hold
THEOREM LogCorrect == ASSUME PinsHold PROVE Spec => AtomicSpec /\ []QuiescentDurable
<1>1. Spec => []LoggedStaysCached
  BY PinsHold, LogPins
<1> QED
  BY <1>1, LogAtomic, LogDurable, PTL

=============================================================================
