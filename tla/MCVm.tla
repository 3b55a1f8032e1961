-------------------------------- MODULE MCVm --------------------------------
(* Instances of Vm for TLC.                                                *)
EXTENDS Vm

(* Grow into a new page, shrink within one, shrink by more than there is.   *)
SomeBrks == {3, 0 - 1, 0 - 20}

(* One segment; two, the second in a page of its own; the same downwards.   *)
SomeImages == {<<<<0, 1>>>>, <<<<0, 1>>, <<2, 3>>>>, <<<<2, 3>>, <<0, 1>>>>}

(* The state up to a renaming of physical pages: a page is known by the places
   that hold it and by whether it is free.                                 *)
Shape(p) == [state |-> proc[p].state, sz |-> proc[p].sz,
             user |-> [va \in DOMAIN proc[p].leaf |-> proc[p].leaf[va].u],
             trapframe |-> {va \in DOMAIN proc[p].leaf :
                              proc[p].leaf[va].pa = proc[p].trapframe}]

UpToRenaming ==
  LET places == UNION {Owned(p) : p \in {q \in Procs : proc[q].state # "unused"}}
  IN <<[p \in Procs |-> Shape(p)],
       {<<{h \in places : PageOf(h) = pa}, pa \in free>> : pa \in Pages},
       Cardinality(free), ok, panicked>>
=============================================================================
