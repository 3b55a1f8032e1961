------------------------------ MODULE MCConsole ------------------------------
(* Instances of Console for TLC: one workload for each pair of calls whose
   drivers share state.                                                     *)
EXTENDS Console

Work(calls, lens, keys, clock) ==
  [calls |-> calls, lens |-> lens, keys |-> keys, timer |-> clock]

Drivers == {Work(<<{"read"}>>, {2}, {"a", "cr", "^U"}, FALSE),
            Work(<<{"read"}>>, {0, 2}, {"a", "^D", "^H"}, FALSE),
            Work(<<{"read"}, {"read"}>>, {1}, {"cr", "kill"}, FALSE),
            Work(<<{"write"}, {"write"}>>, {2}, {"a"}, FALSE),
            Work(<<{"write"}, {"printf"}>>, {1}, {"^P"}, FALSE),
            Work(<<{"sleep"}, {"sleep"}>>, {}, {"kill"}, TRUE)}

SomeNaps == {2, 0 - 1}
=============================================================================
