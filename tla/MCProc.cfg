SPECIFICATION Spec
CONSTANTS
  NPROC = 4
  MaxPid = 5
  InitPids <- Pid2And5
  KillPids <- Pid2
  AllocFails = TRUE
INVARIANTS
  ParentAlive
  WaitersNotified
  StackNotFreed
  LocksOrdered
CHECK_DEADLOCK FALSE
