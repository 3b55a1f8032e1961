SPECIFICATION Spec
CONSTANTS
  NPROC = 4
  MaxPid = 5
  InitPids <- Pid2And5
  KillPids <- NoPids
  AllocFails = FALSE
INVARIANTS
  NoDeadlock
CHECK_DEADLOCK FALSE
