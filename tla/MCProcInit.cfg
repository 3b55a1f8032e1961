SPECIFICATION Spec
CONSTANTS
  NPROC = 3
  MaxPid = 3
  InitPids <- Pid2And5
  KillPids <- NoPids
  AllocFails = FALSE
INVARIANTS
  InitNotified
CHECK_DEADLOCK FALSE
