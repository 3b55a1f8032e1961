SPECIFICATION FairSpec
CONSTANTS
  c1 = c1  c2 = c2
  NPROC = 3
  CPUs <- TwoHarts
  boot = c1
  None = None
INVARIANTS
  OneCPU
  NoLostWakeup
PROPERTY
  RunnableRuns
