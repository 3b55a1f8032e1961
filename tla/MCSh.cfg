CHECK_DEADLOCK FALSE
CONSTANTS
  NPROC = 8
  NOFILE = 6
  NPIPE = 2
  PIPESIZE = 1
  MAXARGS = 3
  Sessions <- SomeSessions
  Trees <- SmallTrees
SPECIFICATION FairSpec
INVARIANTS RunsAsWritten ForegroundDone
PROPERTY LinesEnd
