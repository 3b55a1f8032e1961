SPECIFICATION FairSpec
CONSTANTS
  p1 = p1  p2 = p2  p3 = p3
  b1 = b1  b2 = b2  b3 = b3
  v0 = v0  v1 = v1
  Procs <- Procs3
  Blocks <- Blocks3
  Values <- Values1
  Zero = v0
  NoBuf = NoBuf
  MAXOPBLOCKS = 2
  OpBlocks = 1
  LOGSIZE = 4
  NLOG = 4
  RefMod = 4
  Crashes = FALSE
  Recycling = TRUE
INVARIANTS
  NoPanicWithSlack
  LoggedStaysCached
PROPERTIES
  CallsEnd
