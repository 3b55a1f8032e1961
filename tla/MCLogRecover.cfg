SPECIFICATION Spec
CONSTANTS
  p1 = p1  p2 = p2  p3 = p3
  b1 = b1  b2 = b2  b3 = b3
  v0 = v0  v1 = v1
  Procs <- Procs2
  Blocks <- Blocks2
  Values <- Values2
  Zero = v0
  NoBuf = NoBuf
  MAXOPBLOCKS = 2
  OpBlocks = 2
  LOGSIZE = 4
  NLOG = 5
  RefMod = 4
  Crashes = TRUE
  Recycling = TRUE
INVARIANTS
  LoggedStaysCached
SYMMETRY Symmetry2
