SPECIFICATION Spec
CONSTANTS
  p1 = p1  p2 = p2
  b1 = b1  b2 = b2  b3 = b3  b4 = b4
  v0 = v0  v1 = v1
  Procs <- Procs2
  Blocks <- Blocks4
  Values <- Values2
  NBUF = 3
  None = None
  PinLimit = 2
INVARIANTS
  SleepersHaveHolder
PROPERTIES
  StoreSpec
SYMMETRY CacheSymmetry
