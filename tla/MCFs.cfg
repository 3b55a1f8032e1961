CONSTANTS
  p1 = p1
  p2 = p2
  NoProc = NoProc
  Procs = {p1, p2}
  NI = 3
  Names = {"a", "b"}
  NFILE = 1
  NOFILE = 2
  Calls <- CallsAll
SPECIFICATION Spec
INVARIANTS LinkCounts RefCounts CacheCoherent CallsProceed
