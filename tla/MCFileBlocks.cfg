CONSTANTS
  p1 = p1
  p2 = p2
  Procs = {p1, p2}
  NoProc = NoProc
  Files = {1, 2}
  BSIZE = 2
  NDIRECT = 1
  FSSIZE = 5
  BPB = 3
  MAXOPBLOCKS = 6
  Boot = 1
  Opens <- SomeOpens
  Reads <- SomeReads
  Writes <- SomeWrites
  PartialCopy = FALSE
SPECIFICATION Spec
INVARIANTS BlocksOwned OpFits
PROPERTY FilesSpec
