SPECIFICATION Spec
CONSTANTS
  r1 = r1  r2 = r2  w1 = w1  w2 = w2  x = x  y = y
  Readers <- TwoReaders
  Writers <- TwoWriters
  Bytes <- TwoBytes
  NoByte = NoByte
  PIPESIZE = 2
  UMOD = 4
  MaxN = 3
  Killable <- TwoReaders
  None = None
INVARIANTS
  SleepersHaveReason
  FreedOnce
PROPERTIES
  FifoSpec
SYMMETRY EndSymmetry
CHECK_DEADLOCK FALSE
