SPECIFICATION Spec
CONSTANTS
  r1 = r1  r2 = r2  w1 = w1  w2 = w2  x = x  y = y
  Readers <- OneReader
  Writers <- TwoWriters
  Bytes <- OneByte
  NoByte = NoByte
  PIPESIZE = 2
  UMOD = 4
  MaxN = 3
  Killable <- OneWriter
  None = None
INVARIANTS
  SleepersHaveReason
CHECK_DEADLOCK FALSE
