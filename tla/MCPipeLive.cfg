SPECIFICATION FairSpec
CONSTANTS
  r1 = r1  r2 = r2  w1 = w1  w2 = w2  x = x  y = y
  Readers <- OneReader
  Writers <- OneWriter
  Bytes <- OneByte
  NoByte = NoByte
  PIPESIZE = 2
  UMOD = 4
  MaxN = 3
  Killable <- Nobody
  None = None
PROPERTIES
  ReadersSeeEOF
  WritersSeeClose
CHECK_DEADLOCK FALSE
