SPECIFICATION FairSpec
CONSTANTS
  p1 = p1  p2 = p2  p3 = p3
  Procs <- Procs2
  NUM = 6
  IDXMOD = 6
  None = None
PROPERTIES
  RequestsFinish
