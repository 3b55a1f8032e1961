SPECIFICATION Spec
CONSTANTS
  p1 = p1  p2 = p2  p3 = p3
  Procs <- Procs3
  NUM = 7
  IDXMOD = 7
  None = None
INVARIANTS
  DescriptorsPartitioned
  DeviceOwnsBuffer
  AllocatorsNotified
SYMMETRY ProcSymmetry
