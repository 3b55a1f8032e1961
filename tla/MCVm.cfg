CONSTANTS
  Procs = {1, 2}
  NPAGE = 22
  PER = 2
  PGSIZE = 2
  UINT = 32
  MaxSz = 6
  Brks <- SomeBrks
  Images <- SomeImages
  Lefts = {0, 1, 2, 3, 4, 5, 6, 7, 8, 9, 10, 11, 12}
SPECIFICATION Spec
INVARIANTS PagesOwned MappedToSize CopyExact
PROPERTY FailureUndone
VIEW UpToRenaming
