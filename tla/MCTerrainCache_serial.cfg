SPECIFICATION Spec
CONSTANTS
  Acquirers = {p1, p2}
  Inodes = {i1, i2, i3}
  None = None
  LastChunk = 3
  Serial = TRUE
  MaxCalls = 4
  MaxFaults = 3
SYMMETRY Symmetry
INVARIANTS
  CacheIsWhole
  HandedIsWhole
CHECK_DEADLOCK FALSE
