SPECIFICATION Spec
CONSTANTS
  Acquirers = {p1, p2}
  Inodes = {i1, i2, i3}
  None = None
  LastChunk = 2
  Serial = FALSE
  MaxCalls = 2
  MaxFaults = 0
INVARIANTS
  HandedIsWhole
CHECK_DEADLOCK FALSE
