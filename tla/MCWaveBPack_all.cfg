SPECIFICATION FairSpec
CONSTANTS
  LastPoint = 2
  MaxSwaths = 3
  MCEndurances = {3, 4}
  MCGaps = {1}
  Points <- MCPoints
  Distance <- MCDistance
  Pads <- MCPads
  PadAt <- MCPadAt
  Boards <- MCBoards
INVARIANTS
  EnduranceHolds
  EverySwathOnce
  RefusalIsJustified
  OnlyRecoveryJumps
PROPERTIES
  Terminates
CHECK_DEADLOCK FALSE
