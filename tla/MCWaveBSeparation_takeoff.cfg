SPECIFICATION Spec
CONSTANTS
  Boards <- MCBoards
  MinSeparation = 3
  TimeWindow = 1
  SampleDt = 2
  Margin = 2
  MinCap = 8
  Packs <- MCPacks
  Gap = 3
INVARIANTS
  TakeoffsConnect
CHECK_DEADLOCK FALSE
