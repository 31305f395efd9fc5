SPECIFICATION FairSpec
CONSTANTS
  Jobs = {j1, j2}
  None = None
  MaxGenerations = 2
INVARIANTS
  ScreenIsCurrent
  ResultFitsStatus
  IndicatorsAreTrue
PROPERTIES
  DecidedIsShown
  ReplacedRunStops
CHECK_DEADLOCK FALSE
