SPECIFICATION Spec
CONSTANTS
  Models <- MCModels
  Cameras <- MCCameras
  Edges <- MCEdges
  Stated <- MCModels
  Flies <- MCModels
  Lens <- MCLens
  Spectra <- MCSpectra
  SurveyTypes = {"RGB"}
  Translated = {}
  AnySpectrum = "any"
  Scenarios <- MCScenarios
  ModelMarks <- MCModelMarks
  CameraMarks <- MCCameraMarks
  MaxCalls = 5
  Durations = {0, 1, 3}
  Results <- MCResults
  Uavs <- MCUavs
  Heights <- MCHeights
  Spacing = 1
  VSurvey = 2
  VMin = 1
  VClimb = 2
  VDescent = 4
  LinesAt <- MCLinesAt
  RisksFound = {{}, {"low", "close"}, {"crossing"}}
  FlightTimes = {1, 2, 3}
  FlightLimit = 2
  AttemptsMax = 2
  Patiences = {0, 1, 2}
  Points = {"a", "b"}
  Spellings = {"Type", "type", "TYPE"}
  NoText = NoText
  Files <- MCFiles
  FormTypes = {"RGB", "IR"}
  Broken = Broken
  MaxPads = 2
  MaxPicks = 3
  MaxBoards = 2
  MaxCount = 2
  Sorties <- MCSorties
  Area <- MCArea
  MinCell = 2
  Crosses <- MCCrosses
  Outline <- MCOutline
  Metres <- MCMetres
  Terrain <- MCTerrain
  NoHeight = NoHeight
  Agl = 3
INVARIANTS
  PicksKept
  RouteGoesAround
  SurveyReadAlike
  CallsFitTheDeadline
  CardsDisclosed
  CandidateIsValid
  BestIsReported
CHECK_DEADLOCK FALSE
