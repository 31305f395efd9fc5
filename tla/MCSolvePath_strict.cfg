SPECIFICATION FairSpec
CONSTANTS
  Models <- MCModels
  Cameras <- MCCameras
  Edges <- MCEdges
  Stated <- MCStated
  Flies <- MCFlies
  Lens <- MCLens
  Spectra <- MCSpectra
  SurveyTypes = {"RGB", "thermal"}
  Translated <- MCTranslated
  AnySpectrum = "any"
  SwathCount <- MCSwathCount
  StepTimes <- MCStepTimes
  Requests <- MCRequests
  ClientBuffer = 2
  DefaultLimit = 6
INVARIANTS
  StrictRefusalIsTrue
CHECK_DEADLOCK FALSE
