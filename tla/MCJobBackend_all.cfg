SPECIFICATION FairSpec
CONSTANTS
  Jobs <- MCJobs
  Windy <- MCWindy
  WindLimits <- MCWindLimits
  Blank = Blank
  Workers = {w1, w2}
  Nobody = Nobody
  Unknown = Unknown
  MaxSubmits = 2
  MaxFaults = 2
  MaxStops = 1
INVARIANTS
  Ownership
  StartedAtMostOnce
  AnswerFitsState
  FirstComeFirstServed
PROPERTIES
  StopIsGraceful
  ImplementsLifecycle
  EveryJobDecided
