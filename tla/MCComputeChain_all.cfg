SPECIFICATION FairSpec
CONSTANTS
  Jobs = {j1, j2}
  Workers = {w1, w2}
  Free = Free
  Limit = 1
  Slack = 1
  Buffer = 1
  Grace = 1
  ClientTimeout <- MCClientTimeout
  StartMax = 1
  MaxBreaks = 1
INVARIANTS SlotExclusive TruthfulAnswer StoppedBeforeReported
PROPERTIES PatientLeavesNothing EveryCallAnswered SlotFreed
CHECK_DEADLOCK FALSE
