SPECIFICATION Spec
CONSTANTS
  Jobs = {j1, j2}
  Workers = {w1}
  Free = Free
  Limit = 1
  Slack = 1
  Buffer = 1
  Grace = 1
  ClientTimeout <- MCClientTimeout
  StartMax = 1
  MaxBreaks = 0
INVARIANTS OneInFlight
CHECK_DEADLOCK FALSE
