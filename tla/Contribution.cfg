SPECIFICATION Restarted
CONSTANTS
  Specs <- MeterAndPump
  Requests <- OneRequest
  For <- ForPump
  Thresholds <- OneThreshold
  EscalateAfter = 0
  MaxPulls = 2
  MaxRestarts = 0
PROPERTIES
  PullRequestsNoticed
CHECK_DEADLOCK FALSE
