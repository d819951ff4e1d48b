SPECIFICATION FairSpec
CONSTANTS
  Approvals = {a1}
  MaxCalls = 2
  MaxTime = 3
  MaxFaults = 1
  MaxRestarts = 1
  SKEW_MS = 1
  Timestamps = {1}
CHECK_DEADLOCK FALSE
INVARIANTS
  TypeOK
  AcceptedOnce
  ReportsAreTrue
PROPERTY JobsEnd
