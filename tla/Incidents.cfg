SPECIFICATION FairSpec
CONSTANTS
  Keys = {1, 2}
  Collectors = {"fast", "slow"}
  source <- MCsource
  GRACE = 1
  COOLDOWN = 1
  MaxTime = 1
  MaxChanges = 3
  MaxManual = 1
  MaxFaults = 1
CHECK_DEADLOCK FALSE
INVARIANTS
  IncidentsHold
  MessagesHold
PROPERTY AlertsHeard
