SPECIFICATION Spec
CONSTANTS
  Requests = {r1, r2}
  k1 = k1
  k2 = k2
  d1 = d1
  d2 = d2
  d3 = d3
  Keys = {k1, k2}
  Counting = {k1}
  Devices = {d1, d2, d3}
  keyOf <- MCkeyOf
  CODES = 1
  MaxLinks = 1
  MaxPrintings = 2
  MaxChallenges = 3
  MaxSignatures = 2
  MaxSessions = 3
  MaxFaults = 1
  MaxCrashes = 1
SYMMETRY Symmetry
CHECK_DEADLOCK FALSE
INVARIANTS
  EndedStaysEnded
  NothingLost
  SessionsHold
