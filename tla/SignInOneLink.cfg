SPECIFICATION Spec
CONSTANTS
  Requests = {r1, r2}
  k1 = k1
  k2 = k2
  d1 = d1
  d2 = d2
  d3 = d3
  Keys = {k1, k2}
  Counting = {k1}
  Devices = {d1, d3}
  keyOf <- MCkeyOf
  CODES = 1
  MaxLinks = 1
  MaxPrintings = 0
  MaxChallenges = 2
  MaxSignatures = 1
  MaxSessions = 2
  MaxFaults = 0
  MaxCrashes = 0
CHECK_DEADLOCK FALSE
INVARIANT LinksGiveOneKey
