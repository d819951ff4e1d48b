\* Nothing fails and nothing changes on the host: two saves and a rescan are enough.
SPECIFICATION Spec
CONSTANTS
  Targets = {"t", "u"}
  Automatic = {"t", "u"}
  Narrow = {"t"}
  MaxScans = 3
  MaxSaves = 2
  MaxChanges = 0
  MaxFaults = 0
INVARIANT ExclusionsSurviveRescans
CHECK_DEADLOCK FALSE
