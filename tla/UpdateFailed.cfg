SPECIFICATION Spec
CONSTANTS
  Faults = {"registry"}
  MaxFaults = 1
  MaxUnits = 1
INVARIANT FailedUpdateRestores
CHECK_DEADLOCK FALSE
