\* A crash in the middle of a rollback.
SPECIFICATION Spec
CONSTANTS
  file = file
  patch = patch
  create = create
  command = command
  Proposals = {file}
  Kind <- MCKind
  Base <- MCBase
  HashOrder <- MCHashOrder
  Nobody = Nobody
  Keep = 1
  SameSecond = FALSE
  MaxSecond = 0
  MaxOps = 2
  MaxEdits = 0
  MaxCrashes = 1
  MaxFaults = 0
INVARIANT
  CutShortIsReported
CHECK_DEADLOCK FALSE
