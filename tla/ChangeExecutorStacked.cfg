\* Three tasks stacked on one file, with pruning and a crash: rollback and progress.
SPECIFICATION FairSpec
CONSTANTS
  file = file
  patch = patch
  create = create
  command = command
  Proposals = {file, patch, create}
  Kind <- MCKind
  Base <- MCBase
  HashOrder <- MCHashOrder
  Nobody = Nobody
  Keep = 1
  SameSecond = FALSE
  MaxSecond = 0
  MaxOps = 3
  MaxEdits = 1
  MaxCrashes = 1
  MaxFaults = 0
INVARIANTS
  RollbackExact
  SnapshotKept
PROPERTIES
  ForeignEditsSurvive
  AppliedStays
  TaskEnds
CHECK_DEADLOCK FALSE
