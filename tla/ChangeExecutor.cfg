\* Every kind of change, one repetition, every fault: two tasks over two seconds.
SPECIFICATION Spec
CONSTANTS
  file = file
  patch = patch
  create = create
  command = command
  Proposals = {file, patch, create, command}
  Kind <- MCKind
  Base <- MCBase
  HashOrder <- MCHashOrder
  Nobody = Nobody
  Keep = 1
  SameSecond = FALSE
  MaxSecond = 1
  MaxOps = 2
  MaxEdits = 1
  MaxCrashes = 1
  MaxFaults = 1
INVARIANTS
  TypeOK
  UndoneIsUndone
  OneTaskAtATime
  JournalNeverAhead
PROPERTIES
  WriteAheadJournal
  ImplementsLifecycle
CHECK_DEADLOCK FALSE
