SPECIFICATION Spec
CONSTANTS
  Pages = {t1}
  Drafts <- MCDrafts
  MAX_PENDING = 2
  MAX_AGE = 1
  MAX_LISTED = 2
  MAX_REJECTIONS = 3
  HISTORY = 2
  Limits <- MCLimits
INVARIANTS
  OfferedIffWaiting
  ResultsHold
PROPERTIES
  RefusedOnlyWhenFull
  PageCatchesUp
CHECK_DEADLOCK FALSE
