\* Approvals that expire and push each other out, wrong ones, a restart and the flag.
SPECIFICATION Spec
CONSTANTS
  Conns = {c1, c2}
  Hashes = {h1, h2}
  Nobody = Nobody
  MAX_PENDING = 1
  Ttl = 0
  FAILURE_WINDOW = 0
  FAILURE_LIMIT = 1
  MaxTime = 1
  MaxNonces = 3
  MaxFailed = 1
  MaxRestarts = 1
  MaxToggles = 1
SYMMETRY Interchangeable
CONSTRAINT FewChallenges
INVARIANTS
  TypeOK
  RunsAreApproved
PROPERTIES
  ChallengeSurvives
CHECK_DEADLOCK FALSE
