SPECIFICATION Spec
CONSTANTS
  Orphans = TRUE
  MaxAttempts = 1
  MaxRecovers = 1
  MaxTroubles = 1
  MaxCommits = 2
PROPERTY ApprovedIsClaimed
CHECK_DEADLOCK FALSE
