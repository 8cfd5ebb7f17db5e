SPECIFICATION Spec
CONSTANTS
  Orphans = FALSE
  MaxAttempts = 1
  MaxRecovers = 1
  MaxTroubles = 0
  MaxCommits = 2
PROPERTY AdoptionStands
CHECK_DEADLOCK FALSE
