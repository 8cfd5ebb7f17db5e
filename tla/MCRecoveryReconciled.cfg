SPECIFICATION Spec
CONSTANTS
  Orphans = FALSE
  MaxAttempts = 1
  MaxRecovers = 1
  MaxTroubles = 1
  MaxCommits = 2
INVARIANT InterruptedEnds
CHECK_DEADLOCK FALSE
