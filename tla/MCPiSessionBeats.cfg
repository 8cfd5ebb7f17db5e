CONSTANTS
  Stubborn = FALSE
  MaxCalls = 1
  MaxChunks = 1
  MaxCommits = 1
SPECIFICATION FairSpec
INVARIANTS
  HeartbeatCleared
CHECK_DEADLOCK FALSE
