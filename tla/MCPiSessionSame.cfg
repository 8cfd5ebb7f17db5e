CONSTANTS
  Stubborn = FALSE
  MaxCalls = 2
  MaxChunks = 1
  MaxCommits = 1
SPECIFICATION FairSpec
INVARIANTS
  SameSession
CHECK_DEADLOCK FALSE
