CONSTANTS
  Stubborn = FALSE
  MaxCalls = 2
  MaxChunks = 1
  MaxCommits = 1
SPECIFICATION FairSpec
INVARIANTS
  ProbeRetriable
CHECK_DEADLOCK FALSE
