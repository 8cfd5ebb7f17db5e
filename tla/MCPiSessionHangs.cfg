CONSTANTS
  Stubborn = TRUE
  MaxCalls = 1
  MaxChunks = 1
  MaxCommits = 1
SPECIFICATION FairSpec
PROPERTIES
  SessionReturns
CHECK_DEADLOCK FALSE
