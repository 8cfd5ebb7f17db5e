CONSTANTS
  Stubborn = FALSE
  MaxCalls = 2
  MaxChunks = 2
  MaxCommits = 1
SPECIFICATION FairSpec
INVARIANTS
  TypeOK
PROPERTIES
  ImplementsCall
  ImplementsUnderstood
  SessionReturns
CHECK_DEADLOCK FALSE
