SPECIFICATION Spec
CONSTANTS
  MaxAttempts = 2
  MaxBatches = 2
  MaxCrashes = 1
  MaxAge = 1
  MaxHands = 1
VIEW View
INVARIANTS
  TypeOK
  CompletedHasLanded
PROPERTIES
  LiveAttemptKept
  ApplyNeverBlocks
CHECK_DEADLOCK FALSE
