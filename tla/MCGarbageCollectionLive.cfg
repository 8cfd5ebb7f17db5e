SPECIFICATION Spec
CONSTANTS
  MaxAttempts = 2
  MaxBatches = 2
  MaxHands = 2
  Tries = 2
PROPERTIES
  LiveBatchKept
CHECK_DEADLOCK FALSE
