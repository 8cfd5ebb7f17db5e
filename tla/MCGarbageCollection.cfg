SPECIFICATION Spec
CONSTANTS
  MaxAttempts = 2
  MaxBatches = 1
  MaxHands = 1
  Tries = 2
PROPERTIES
  NoCommitLost
  PaidWorkKept
CHECK_DEADLOCK FALSE
