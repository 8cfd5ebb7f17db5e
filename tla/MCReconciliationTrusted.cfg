SPECIFICATION Spec
CONSTANTS
  MaxAttempts = 2
  MaxBatches = 2
  MaxCrashes = 1
  MaxAge = 1
  MaxHands = 1
VIEW View
INVARIANTS
  CompletedStaysTrusted
CHECK_DEADLOCK FALSE
