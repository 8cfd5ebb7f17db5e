CONSTANTS
  a = a
  b = b
  c = c
  pa = pa
  pb = pb
  ps = ps
  Tasks = {a, b, c}
  Paths = {pa, pb, ps}
  Deps <- DepsOf
  Est <- EstOf
  Diffs <- DiffsOf
  Clash <- ClashOf
  LowRisk = {b, c}
  MaxParallel = 2
  MaxRework = 1
  MaxAttempts <- AttemptsOf
  MaxCrashes = 1
SPECIFICATION Spec
INVARIANTS
  TypeOK
  WritersExclusive
  AcceptedDisjoint
  AcceptedIsReviewed
  LocksAccounted
  RetryBounded
  NoHalfState
CHECK_DEADLOCK FALSE
