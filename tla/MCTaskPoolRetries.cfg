CONSTANTS
  a = a
  b = b
  c = c
  pa = pa
  pb = pb
  ps = ps
  Tasks = {b}
  Paths = {pa, pb, ps}
  Deps <- DepsOf
  Est <- EstOf
  Diffs <- DiffsOf
  Clash <- ClashOf
  LowRisk = {}
  MaxParallel = 2
  MaxRework = 0
  MaxAttempts <- AttemptsOf
  MaxCrashes = 2
SPECIFICATION Spec
INVARIANTS
  AttemptsLimited
CHECK_DEADLOCK FALSE
