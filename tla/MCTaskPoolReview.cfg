CONSTANTS
  a = a
  b = b
  c = c
  pa = pa
  pb = pb
  ps = ps
  Tasks = {a, b}
  Paths = {pa, pb, ps}
  Deps <- DepsOf
  Est <- EstOf
  Diffs <- DiffsOf
  Clash = {}
  LowRisk = {}
  MaxParallel = 2
  MaxRework = 1
  MaxAttempts <- AttemptsOf
  MaxCrashes = 0
SPECIFICATION Spec
INVARIANTS
  RetriedReviewResumes
CHECK_DEADLOCK FALSE
