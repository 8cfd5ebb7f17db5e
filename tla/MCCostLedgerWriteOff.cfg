SPECIFICATION Spec
CONSTANTS
  PiCalls = {p1}
  ReviewCalls = {}
  StageReviewCalls = {}
  PlanCall = plan
  ProbeId = probe
  MaxPi = 1
  MaxCodex = 1
  Limit = 8
  None = none
CHECK_DEADLOCK FALSE
INVARIANTS LiveCallNotWrittenOff
