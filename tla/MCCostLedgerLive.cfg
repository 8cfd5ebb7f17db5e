SPECIFICATION FairSpec
CONSTANTS
  PiCalls = {p1}
  ReviewCalls = {r1}
  StageReviewCalls = {}
  PlanCall = plan
  ProbeId = probe
  MaxPi = 1
  MaxCodex = 1
  Limit = 6
  None = none
CHECK_DEADLOCK FALSE
PROPERTIES LeasedRowsSettle
