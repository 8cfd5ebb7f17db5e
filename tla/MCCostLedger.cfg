SPECIFICATION Spec
CONSTANTS
  PiCalls = {p1, p2}
  ReviewCalls = {}
  StageReviewCalls = {}
  PlanCall = plan
  ProbeId = probe
  MaxPi = 1
  MaxCodex = 1
  Limit = 8
  None = none
CHECK_DEADLOCK FALSE
INVARIANTS TypeOK WithinBudget WorstCaseCovers SpentIsAccounted LiveCallIsReserved SpawnVetoesRelease
PROPERTIES ImplementsBudget
SYMMETRY Symmetry
