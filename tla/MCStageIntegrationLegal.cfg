CONSTANTS
  t1 = t1
  t2 = t2
  None = None
  Tasks = {t1, t2}
  Skipped = {}
  MaxBatches = 2
  MaxMoves = 1
SPECIFICATION Spec
INVARIANTS ConvergesLegally
CHECK_DEADLOCK FALSE
