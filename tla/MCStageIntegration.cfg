CONSTANTS
  t1 = t1
  t2 = t2
  None = None
  Tasks = {t1, t2}
  Skipped = {t1}
  MaxBatches = 3
  MaxMoves = 1
SPECIFICATION Spec
INVARIANTS
  TypeOK
  CompletedIsReviewed
  OneMerge
  NoHalfState
  SkippedTasksAreReviewed
PROPERTIES
  NoReviewOfLandedWork
CHECK_DEADLOCK FALSE
