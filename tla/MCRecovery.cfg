SPECIFICATION Spec
CONSTANTS
  Orphans = FALSE
  MaxAttempts = 2
  MaxRecovers = 1
  MaxTroubles = 1
  MaxCommits = 2
INVARIANT TypeOK
PROPERTIES
  ApprovedIsClaimed
  AdoptedIsReviewed
  AutoNeverOverrides
CHECK_DEADLOCK FALSE
