CONSTANTS
  a = a
  b = b
  sh1 = sh1
  sh2 = sh2
  Loop = Loop
  Tasks = {a, b}
  Shells = {sh1, sh2}
  MaxCommands = 3
  MaxTroubles = 1
  MaxRisks = 1
  MaxCrashes = 0
SPECIFICATION Spec
SYMMETRY Symmetry
PROPERTIES
  RevokedPlanNotStarted
CHECK_DEADLOCK FALSE
