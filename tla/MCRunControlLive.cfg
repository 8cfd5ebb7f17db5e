CONSTANTS
  a = a
  b = b
  sh1 = sh1
  sh2 = sh2
  Loop = Loop
  Tasks = {a}
  Shells = {sh1, sh2}
  MaxCommands = 2
  MaxTroubles = 1
  MaxRisks = 1
  MaxCrashes = 1
SPECIFICATION FairSpec
PROPERTIES
  CommandsEnd
CHECK_DEADLOCK FALSE
