SPECIFICATION FairSpec
CONSTANTS
  MaxDevices = 2
  MaxVersion = 2
  MaxLives = 2
  MaxFaults = 1
INVARIANTS NoRollback
PROPERTIES KillsSurface ImplementsWatch
CHECK_DEADLOCK FALSE
