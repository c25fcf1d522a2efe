SPECIFICATION FairSpec
CONSTANTS
  MaxBuffer = 3
  MaxBody = 2
  DiskFaults = TRUE
  Garbled = {4}
  MaxEvents = 4
  MaxFailures = 1
  MaxCrashes = 1
INVARIANTS ArrivalInOrder
PROPERTIES CrashLosesOnlyUnspooled EveryEventArrives BacklogDrains ImplementsLog
CHECK_DEADLOCK FALSE
