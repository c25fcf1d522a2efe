SPECIFICATION Spec
CONSTANTS
  Kinds <- MCKinds
  MaxThings = 3
  MaxEvents = 1
  MaxChanges = 4
  MaxFaults = 1
INVARIANTS EveryArrivalReported NothingReplayed 
CHECK_DEADLOCK FALSE
