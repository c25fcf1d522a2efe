SPECIFICATION FairSpec
CONSTANTS
  Kinds = {"task", "isolate"}
  MaxActions = 2
  MaxRequests = 3
  MaxFaults = 1
INVARIANTS ExecutedAsRecorded
PROPERTIES TasksSettle IsolationFollows ImplementsLedger
CHECK_DEADLOCK FALSE
