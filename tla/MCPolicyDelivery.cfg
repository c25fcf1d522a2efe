SPECIFICATION FairTurnSpec
CONSTANTS
  Systems = {"Linux", "Windows", "Darwin"}
  MaxOrders = 3
  MaxFaults = 2
  Domains = {"evil", "garbled", "builtin"}
  Builtin = {"builtin"}
  Garbled = {"garbled"}
  MaxEdits = 3
INVARIANTS ServerStaysReachable ReportIsTrue PinsAreOrdered
PROPERTIES PinsFollow LevelIsObeyed
CHECK_DEADLOCK FALSE
