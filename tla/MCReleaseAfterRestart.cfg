SPECIFICATION FairSpec
CONSTANTS
  Systems = {"Linux"}
  MaxOrders = 2
  MaxFaults = 1
PROPERTIES ReleaseReverts
CHECK_DEADLOCK FALSE
