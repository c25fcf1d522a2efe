SPECIFICATION Spec
CONSTANTS
  Files = {f}
  MaxTaken = 3
  MaxDrops = 3
  MaxAsked = 2
  MaxFaults = 1
INVARIANTS StoreMatchesManifest MirrorTellsTruth
CHECK_DEADLOCK FALSE
