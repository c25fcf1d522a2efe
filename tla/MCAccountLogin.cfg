SPECIFICATION Spec
CONSTANTS
  Threads = {t1, t2}
  MaxAttempts = 3
  MaxSecrets = 2
SYMMETRY Symmetry
INVARIANTS FailuresLock EnforcedIsConfirmed
PROPERTIES GrantsAreEntitled
CHECK_DEADLOCK FALSE
