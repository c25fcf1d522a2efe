SPECIFICATION FairSpec
CONSTANTS
  Hosts = {a,b}
  Threads = {t1,t2}
  MaxEdits = 2
  MaxToggles = 2
  MaxFaults = 1
INVARIANTS RulesRemembered OwnLinesSurvive
PROPERTIES ListIsEnforced
CHECK_DEADLOCK FALSE
