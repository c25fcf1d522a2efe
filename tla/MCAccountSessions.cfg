SPECIFICATION Spec
CONSTANTS
  Threads = {t1, t2}
  MaxSessions = 3
  MaxTokens = 2
  MaxFaults = 1
SYMMETRY Symmetry
INVARIANTS OldSessionsWereOvertaken SecretsServeOnce DisabledStayOut InvitationHolds AccountIsWhole
CHECK_DEADLOCK FALSE
