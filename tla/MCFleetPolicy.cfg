SPECIFICATION FleetSpec
CONSTANTS
  Threads = {t1, t2}
  Plans = {"individual", "team", "enterprise"}
  PlanLimit <- MCPlanLimit
  GroupPlans = {"team", "enterprise"}
  Caps = {0, 1}
  MaxRequests = 5
SYMMETRY MCSymmetry
INVARIANTS MembershipIsReal GroupPolicyIsOwn
PROPERTIES WithinPlan OldestPolicyRules
CHECK_DEADLOCK FALSE
