SPECIFICATION Spec
CONSTANTS
  Accounts = {a1}
  PlanIds = {p1, p2}
  Requests = {r1}
  None = None
  MaxVersion = 1
INVARIANT
  SomePlanActive
CHECK_DEADLOCK FALSE
