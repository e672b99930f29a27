SPECIFICATION FairSpec
CONSTANTS
  Accounts = {a1}
  PlanIds = {p1, p2}
  Requests = {r1, r2}
  None = None
  MaxVersion = 1
INVARIANTS
  TypeOK
  LockMatchesPc
  IndexNeverRefuses
PROPERTIES
  ImplementsPlanBook
  LastPlanKept
  RequestsEnd
CHECK_DEADLOCK FALSE
