SPECIFICATION Spec
CONSTANTS
  Tabs = {t1, t2}
  MaxEdits = 2
  None = None
SYMMETRY TabsAlike
INVARIANTS
  PatientUsersLoseNothing
PROPERTIES
  InOrder
CHECK_DEADLOCK FALSE
