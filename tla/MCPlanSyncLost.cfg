SPECIFICATION Spec
CONSTANTS
  Tabs = {t1}
  MaxEdits = 2
  None = None
INVARIANT
  NoLostUpdate
CHECK_DEADLOCK FALSE
