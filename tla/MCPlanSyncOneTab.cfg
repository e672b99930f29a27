SPECIFICATION FairSpec
CONSTANTS
  Tabs = {t1}
  MaxEdits = 3
  None = None
INVARIANT
  SavedMeansStored
PROPERTIES
  EditsSettle
  SaverSettles
CHECK_DEADLOCK FALSE
