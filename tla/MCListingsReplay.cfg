SPECIFICATION Spec
CONSTANTS
  a = a
  b = b
  a1 = a1
  a2 = a2
  b1 = b1
  Subjects <- MCSubjects
  Crns <- MCCrns
  SubjectOf <- MCSubjectOf
  Weight <- MCWeight
  MaxWeight = 5
  None = None
  MaxRuns = 2
  MaxReplays = 1
INVARIANT
  ReplayEndsOnNewest
CHECK_DEADLOCK FALSE
