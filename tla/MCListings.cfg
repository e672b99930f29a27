SPECIFICATION Spec
CONSTANTS
  a = a
  b = b
  a1 = a1
  a2 = a2
  b1 = b1
  Subjects <- MCSubjects
  Crns <- MCCrns
  SubjectOf <- MCSubjectOf
  Weight <- MCWeight
  MaxWeight = 5
  None = None
  MaxRuns = 3
  MaxReplays = 1
INVARIANTS
  TypeOK
  LiveIsLastWritten
  TagTellsTruth
PROPERTIES
  ReplayKeepsLiveSet
  NoSubjectEmptied
CHECK_DEADLOCK FALSE
