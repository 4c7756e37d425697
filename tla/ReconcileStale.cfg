SPECIFICATION Spec
CONSTANTS
  Managers <- KindTable
  Subjects <- StaleSubjects
  Codes = {}
  MaxMade = 1
  Budget <- StaleBudget
  MaxTogether = 3
INVARIANTS
  UpdatedIsWhatWasRead
CHECK_DEADLOCK FALSE
