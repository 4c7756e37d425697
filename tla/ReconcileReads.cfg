SPECIFICATION Spec
CONSTANTS
  Managers <- KindTable
  Subjects <- RuntimeSubjects
  Codes = {}
  MaxMade = 1
  Budget <- OneDrift
  MaxTogether = 1
PROPERTIES
  ReadOneObserves
CHECK_DEADLOCK FALSE
