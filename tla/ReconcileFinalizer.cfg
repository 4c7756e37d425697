SPECIFICATION Spec
CONSTANTS
  Managers <- KindTable
  Subjects <- FinalizerSubjects
  Codes = {}
  MaxMade = 1
  Budget <- NoFaults
  MaxTogether = 0
PROPERTIES
  FinalizerUntilGone
CHECK_DEADLOCK FALSE
