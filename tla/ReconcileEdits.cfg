SPECIFICATION FairSpec
CONSTANTS
  Managers <- KindTable
  Subjects <- EditSubjects
  Codes = {"ValidationException", "ThrottlingException"}
  MaxMade = 3
  Budget <- EditBudget
  MaxTogether = 2
PROPERTIES
  EventuallyApplied
  UpdatesEnd
CHECK_DEADLOCK FALSE
