SPECIFICATION FairSpec
CONSTANTS
  Managers <- KindTable
  Subjects <- RenameSubjects
  Codes = {}
  MaxMade = 1
  Budget <- OneEdit
  MaxTogether = 1
PROPERTIES
  UpdatesEnd
CHECK_DEADLOCK FALSE
