SPECIFICATION ReferenceSpec
CONSTANTS
  Managers <- KindTable
  Referrers <- ReferrerTable
  Subjects <- ReferenceSubjects
  MaxMade = 4
  Budget <- ReferenceBudget
  MaxTogether = 1
PROPERTIES
  StaysValid
  ReferencesKept
  LeftOnlyUnresolved
  FollowsTarget
  TargetsGo
CHECK_DEADLOCK FALSE
