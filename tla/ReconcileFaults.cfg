SPECIFICATION FairSpec
CONSTANTS
  Managers <- KindTable
  Subjects <- FaultSubjects
  Codes = {"ValidationException", "ThrottlingException"}
  MaxMade = 3
  Budget <- FaultBudget
  MaxTogether = 2
INVARIANTS
  TypeOK
  AtMostOneLive
  NamedOnce
  NoCallInTransition
  NothingLeftBehind
  SyncedMeansApplied
  SyncedMeansSettled
PROPERTIES
  NeverForgotten
  LifecycleSpec
  DeletionCompletes
  EventuallyApplied
CHECK_DEADLOCK FALSE
