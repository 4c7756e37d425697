SPECIFICATION FairSpec
CONSTANTS
  UserKeys = {"team", "stage"}
  ControllerKeys = {"services.k8s.aws/controller-version"}
  AwsKeys = {"aws:cloudformation:stack-name"}
  Budget <- TagBudget
  MaxTogether = 3
INVARIANTS
  AwsTagsLeftAlone
  SyncedTagsAreThere
PROPERTIES
  SpecHoldsUserTags
  TagsSettle
  TagCallsEnd
CHECK_DEADLOCK FALSE
