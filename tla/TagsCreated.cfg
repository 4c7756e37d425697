SPECIFICATION FairSpec
CONSTANTS
  UserKeys = {"team"}
  ControllerKeys = {"services.k8s.aws/controller-version"}
  AwsKeys = {"aws:cloudformation:stack-name"}
  Budget <- TagBudget
  MaxTogether = 0
INVARIANT SpecHoldsNoAwsTags
CHECK_DEADLOCK FALSE
