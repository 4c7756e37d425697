SPECIFICATION FairSpec
CONSTANTS
  Names = {1, 2, 3}
  Lists <- TheLists
  Strangers <- TheStrangers
  MaxIds = 6
  Budget <- StrategyBudget
  MaxTogether = 2
INVARIANTS
  DifferenceMeansPlan
PROPERTIES
  WantedStrategiesKept
  StrategiesSettle
  UpdatesEnd
CHECK_DEADLOCK FALSE
