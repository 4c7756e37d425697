SPECIFICATION FairSpec
CONSTANTS
  Callers = {w1, w2, w3}
  Owners <- TwoRoles
  Nobody = Nobody
  MaxCalls = 4
INVARIANTS
  TypeOK
  MapIsGuarded
  RightManager
  FewManagers
PROPERTIES
  Returns
  CacheSpec
CHECK_DEADLOCK FALSE
