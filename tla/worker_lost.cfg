SPECIFICATION Spec
CONSTANTS
  MaxCalls = 1
  MaxParentKills = 0
INVARIANTS
  NoResultMeansNone
CHECK_DEADLOCK FALSE
