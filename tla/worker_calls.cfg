SPECIFICATION FairSpec
CONSTANTS
  MaxCalls = 2
  MaxParentKills = 1
INVARIANTS
  NoOverlap
  VerdictEarned
PROPERTIES
  CallEnds
CHECK_DEADLOCK FALSE
