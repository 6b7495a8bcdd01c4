SPECIFICATION Spec
CONSTANTS
  N <- GovernedN
  Deps <- StageDeps
  Plans <- GovernedPlans
  None = None
  Digests = {d1}
  HardKill = FALSE
  MaxKills = 1
  MaxFaults = 0
  MaxForces = 1
  MaxDamages = 0
  MaxAttempts = 9
INVARIANTS
  ReadersFollowSources
