SPECIFICATION FairSpec
CONSTANTS
  N <- SmallN
  Deps <- SmallDeps
  Plans <- SmallPlans
  None = None
  Digests = {d1}
  HardKill = FALSE
  MaxKills = 1
  MaxFaults = 1
  MaxForces = 1
  MaxDamages = 1
  MaxAttempts = 9
INVARIANTS
  EvidenceIntact
  FailureEvidence
  ReturnedRunComplete
PROPERTIES
  UnforcedKeepsResults
  EventuallyComplete
