SPECIFICATION Spec
CONSTANTS
  N <- SmallN
  Deps <- SmallDeps
  Plans <- OnePlan
  None = None
  Digests = {d1, d2}
  HardKill = TRUE
  MaxKills = 2
  MaxFaults = 0
  MaxForces = 2
  MaxDamages = 0
  MaxAttempts = 9
SYMMETRY DigestSymmetry
CONSTRAINT SharedBudget
INVARIANTS
  FingerprintsCurrent
  RefusalExplained
PROPERTIES
  ImplementsLedger
\* After MaxAttempts attempts of a stage nobody resumes any more.
CHECK_DEADLOCK FALSE
