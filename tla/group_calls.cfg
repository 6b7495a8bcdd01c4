SPECIFICATION FairGroupSpec
CONSTANTS
  Variants = {"gloo", "mlp", "moe"}
  Rounds = 2
INVARIANTS
  ResultBacked
  OutcomeExplained
PROPERTIES
  CallReturns
CHECK_DEADLOCK FALSE
