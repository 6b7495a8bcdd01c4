SPECIFICATION Spec
CONSTANTS
  MaxStarts = 2
  MaxFaults = 4
  None = None
INVARIANTS
  PaidOnce
  AnswerBacked
PROPERTIES
  AnswerStands
  ImplementsOneShot
CHECK_DEADLOCK FALSE
