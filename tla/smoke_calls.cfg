SPECIFICATION Spec
CONSTANTS
  Hosts = {h1, h2}
  None = None
  MaxStarts = 2
  MaxFaults = 3
SYMMETRY HostSymmetry
INVARIANTS
  PaidOnce
PROPERTIES
  AnswerStands
  ImplementsOneShot
CHECK_DEADLOCK FALSE
