SPECIFICATION Spec
CONSTANTS
  r1 = r1
  s1 = s1
  s2 = s2
  v1 = v1
  v2 = v2
  Processes <- Commands
  Job <- JobOf
  Versions = {x, y}
  Projections = {a, b}
  None = None
  MaxKills = 1
  MaxEdits = 1
SYMMETRY Symmetry
INVARIANTS
  SecondFollowsFirst
  ClaimBacked
PROPERTIES
  EvidenceStands
\* When every command has ended there is nothing left to do.
CHECK_DEADLOCK FALSE
