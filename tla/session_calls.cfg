SPECIFICATION FairSpec
CONSTANTS
  None = None
  Callers = {"measurement", "diagnostic", "command"}
  LoadPairs = 3
  Cells <- ServerCells
  Measured = 1
INVARIANTS
  OneServer
  NothingLeft
  ResultEarned
  FirstErrorRaised
PROPERTIES
  CallEnds
CHECK_DEADLOCK FALSE
