SPECIFICATION FairSpec
CONSTANTS
  Variants = {"measurement", "diagnostic"}
  Hosts = {h1, h2}
  MaxStarts = 2
  MaxFaults = 2
  None = None
INVARIANTS
  PaidOnce
  ReceiptsBacked
PROPERTIES
  AnswerStands
  ImplementsOneShot
  CallsEnd
CHECK_DEADLOCK FALSE
