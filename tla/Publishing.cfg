\* One publication, plain or governed.
SPECIFICATION FairSpec
CONSTANTS
  g1 = g1
  Grants = {g1}
  Customers = {"backend", "api"}
  MaxRuns = 3
  MaxEdits = 2
  MaxFaults = 2
INVARIANTS
  TypeOK
  FailClosed
  NeverWider
  EvidenceKept
  PublishedKeys
PROPERTIES
  TakesNothingOver
  
CHECK_DEADLOCK FALSE
