SPECIFICATION Spec
CONSTANTS
  g1 = g1
  Grants = {g1}
  Customers = {"fragment"}
  MaxRuns = 2
  MaxEdits = 1
  MaxFaults = 1
PROPERTIES
  TakesNothingOver
CHECK_DEADLOCK FALSE
