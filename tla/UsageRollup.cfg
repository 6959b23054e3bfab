\* Two instances, three days to come, months of three days.
SPECIFICATION Spec
CONSTANTS
  r1 = r1
  r2 = r2
  Runners = {r1, r2}
  FirstToday = 2
  LastDay = 5
  MonthDays = 3
  Slice = 1
  MaxBackfill = 3
  MaxCalls = 2
  MaxEvents = 1
  MaxFaults = 2
INVARIANTS
  TypeOK
  NothingForgotten
PROPERTIES
  NeverLowered
SYMMETRY Symmetry
CHECK_DEADLOCK FALSE
