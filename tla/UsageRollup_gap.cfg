SPECIFICATION Spec
CONSTANTS
  r1 = r1
  r2 = r2
  Runners = {r1}
  FirstToday = 3
  LastDay = 6
  MonthDays = 2
  Slice = 2
  MaxBackfill = 5
  MaxCalls = 1
  MaxEvents = 0
  MaxFaults = 1
INVARIANTS
  NoDayMissed
CHECK_DEADLOCK FALSE
