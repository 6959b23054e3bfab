\* One gateway and two API instances; the list may change in every round.
SPECIFICATION FairSpec
CONSTANTS
  c1 = c1
  g1 = g1
  g2 = g2
  w1 = w1
  w2 = w2
  p1 = p1
  p2 = p2
  CostCenters = {c1}
  Gateways = {g1}
  Writers = {w1, w2}
  Processes = {p1, p2}
  ProcessOf <- TwoProcesses
  Rounds = 3
  Absent = Absent
  Damaged = Damaged
  MaxChanges = 3
  MaxFailures = 1
INVARIANTS
  TypeOK
  LastWriterSettles
  OverviewSettles
PROPERTIES
  EventuallyEnforced
