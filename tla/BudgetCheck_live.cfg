\* One budget that is set, checked and removed, with a task that stops, a sync that fails and
\* a lease that runs out, under the fairness of the check loop.
SPECIFICATION FairSpec
CONSTANTS
  None = None
  Tasks = {t1, t2}
  Processes = {t1, t2}
  ProcessOf <- TwoProcesses
  Amounts = {1}
  Spent = 100
  MaxSaves = 1
  MaxStops = 1
  MaxFailures = 1
  MaxExpiries = 1
PROPERTIES
  EventuallyEnforced
  EventuallyAnnounced
  OrphansGo
