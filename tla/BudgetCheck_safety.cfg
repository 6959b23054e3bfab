\* Every way two tasks can check, save and remove one budget, with failures.
SPECIFICATION Spec
CONSTANTS
  None = None
  Tasks = {t1, t2}
  Processes = {t1, t2}
  ProcessOf <- TwoProcesses
  Amounts = {1}
  Spent = 100
  MaxSaves = 2
  MaxStops = 1
  MaxFailures = 1
  MaxExpiries = 1
SYMMETRY SymmetricTasks
INVARIANTS
  RemovalIsReal
PROPERTIES
  CleaningSpares
