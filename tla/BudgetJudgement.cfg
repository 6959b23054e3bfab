\* Amounts of 1 and 2 dollars, warnings at half and at all of it.
SPECIFICATION Spec
CONSTANTS
  None = None
  Amounts = {1, 2}
  Thresholds = {50, 100}
  Spends = {0, 50, 100, 200}
  MaxEdits = 4
  MaxMonths = 2
INVARIANTS
  BlockIsEarned
  CrossedWasAnnounced
  NoticesTellState

  
