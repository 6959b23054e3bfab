\* One event with an in-app target, which fills a chunk, and a mail target.
SPECIFICATION FairSpec
CONSTANTS
  bell = bell
  mail = mail
  w1 = w1
  w2 = w2
  Targets = {bell, mail}
  InApp = {bell}
  Workers = {w1, w2}
  Chunk = 2
  MaxAttempts = 2
  MaxRequeues = 1
  MaxStops = 1
  MaxEdits = 1
INVARIANTS
  TypeOK
  CompletedReachesAll
  ConfirmedIsInInbox
PROPERTIES
  KeepsFanoutLedger
  ReplayPreserves
  EventuallySettled
\* An event that is settled and retried often enough leaves nothing to do.
CHECK_DEADLOCK FALSE
