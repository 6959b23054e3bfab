\* Two replicas and one delivery: every interleaving of claim, renewal, send, save,
\* expiry, crash and manual retry of one record, which always comes to an outcome.
SPECIFICATION FairSpec
CONSTANTS
  Deliveries = {d1}
  Workers = {w1, w2}
  MaxAttempts = 3
  Lease = 5
  SendTimeout = 2
  Backoff = 2
  MaxRequeues = 1
  MaxDeferrals = 1
INVARIANTS
  TypeOK
  HonestOutcome
  
  RetryBudget
PROPERTIES
  UncertaintyRetained
  
  KeepsLedger
  EventuallyClosed
\* Once every delivery is closed and retried often enough, nothing is left to do.
CHECK_DEADLOCK FALSE
