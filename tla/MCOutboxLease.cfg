SPECIFICATION Spec
CONSTANTS
  e1 = e1
  e2 = e2
  w1 = w1
  w2 = w2
  u1 = u1
  u2 = u2
  NoEntry = NoEntry
  Entries <- TwoEntries
  Users <- TwoUsers
  Recipients <- RecipientsOfTwo
  EmptyPages = {e2}
  Workers = {w1, w2}
  MaxRetries = 2
  BatchSize = 2
  QueueSize = 2
  BulkLimit = 2
  FlakyService = TRUE
  LeaseOutlivesDelivery = TRUE
  MaxFaults = 2
INVARIANT ExclusiveClaim
PROPERTY KeepsContract
