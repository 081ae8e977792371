SPECIFICATION Spec
CONSTANTS
  e1 = e1
  e2 = e2
  w1 = w1
  w2 = w2
  u1 = u1
  u2 = u2
  NoEntry = NoEntry
  Entries <- OneEntry
  Users <- TwoUsers
  Recipients <- RecipientsOfOne
  EmptyPages = {}
  Workers = {w1, w2}
  MaxRetries = 2
  BatchSize = 1
  QueueSize = 2
  BulkLimit = 2
  FlakyService = FALSE
  LeaseOutlivesDelivery = FALSE
  MaxFaults = 0
INVARIANT OneDelivererAtATime
