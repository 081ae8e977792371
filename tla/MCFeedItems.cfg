SPECIFICATION FairSpec
CONSTANTS
  i1 = i1
  i2 = i2
  u1 = u1
  None = None
  Items <- TwoItems
  Users = {u1}
  Eligible <- EligibleOfTwo
  MaxRetries = 1
  MaxDeliveries = 1
  BatchSize = 2
  Flaky = TRUE
  MaxDiscoveries = 2
  MaxFaults = 1
INVARIANTS
  CompletedHasRow
  DuplicatesCostFaults
  GivenUpAfterRetries
PROPERTIES EveryItemSettles EveryUserServed
