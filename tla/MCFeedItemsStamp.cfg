SPECIFICATION Spec
CONSTANTS
  i1 = i1
  i2 = i2
  u1 = u1
  None = None
  Items <- OneItem
  Users = {u1}
  Eligible <- EligibleOfOne
  MaxRetries = 1
  MaxDeliveries = 1
  BatchSize = 1
  Flaky = FALSE
  MaxDiscoveries = 1
  MaxFaults = 0
INVARIANT DeliveredIsStamped
