SPECIFICATION SubscriptionsSpec
CONSTANTS
  f1 = f1  f2 = f2  r1 = r1  r2 = r2
  Users = {u1}
  Feeds <- MCFeeds
  Senders = {s1}
  Lists = {reads, feed}
  Reads = reads
  Slots <- MCSlots
  None = None
  MaxFeedsPerUser = 1
  PageSize = 1
  MaxRequests = 4
  MaxFaults = 0
SYMMETRY Symmetry
INVARIANT NoRouteComesBack
CHECK_DEADLOCK FALSE
