SPECIFICATION FairSpec
CONSTANTS
  f1 = f1
  p1 = p1
  p2 = p2
  None = None
  Feeds <- OneFeed
  Polls <- TwoPolls
  Guids = {"g1", "g2"}
  QueueSize = 1
  WorkerCount = 2
  BatchSize = 1
  ErrorLimit = 2
  Broken = {}
  Flaky = TRUE
  LeaseOutlivesPoll = TRUE
  TierUpdates = 0
  MaxEnables = 1
  MaxFaults = 1
INVARIANTS ExclusivePolling ErrorsAreCounted
PROPERTY EveryItemStored
CHECK_DEADLOCK FALSE
