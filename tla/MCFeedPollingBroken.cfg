SPECIFICATION FairSpec
CONSTANTS
  f1 = f1
  p1 = p1
  p2 = p2
  None = None
  Feeds <- OneFeed
  Polls <- TwoPolls
  Guids = {"g1"}
  QueueSize = 1
  WorkerCount = 2
  BatchSize = 1
  ErrorLimit = 2
  Broken <- OneFeed
  Flaky = TRUE
  LeaseOutlivesPoll = FALSE
  TierUpdates = 1
  MaxEnables = 1
  MaxFaults = 2
PROPERTY BrokenFeedsRetire
CHECK_DEADLOCK FALSE
