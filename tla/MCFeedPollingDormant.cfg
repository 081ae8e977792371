SPECIFICATION Spec
CONSTANTS
  f1 = f1
  p1 = p1
  p2 = p2
  None = None
  Feeds <- OneFeed
  Polls <- OnePoll
  Guids = {"g1"}
  QueueSize = 1
  WorkerCount = 1
  BatchSize = 1
  ErrorLimit = 2
  Broken = {}
  Flaky = FALSE
  LeaseOutlivesPoll = TRUE
  TierUpdates = 1
  MaxEnables = 0
  MaxFaults = 0
PROPERTY DormantIsQuiet
CHECK_DEADLOCK FALSE
