\* A tick is longer than either retention period.
CONSTANTS
  Users = {u1, u2}
  FeedItems = {f1, f2}
  Pages = {g1}
  Ingest = ingest
  Ids = {1, 2}
  BatchSize = 1
  FeedRetention = 0
  OrphanRetention = 0
  MaxTime = 2
  MaxRequests = 3
  MaxFaults = 1
SPECIFICATION Spec
INVARIANT TypeOK
PROPERTIES MarksFollowReaders SavedStays CleanupCatchesUp
CHECK_DEADLOCK FALSE
