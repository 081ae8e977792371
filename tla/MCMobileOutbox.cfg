SPECIFICATION FairSpec
CONSTANTS
  Fields <- TwoFields
  MaxWrites = 3
  MaxFailures = 3
INVARIANTS TypeOK ServerHasNewest
PROPERTIES InQueueOrder QueueDrains StoreConverges
