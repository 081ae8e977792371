SPECIFICATION Spec
CONSTANTS
  Fields <- TwoFields
  MaxWrites = 2
  MaxFailures = 2
PROPERTY QueuedWriteIsSent
