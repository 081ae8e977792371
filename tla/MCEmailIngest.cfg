\* Two instances, one email, two faults; as many rows of the outbox as it can
\* get, processed again after each fault.
SPECIFICATION Spec
CONSTANTS
  Users = {reader}
  reader = reader
  LocalParts = {part, other}
  part = part
  other = other
  Rows <- OneId
  Entries <- ThreeIds
  Kinds = {"html", "text"}
  Instances = {one, two}
  one = one
  two = two
  Asks = {first, second}
  first = first
  second = second
  HasKey = TRUE
  WorkerCount = 1
  MaxDraws = 2
  MaxAttempts = 2
  MaxRetries = 2
  Trip = 2
  MaxFaults = 2
INVARIANTS AddressIsKept RepeatsCostFaults ReportsAreTrue GivenUpAfterFailures
PROPERTY EverythingSettles
