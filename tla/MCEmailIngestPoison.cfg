\* One instance, no faults: three emails, of which the content service refuses
\* those without HTML, until the breaker opens.
SPECIFICATION Spec
CONSTANTS
  Users = {reader}
  reader = reader
  LocalParts = {part, other}
  part = part
  other = other
  Rows <- ThreeIds
  Entries <- ThreeIds
  Kinds = {"html", "text"}
  Instances = {one}
  one = one
  Asks = {first, second}
  first = first
  second = second
  HasKey = TRUE
  WorkerCount = 1
  MaxDraws = 2
  MaxAttempts = 2
  MaxRetries = 2
  Trip = 2
  MaxFaults = 0
INVARIANT GoodMailIsNotGivenUp
