\* One phone, two calls at a time, one replacement of the keys, one fault.
SPECIFICATION Spec
CONSTANTS
  Services = {content}
  content = content
  users = users
  Own = users
  MaxKey = 1
  Apps = {phone}
  phone = phone
  CallsOf <- CallIds
  Tokens <- TokenIds
  Requests <- RequestIds
  MaxCalls = 2
  MaxFaults = 1
INVARIANTS SessionAlive FamiliesAreSound LogoutSticks
PROPERTIES CallsEnd KeysSettle
\* The bounds run out: nothing is left to do.
CHECK_DEADLOCK FALSE
