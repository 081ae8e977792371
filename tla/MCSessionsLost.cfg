SPECIFICATION Spec
CONSTANTS
  Services = {content}
  content = content
  users = users
  Own = users
  MaxKey = 1
  Apps = {phone}
  phone = phone
  CallsOf <- CallIds
  Tokens <- TokenIds
  Requests <- RequestIds
  MaxCalls = 2
  MaxFaults = 1
CHECK_DEADLOCK FALSE
INVARIANT LostAnswerKeepsSession
