\* Two accounts, two requests at a time, five in all, one fault.
SPECIFICATION Spec
CONSTANTS
  Ids <- UserIds
  Codes <- CodeIds
  Emails = {home, office}
  home = home
  office = office
  Passwords = {old, new}
  old = old
  new = new
  Devices = {phone}
  phone = phone
  Slots = {one, two}
  one = one
  two = two
  LockoutThreshold = 2
  MaxRequests = 5
  MaxFaults = 1
INVARIANTS AccountsAreWhole GuessesAreBounded UpgradedOnce
PROPERTIES RequestsEnd
\* The bounds run out: nothing is left to do.
CHECK_DEADLOCK FALSE
