CONSTANTS
  Clients = {c1, c2}
  Workers = {w1}
  MaxRetries = 1
  Faults = {}
  MaxCrashes = 0
  None = None
  Torn = Torn
SPECIFICATION Spec
CHECK_DEADLOCK FALSE
INVARIANT
  SameSessionIsSerialized
