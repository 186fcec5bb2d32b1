CONSTANTS
  Clients = {c1, c2}
  Workers = {w1, w2}
  MaxRetries = 1
  Faults = {"start", "timeout", "idle"}
  MaxCrashes = 0
  None = None
  Torn = Torn
SPECIFICATION FairSpec
CHECK_DEADLOCK FALSE
PROPERTIES
  CommandsEnd
  WorkersRetire
