CONSTANTS
  Processes = {p1, p2}
  MaxAttempts = 2
  MaxCrashes = 0
  None = None
SPECIFICATION Spec
CHECK_DEADLOCK FALSE
INVARIANT
  NoLostUpdates
