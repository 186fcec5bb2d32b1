CONSTANTS
  Clients = {c1, c2, c3}
  Workers = {w1}
  MaxRetries = 1
  Faults = {"start", "timeout", "crash", "idle", "sweep"}
  MaxCrashes = 1
  None = None
  Torn = Torn
SPECIFICATION Spec
SYMMETRY Symmetry
CHECK_DEADLOCK FALSE
INVARIANTS
  TypeOK
  
  AtMostOnce
  OutcomesAreTrue
  NoRequestIsAbandoned
