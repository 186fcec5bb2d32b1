CONSTANTS
  Ids = {d, s}
  Default = d
  NoId = NoId
  Commands = {c1, c2}
  MaxPid = 3
  MaxClock = 2
  MaxOps = 3
  MaxEvents = 1
  SweepCap = 1
SPECIFICATION Spec
SYMMETRY Symmetry
CHECK_DEADLOCK FALSE
INVARIANTS
  TypeOK

  
  
