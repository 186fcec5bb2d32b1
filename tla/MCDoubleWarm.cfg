CONSTANTS
  s1 = s1
  s2 = s2
  s3 = s3
  s4 = s4
  o1 = o1
  o2 = o2
  o3 = o3
  None = None
  Commands = {c1, c2}
  Keepers = {}
  Sessions = {s1, s2, s3, s4}
  Suspects = {}
  Requests <- OneOriginEach
  MaxCopies = 3
  MaxEntries = 2
  HardCloseThreshold = 1
SPECIFICATION Spec
SYMMETRY Symmetry
VIEW MCView
INVARIANT
  NoSameKeyDoubleWarm
