CONSTANTS
  Processes = {p1, p2, p3}
  MaxAttempts = 2
  MaxCrashes = 1
  None = None
SPECIFICATION Spec
SYMMETRY Symmetry
CHECK_DEADLOCK FALSE
INVARIANTS
  TypeOK
  OneWriter
  IdsAreUnique
  ConflictsAreCommits
