CONSTANTS
  c1 = c1
  c2 = c2
  Enders = {c1, c2}
  Commands = {c1, c2}
  Clients = {c1, c2}
  MaxAttempts = 3
SPECIFICATION Spec
CHECK_DEADLOCK FALSE
INVARIANTS
  CommandsTypeOK
  CaptureReportsAreTrue
  
  LintIsSound
  LanesKeepSessionsApart
PROPERTIES
  RecordersAnswer
  EndedCommandsAreQuiet
