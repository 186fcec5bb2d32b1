CONSTANTS
  p1 = p1
  p2 = p2
  p3 = p3
  u1 = u1
  u2 = u2
  x = x
  y = y
  name = name
  s1 = s1
  s2 = s2
  Procs = {p1, p2, p3}
  Nobody = Nobody
  MaxChrome = 2
  Modes = {"headless", "headed"}
  Loaders = {p1, p2, p3}
  Exts = {x, y}
  Names = {name}
  NameOf <- MCNameOf
  MaxBuild = 1
  NoExt = NoExt
  Torn = Torn
  Updaters = {u1, u2}
  Versions = {1, 2, 3}
  Sound = {1, 2}
  MaxHistory = 3
  Kickers = {p1, p2, p3}
  NoKicker = NoKicker
  Intervals = {1, 2}
  MaxTime = 3
  SessionIds = {x, y}
  WorkspaceIds = {y}
  MaxTotalBytes = 4
  Sizes = {1, 2, 3}
  MaxEntries = 3
  Installers = {u1, u2}
  Skills = {s1, s2}
  NoSkill = NoSkill
  Scrap = Scrap
SPECIFICATION Spec
SYMMETRY Symmetry
CHECK_DEADLOCK FALSE
INVARIANTS
  SideTypeOK
  HoldersAreExclusive
  
  HistoryIsTrue
  SkillIsKept
PROPERTIES
  RecordsChangeOnPurpose
  KicksAreSpaced
  
