CONSTANTS
  Installers = {u1}
  Skills = {s1, s2}
  NoSkill = NoSkill
  Scrap = Scrap
SPECIFICATION SkillSpec
CHECK_DEADLOCK FALSE
PROPERTIES
  FailedSwapsAreUndone
