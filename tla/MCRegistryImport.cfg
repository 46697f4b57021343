SPECIFICATION Spec
CONSTANTS
  None = None
  m1 = m1
  m2 = m2
  Processes = {p1, p2}
  Mappings = {m1, m2}
  Configs <- MCConfigs
  MaxLaunches = 3
  MaxCommands = 2
SYMMETRY MCSymmetry
INVARIANTS DecisionsStand StartsFromRegistry AdoptsOnlyItsOwn
CHECK_DEADLOCK FALSE
