CONSTANTS
  Pod = {online, offline, elsewhere}
  IsOnline = {online, elsewhere}
  OnNode = {online, offline}
  MBStep = 40
  L3WaysStep = 2
  L3MaxStep = 40
  Reports <- MCReports
  UserSpecs <- MCUserSpecs
  Nil = Nil
  MaxEdits = 2
  MaxChanges = 3
SPECIFICATION DynamicSpec

PROPERTIES NoEditLost ThrottlesToFloor AgentLearnsPods
CHECK_DEADLOCK FALSE
