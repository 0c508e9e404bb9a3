SPECIFICATION Spec
CONSTANTS
  Fd = {4, 5}
  Me = 4
  Key <- MCKey
  Real <- MCReal
  Length <- MCLength
  Tree <- MCTree
  Options <- MCOptions
  MaxOptions = 2
  Others <- MCOthers
  MaxOthers = 1
  MaxItems = 1
  MaxSpace = 2
  NULL = NULL
INVARIANTS WithinLimit
CHECK_DEADLOCK FALSE
