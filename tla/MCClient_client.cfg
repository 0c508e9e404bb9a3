SPECIFICATION FairSpec
CONSTANTS
  Fd = {4, 5}
  Me = 4
  Key <- MCKey
  Real <- MCReal
  Length <- MCLength
  Tree <- MCTree
  Options <- MCOptions
  MaxOptions = 4
  Others <- MCOthers
  MaxOthers = 1
  MaxItems = 1
  MaxSpace = 2
  NULL = NULL
INVARIANTS ParsedAsWritten NothingLost LimitShared
PROPERTIES EveryRunEnds
CHECK_DEADLOCK FALSE
