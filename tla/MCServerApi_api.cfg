SPECIFICATION FairSpec
CONSTANTS
  c1 = c1
  c2 = c2
  Client = {c1, c2}
  Worker = {w1}
  Fd = {4, 5}
  Key = {11, 12}
  Api <- Mixed
  MaxItems = 1
  MaxSpace = 1
  HasDir = {c1}
  Timed = {c1}
  MaxCalls = 3
  NULL = NULL
INVARIANTS InStep ResultsAreTrue EvictedFilesSaved OpenLockKept
PROPERTIES EveryCallReturns
CHECK_DEADLOCK FALSE
