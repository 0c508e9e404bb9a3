SPECIFICATION FairSpec
CONSTANTS
  Worker = {w1, w2}
  NumWorkers = 2
  Client = {c1, c2}
  NULL = NULL
  MaxMessages = 3
INVARIANTS TypeOK NoLostWakeup RequestsAccounted
PROPERTIES ShutdownDrains RequestsHandled ShutdownCompletes
