SPECIFICATION Spec
CONSTANTS
  Worker = {w1}
  NumWorkers = 1
  Client = {c1, c2}
  NULL = NULL
  MaxMessages = 3
INVARIANTS RequestNotLost
