SPECIFICATION Spec
CONSTANTS
  w1 = w1
  w2 = w2
  k1 = k1
  k2 = k2
  k3 = k3
  Worker = {w1, w2}
  Fd = {4}
  Key = {k1, k2, k3}
  BucketsCount = 2
  Hash <- TwoLists
  Size = {0, 3}
  Visits = {0, 1}
  MaxItems = 2
  MaxSpace = 2
  Policy = "fifo"
  Addr = {a1, a2, a3}
  NodeAddr = {n1, n2, n3, n4}
  NULL = NULL
  WILD = WILD
  Word = 16
  Api <- OneVisitor
  MaxCalls = 4
INVARIANTS VisitorHoldsItsMutex VisitsBounded FirstVictimFound
SYMMETRY Symmetry
CHECK_DEADLOCK FALSE
