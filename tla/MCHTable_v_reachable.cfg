SPECIFICATION Spec
CONSTANTS
  w1 = w1
  w2 = w2
  k1 = k1
  k2 = k2
  k3 = k3
  Worker = {w1, w2}
  Fd = {4}
  Key = {k1, k2}
  BucketsCount = 2
  Hash <- OneList
  Size = {1, 2}
  Visits = {0}
  MaxItems = 2
  MaxSpace = 2
  Policy = "segmented-fifo"
  Addr = {a1, a2, a3, a4}
  NodeAddr = {n1}
  NULL = NULL
  WILD = WILD
  Word = 16
  Api <- BothStructural
  MaxCalls = 4
INVARIANTS EveryFileReachable
SYMMETRY Symmetry
