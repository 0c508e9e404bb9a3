SPECIFICATION FairSpec
CONSTANTS
  w1 = w1
  w2 = w2
  k1 = k1
  k2 = k2
  k3 = k3
  Worker = {w1, w2}
  Fd = {4, 5}
  Key = {k1, k2}
  BucketsCount = 2
  Hash <- OneList
  Size = {3}
  Visits = {0}
  MaxItems = 2
  MaxSpace = 2
  Policy = "segmented-fifo"
  Addr = {a1, a2}
  NodeAddr = {n1}
  NULL = NULL
  WILD = WILD
  Word = 16
  Api <- OneStructural
  MaxCalls = 4
INVARIANTS ListsWellFormed SubscribersBehindLock NoCircularWait GuardsReleased NeverCrashes
PROPERTIES LockStaysWithOwner ImplementsStore CallsFinish
