SPECIFICATION FairSpec
CONSTANTS
  Threads = {t1, t2, t3, t4}
  Watched = {t1}
  Workers = {w1, w2, w3}
  NoWorker = none
  PoolSize = 2
  MaxRequests = 2
  MaxLeaks = 1
INVARIANTS
  TypeOK
  Exclusive
  NoLostCapacity
  BoundedChildren
  NoOrphan
  NoStrandedWaiter
PROPERTY EveryRequestEnds
