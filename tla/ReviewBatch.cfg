SPECIFICATION FairSpec
CONSTANTS
  Packages = {a, b, c}
  Nobody = nobody
  Depths = {1, 2, 3}
  PoolSizes = {1, 2}
  Ceilings <- MCCeilings
  MaxDeps = 2
  MaxFailures = 1
INVARIANTS
  TypeOK
  NothingMissedAtDepth
  ClosureExamined
  FewRepeats
PROPERTY EveryReviewEnds
