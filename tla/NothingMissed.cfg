SPECIFICATION Spec
CONSTANTS
  Packages = {a, b, c, d}
  Nobody = nobody
  Depths = {2}
  PoolSizes = {1}
  Ceilings <- MCCeilings
  MaxDeps = 1
  MaxFailures = 0
INVARIANT NothingMissed
