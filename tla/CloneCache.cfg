SPECIFICATION FairSpec
CONSTANTS
  Callers = {c, d}
  MaxRev = 3
  CommitTime <- MCCommitTime
  Skew = 1
  Ceiling = 1
  Budget = 1
  MaxFaults = 1
  NoHint = none
INVARIANTS
  TypeOK
  AcceptedWithinBudget
  MissedForAReason
  DirectoryKept
  StraysOverBudget
PROPERTY CacheHeals
