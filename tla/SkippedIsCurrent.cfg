SPECIFICATION Spec
CONSTANTS
  Callers = {c}
  MaxRev = 2
  CommitTime <- MCHonestTime
  Skew = 0
  Ceiling = 1
  Budget = 2
  MaxFaults = 0
  NoHint = none
PROPERTY SkippedIsCurrent
