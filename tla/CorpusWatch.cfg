SPECIFICATION FairSpec
CONSTANTS
  Packages = {a, b}
  KnownBad = {b}
  MaxRev = 2
  Cap = 1
  MaxFaults = 1
  ResumeCap = 1
  NoSnapshot = none
INVARIANTS
  TypeOK
  SnapshotCovered
  AlertsNotDropped
PROPERTY CatchesUp
