SPECIFICATION Spec
CONSTANTS
  Packages = {a, b}
  KnownBad = {b}
  MaxRev = 2
  Cap = 1
  MaxFaults = 0
  ResumeCap = 2
  NoSnapshot = none
INVARIANT KnownBadPages
