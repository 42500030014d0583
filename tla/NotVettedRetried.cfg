SPECIFICATION Spec
CONSTANTS
  Packages = {a, b}
  KnownBad = {}
  MaxRev = 2
  Cap = 0
  MaxFaults = 0
  ResumeCap = 2
  NoSnapshot = none
INVARIANT NotVettedRetried
