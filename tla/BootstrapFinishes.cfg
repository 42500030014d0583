SPECIFICATION FairSpec
CONSTANTS
  Packages = {a, b, c}
  KnownBad = {}
  MaxRev = 1
  Cap = 1
  MaxFaults = 0
  ResumeCap = 1
  NoSnapshot = none
PROPERTY BootstrapFinishes
