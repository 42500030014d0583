SPECIFICATION Spec
CONSTANTS
  Packages = {a, b}
  KnownBad = {}
  MaxRev = 3
  Cap = 1
  MaxFaults = 0
  ResumeCap = 2
  NoSnapshot = none
PROPERTY ResumeKept
