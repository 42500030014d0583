SPECIFICATION AlertSpec
CONSTANTS
  Campaigns = {c1, c2}
  Packages = {p, q}
  None = none
  MaxActive = 1
  TTL = 2
  MaxNow = 2
  MaxCrashes = 1
INVARIANTS
  TypeOK
  NamedOnce
  AlertTypeOK
  ReportedOnce
  OncePerArming
  RecordedIsReported
PROPERTY LiveKept
SYMMETRY Symmetry
