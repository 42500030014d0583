SPECIFICATION Spec
CONSTANTS
  Campaigns = {c1, c2, c3, c4}
  None = none
  MaxActive = 2
  TTL = 2
  MaxNow = 4
  MaxCrashes = 1
INVARIANT CapHolds
