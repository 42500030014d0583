SPECIFICATION FairSpec
CONSTANTS
  MaxRows = 2
  Limit = 1
  MaxAttempts = 2
  MaxCrashes = 1
  MaxChanges = 1
INVARIANTS
  TypeOK
  DeliveredMeansReceived
  RoundsBounded
PROPERTY KeepsPromise
