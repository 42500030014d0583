SPECIFICATION Spec
CONSTANTS
  Processes = {watcher}
  Versions = {v1, v2, v3}
  Torn = torn
  NoVersion = none
  MaxTicks = 10
  MaxCrashes = 2
INVARIANTS
  TypeOK
  SlimNeverStale
PROPERTY ActsAsRegister
CHECK_DEADLOCK FALSE
