SPECIFICATION Spec
CONSTANTS
  Processes = {watcher, review}
  Versions = {v1, v2}
  Torn = torn
  NoVersion = none
  MaxTicks = 8
  MaxCrashes = 0
INVARIANT SlimNeverStale
CHECK_DEADLOCK FALSE
