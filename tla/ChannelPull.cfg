SPECIFICATION FairSpec
CONSTANTS
  Watcher = w
  Operators = {o}
  Seed = seed
  Corpus = corpus
  Watchlist = list
  Ioc = ioc
  Channels = {seed, ioc}
  Feeds = {f}
  Nothing = none
  MaxRelease = 2
  Elsewhere = {3}
  VersionOf <- MCVersionOf
  Inventory <- MCInventory
  MaxFaults = 1
INVARIANTS TypeOK RecordsHonest
PROPERTIES NeverOlder CatchesUp
CHECK_DEADLOCK FALSE
