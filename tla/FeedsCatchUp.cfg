SPECIFICATION FairSpec
CONSTANTS
  Watcher = w
  Operators = {}
  Seed = seed
  Corpus = corpus
  Watchlist = list
  Ioc = ioc
  Channels = {ioc}
  Feeds = {f, g}
  Nothing = none
  MaxRelease = 2
  Elsewhere = {}
  VersionOf <- MCVersionOf
  Inventory <- MCInventory
  MaxFaults = 0
PROPERTY FeedsCatchUp
CHECK_DEADLOCK FALSE
