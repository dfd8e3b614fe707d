SPECIFICATION PartsSpec
CONSTANTS
  s1 = s1
  s2 = s2
  b1 = b1
  b2 = b2
  NoRoot = NoRoot
  Nobody = Nobody
  Subscribers <- TwoSubscribers
  QueueSize = 1
  MaxRoots = 2
  MaxChanges = 2
  Browsers <- TwoBrowsers
  Scenarios <- Scenes
  MaxVersions = 4
INVARIANTS
  WatchTypeOK
  OpenRootIsKnown
  FeedIsServed
  NoSilentGap
  FilesTypeOK
  NoSaveIsLost
  CacheIsTold
PROPERTIES
  ClosedRootsGo
  SubscribeReturns
  ImplementsFeed
CHECK_DEADLOCK FALSE
