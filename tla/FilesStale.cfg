SPECIFICATION FilesSpec
CONSTANTS
  b1 = b1
  b2 = b2
  Nobody = Nobody
  Browsers <- OneBrowser
  Scenarios <- LiveScene
  MaxVersions = 3
INVARIANTS
  QuietCacheIsCurrent
CHECK_DEADLOCK FALSE
