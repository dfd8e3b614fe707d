SPECIFICATION FairSpec
CONSTANTS
  c1 = c1
  c2 = c2
  c3 = c3
  k1 = k1
  k2 = k2
  small = small
  large = large
  NoClient = NoClient
  Clients <- TwoClients
  Closers <- NoCloser
  Sizes <- OneSize
  QueueSize = 3
  QueueBytes = 20
  TextBytes = 1
  ChunkBytes = 2
  ReplayMax = 2
  OutCap = 1
  InCap = 1
  MaxChunks = 2
  MaxTakes = 0
  MaxWrites = 2
  MaxDrains = 0
  ChildExits = FALSE
  EchoChild = TRUE
  AttachErrors = FALSE
  CloseErrors = FALSE
PROPERTIES
  ReaderReturns
CHECK_DEADLOCK FALSE
