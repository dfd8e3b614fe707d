SPECIFICATION SceneSpec
CONSTANTS
  c1 = c1
  c2 = c2
  c3 = c3
  k1 = k1
  k2 = k2
  small = small
  large = large
  NoClient = NoClient
  Clients <- TwoClients
  Closers <- TwoClosers
  Sizes <- OneSize
  QueueSize = 4
  QueueBytes = 20
  TextBytes = 1
  ChunkBytes = 2
  ReplayMax = 2
  OutCap = 1
  InCap = 1
  MaxChunks = 1
  MaxTakes = 0
  MaxWrites = 1
  MaxDrains = 0
  ChildExits = TRUE
  EchoChild = FALSE
  AttachErrors = FALSE
  CloseErrors = FALSE
PROPERTIES
  ExitCompletes
  CloseReturns
  DetachReturns
CHECK_DEADLOCK FALSE
