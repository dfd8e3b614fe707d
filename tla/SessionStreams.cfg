SPECIFICATION Spec
CONSTANTS
  c1 = c1
  c2 = c2
  c3 = c3
  k1 = k1
  k2 = k2
  small = small
  large = large
  NoClient = NoClient
  Clients <- TwoClients
  Closers <- OneCloser
  Sizes <- OneSize
  QueueSize = 5
  QueueBytes = 8
  TextBytes = 1
  ChunkBytes = 2
  ReplayMax = 2
  OutCap = 1
  InCap = 1
  MaxChunks = 3
  MaxTakes = 0
  MaxWrites = 0
  MaxDrains = 2
  ChildExits = TRUE
  EchoChild = FALSE
  AttachErrors = TRUE
  CloseErrors = TRUE
CONSTRAINT InScene
SYMMETRY Symmetry
INVARIANTS
  TypeOK
  AttachmentSummary
  NoGap
  ReplayMeetsLive
  ExitReachesKeptClients
CHECK_DEADLOCK FALSE
