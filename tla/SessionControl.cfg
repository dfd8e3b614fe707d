SPECIFICATION Spec
CONSTANTS
  c1 = c1
  c2 = c2
  c3 = c3
  k1 = k1
  k2 = k2
  small = small
  large = large
  NoClient = NoClient
  Clients <- ThreeClients
  Closers <- NoCloser
  Sizes <- TwoSizes
  QueueSize = 9
  QueueBytes = 20
  TextBytes = 1
  ChunkBytes = 2
  ReplayMax = 2
  OutCap = 1
  InCap = 1
  MaxChunks = 0
  MaxTakes = 1
  MaxWrites = 1
  MaxDrains = 0
  ChildExits = FALSE
  EchoChild = FALSE
  AttachErrors = FALSE
  CloseErrors = FALSE
SYMMETRY Symmetry
INVARIANTS
  OneController
  GateHeld
PROPERTIES
  ImplementsControl
CHECK_DEADLOCK FALSE
