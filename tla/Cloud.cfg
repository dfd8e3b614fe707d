SPECIFICATION PartsSpec
CONSTANTS
  t1 = t1
  w1 = w1
  r1 = r1
  deletion = deletion
  signOut = signOut
  loss = loss
  stall = stall
  busy = busy
  Deletion = deletion
  SignOut = signOut
  Loss = loss
  Stall = stall
  Busy = busy
  NoTunnel = NoTunnel
  Terminals <- OneTerminal
  Watches <- OneWatch
  Requests <- OneRequest
  Loads <- EachAlone
  p1 = p1
  p2 = p2
  NoPassword = NoPassword
  Passwords <- TwoPasswords
  MaxAsks = 4
  MaxAges = 2
  MaxStarts = 2
  MaxTunnels = 2
  Limit = 1
  InboxCap = 1
  MaxInputs = 1
  MaxOutputs = 1
INVARIANTS
  TunnelTypeOK
  RouteIsServed
  OfflineAtRest
  SlotsAreHeld
  AccountTypeOK
  LiveCodeIsLatest
  CodesWorkOnce
PROPERTIES
  ReplacementKeepsRoute
  RelaysEndWithTunnel
  StreamsEndWithTunnel
  DisconnectEnds
CHECK_DEADLOCK FALSE
