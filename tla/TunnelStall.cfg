SPECIFICATION FairSpec
CONSTANTS
  t1 = t1
  w1 = w1
  r1 = r1
  deletion = deletion
  signOut = signOut
  loss = loss
  stall = stall
  busy = busy
  Deletion = deletion
  SignOut = signOut
  Loss = loss
  Stall = stall
  Busy = busy
  NoTunnel = NoTunnel
  Terminals <- OneTerminal
  Watches <- OneWatch
  Requests <- OneRequest
  Loads <- TheTerminal
  MaxStarts = 1
  MaxTunnels = 2
  Limit = 1
  InboxCap = 1
  MaxInputs = 0
  MaxOutputs = 0
PROPERTIES
  StalledTabBlocksNoTunnel
CHECK_DEADLOCK FALSE
