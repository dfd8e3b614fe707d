SPECIFICATION FairSpec
CONSTANTS
  t1 = t1
  w1 = w1
  r1 = r1
  deletion = deletion
  signOut = signOut
  loss = loss
  stall = stall
  busy = busy
  Deletion = deletion
  SignOut = signOut
  Loss = loss
  Stall = stall
  Busy = busy
  NoTunnel = NoTunnel
  Terminals <- OneTerminal
  Watches <- OneWatch
  Requests <- OneRequest
  Loads <- TheWatch
  MaxStarts = 1
  MaxTunnels = 1
  Limit = 1
  InboxCap = 1
  MaxInputs = 1
  MaxOutputs = 1
PROPERTIES
  FeedEndIsTold
CHECK_DEADLOCK FALSE
