SPECIFICATION Spec
CONSTANTS
  me = me
  peer = peer
  other = other
  nobody = nobody
  Raised = Raised
  Addr = {me, peer}
  NoBuilder = nobody
  VdfOutput <- MCVdfOutput
  SupplyCap = 16
  DecayNum = 1
  DecayDen = 2
  VdfIterations = 2
  AdjustInterval = 2
  MinSeconds = 2
  FactorNum = 5
  FactorDen = 2
  SkewSeconds = 1
  BlockLimit = 3
  SealBytes = 1
  MempoolMaxBytes = 2
  Me = me
  InitChain <- MCInitChain
  Txs <- ForkTxs
  PeerBodies <- StaleBodies
  PeerTails <- StaleTails
  OwnDelays = {1}
  Faults = {"crash"}
  MaxReorg = 1
  MaxInbox = 1
  MaxHeight = 4
INVARIANTS
  NothingConfirmedPends
CHECK_DEADLOCK FALSE
