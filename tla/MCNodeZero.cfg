SPECIFICATION Spec
CONSTANTS
  me = me
  peer = peer
  other = other
  nobody = nobody
  Raised = Raised
  Addr = {me, peer}
  NoBuilder = nobody
  VdfOutput <- MCVdfOutput
  SupplyCap = 16
  DecayNum = 1
  DecayDen = 2
  VdfIterations = 2
  AdjustInterval = 2
  MinSeconds = 2
  FactorNum = 5
  FactorDen = 2
  SkewSeconds = 1
  BlockLimit = 3
  SealBytes = 1
  MempoolMaxBytes = 2
  Me = me
  InitChain <- MCInitChain
  Txs <- ForkTxs
  PeerBodies = {}
  PeerTails <- ZeroTails
  OwnDelays = {1}
  Faults = {"crash"}
  MaxReorg = 3
  MaxInbox = 1
  MaxHeight = 3
INVARIANTS
  RestartLosesNothing
CHECK_DEADLOCK FALSE
