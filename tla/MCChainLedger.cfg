SPECIFICATION Spec
CONSTANTS
  a = a
  b = b
  Raised = Raised
  Addr <- MCAddr
  Txs <- MCTxs
  SupplyCap = 12
  DecayNum = 1
  DecayDen = 2
  MaxBlocks = 5
  MaxBlockTxs = 2
INVARIANTS
  TypeOK
  Conservation
  SupplyCapped
  NonceHistory
  ReplayAgrees
  RewardsShown
CHECK_DEADLOCK FALSE
