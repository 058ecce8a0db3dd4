SPECIFICATION Spec
CONSTANTS
  Raised = Raised
  Addr = {}
  Txs = {}
  NoBuilder = nobody
  VdfOutput <- MCVdfOutput
  SupplyCap = 0
  DecayNum = 1
  DecayDen = 2
  VdfIterations = 10
  AdjustInterval = 3
  MinSeconds = 3
  FactorNum = 3
  FactorDen = 2
  SkewSeconds = 1
  BlockLimit = 0
  SealBytes = 0
  Paces = {1, 2, 3, 4}
  MaxLength = 8
INVARIANTS
  RateIsWindowHistory
CHECK_DEADLOCK FALSE
