\* Our address changes.
CONSTANTS
  Worlds = {"peers"}
  Addrs = {"p1"}
  Subnet <- Subnets
  OwnFirst = "me"
  OwnLater = "me2"
  Pingers = {1, 2}
  MaxPeers = 2
  MaxPerSubnet = 2
  Kinds = {"inferred_wallet"}
  AsksHttp = TRUE
  MaxPings = 2
  MaxHeard = 1
  MaxRestarts = 1
  ChunkSends = {"blk"}
  MessageOf <- OneEach
  ChunksOf <- OneOfTwo
  Workers = {w1, w2}
  MaxChunkTotal = 2
  MaxForgets = 0
  MaxAge = 2
  RecvTimeout = 1
  Rounds = 2
  Busy = FALSE
  Prompt = TRUE
  ChunkLosses = 2
  MaxDups = 0
  Blocks = {b1}
  Relays = {q1, q2, q3}
  Threads = 2
  Cost = 4
  Burst = 20
  PruneAge = 24
  Gap = 0
  Sizes = {2}
  Nodes <- ThreeNodes
  Mesh <- FullMesh
  AtFirst <- Newcomer
  MinPeersForStem = 2
  HopsMin = 2
  HopsMax = 3
  TxLosses = 2
  MaxReorgs = 0
  Contents = {"g", "x", "a", "b", "c", "d", "L"}
  Heavy = {"L"}
  FetchChunk = 2
  MaxHeavy = 1
  SyncRetries = 1
  MsgIds = {1, 2, 3}
  LocalChain <- Ours
  PeerChains <- Theirs
  MessageLosses = 2
  MaxDelays = 1
SPECIFICATION WorldSpec
PROPERTY EveryPongUpdates
CHECK_DEADLOCK FALSE
