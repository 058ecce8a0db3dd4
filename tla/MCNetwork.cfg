\* A block of two chunks with any delay, a loss, a duplicate, two rounds and
\* evictions; one source and its bucket; messages of 42 to 700 KB; a transaction
\* among three nodes with a loss and a reorganisation; a peer that changes its
\* branch, with losses and late answers.
CONSTANTS
  Worlds = {"chunks", "limit", "bulk", "gossip", "sync"}
  Addrs <- TwoAddrs
  Subnet <- Subnets
  OwnFirst = "me"
  OwnLater = "me2"
  Pingers = {1}
  MaxPeers = 2
  MaxPerSubnet = 2
  Kinds = {}
  AsksHttp = TRUE
  MaxPings = 0
  MaxHeard = 0
  MaxRestarts = 0
  ChunkSends = {"blk"}
  MessageOf <- OneEach
  ChunksOf <- OneOfTwo
  Workers = {w1, w2}
  MaxChunkTotal = 2
  MaxForgets = 1
  MaxAge = 2
  RecvTimeout = 1
  Rounds = 2
  Busy = TRUE
  Prompt = FALSE
  ChunkLosses = 1
  MaxDups = 1
  Blocks = {b1}
  Relays = {q1}
  Threads = 1
  Cost = 4
  Burst = 20
  PruneAge = 24
  Gap = 0
  Sizes = {30, 130, 310, 533}
  Nodes <- ThreeNodes
  Mesh <- FullMesh
  AtFirst <- Newcomer
  MinPeersForStem = 2
  HopsMin = 2
  HopsMax = 3
  TxLosses = 1
  MaxReorgs = 1
  Contents = {"g", "x", "a", "b", "c", "d", "L"}
  Heavy = {"L"}
  FetchChunk = 2
  MaxHeavy = 1
  SyncRetries = 1
  MsgIds = {1, 2, 3}
  LocalChain <- Ours
  PeerChains <- Theirs
  MessageLosses = 2
  MaxDelays = 1
SPECIFICATION WorldSpec
SYMMETRY WorkerSymmetry

INVARIANTS DeliveredOnce AckedMeansWhole BulkArrives OneStem OnlyPeerChains
PROPERTIES LikeTokenBucket
\* Sends, messages and counted events are bounded.
CHECK_DEADLOCK FALSE
