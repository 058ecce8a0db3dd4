------------------------------ MODULE MCNetwork -------------------------------
(***************************************************************************)
(* The worlds between nodes, checked in two runs: a behaviour is one of    *)
(* Peers, or of Transport, Workers, RateLimit, Bulk, Relay or Download, and *)
(* the variables of the others stay as their Init leaves them.             *)
(***************************************************************************)
EXTENDS Peers, TLC

CONSTANTS Worlds,  \* those that are tried
          ChunkSends, MessageOf, ChunksOf, Workers, MaxChunkTotal, Rounds, MaxAge,
          RecvTimeout, Busy, Prompt, ChunkLosses, MaxDups, MaxForgets,         \* Transport
          Blocks, Relays, Threads,                                             \* Workers
          Cost, Burst, PruneAge, Gap,                                          \* RateLimit
          Sizes,                                                               \* Bulk
          Nodes, Mesh, AtFirst, MinPeersForStem, HopsMin, HopsMax,
          TxLosses, MaxReorgs,                                                 \* Relay
          Contents, LocalChain, PeerChains, Heavy, FetchChunk, MaxHeavy, SyncRetries, MsgIds,
          MessageLosses, MaxDelays                                             \* Download

VARIABLES world,
          stage, round, acked, net, acks, held, age, task, seen, delivered, forgot, whole, dropped,
          quiet, lost, dups,
          arrived, queue, running, relayTo, ackNet, noted, rounds, resent,
          bucket, ideal, refused, since,
          total, chunksToDo, bulkRound, bulkHeld, bulkAcked, atReceiver, atSender, over,
          known, st, seenTx, localTx, txNet, submitted, txLost, reorgs,
          local, peer, pc, call, tries, lo, hi, result, remote, fork, tail, syncNet,
          syncLost, delayed

chunkVars == <<stage, round, acked, net, acks, held, age, task, seen, delivered, forgot,
               whole, dropped, quiet, lost, dups>>
workerVars == <<arrived, queue, running, relayTo, ackNet, noted, rounds, resent>>
limitVars == <<bucket, ideal, refused, since>>
bulkVars == <<total, chunksToDo, bulkRound, bulkHeld, bulkAcked, atReceiver, atSender, over>>
txVars == <<known, st, seenTx, localTx, txNet, submitted, txLost, reorgs>>
syncVars == <<local, peer, pc, call, tries, lo, hi, result, remote, fork, tail, syncNet,
              syncLost, delayed>>

WorkerSymmetry == Permutations(Workers)

(* Other nodes, two of them in one subnet.                                 *)
TwoAddrs == {"p1", "p2"}
ThreeAddrs == {"p1", "p2", "p3"}
Subnets == [a \in ThreeAddrs \cup {"me", "me2"} |->
              CASE a \in TwoAddrs -> "s1" [] a = "p3" -> "s2" [] OTHER -> "home"]

(* One message in two chunks, and one above MAX_CHUNK_TOTAL; a send each.  *)
OneEach == [k \in ChunkSends |-> k]
OneOfTwo == [blk |-> 2]
TwoAndThree == [blk |-> 2, huge |-> 3]

(* Three nodes that know each other in the end; at first n1 knows only n2. *)
ThreeNodes == {"n1", "n2", "n3"}
FullMesh == [n \in ThreeNodes |-> ThreeNodes \ {n}]
Newcomer == [FullMesh EXCEPT !["n1"] = {"n2"}]

(* We are on a branch of our own; the peer grows, then leaves its branch   *)
(* at height 1 for a longer one.                                           *)
Ours == <<"g", "x", "a", "c">>
Theirs == << <<"g", "x", "b", "b", "b">>, <<"g", "x", "b", "b", "b", "b">>,
             <<"g", "x", "d", "d", "d", "d", "d">> >>

(* Four blocks ahead, each as large as an answer may be.                   *)
Behind == <<"g">>
Large == << <<"g", "L", "L", "L", "L">> >>

Chunks == INSTANCE Transport
  WITH Sends <- ChunkSends, Msgs <- DOMAIN ChunksOf, MsgOf <- MessageOf, Total <- ChunksOf,
       AckMaxRounds <- Rounds, MaxLosses <- ChunkLosses
Crowd == INSTANCE Workers
  WITH Peers <- Relays, AckMaxRounds <- 2,
       net <- ackNet, acked <- noted, round <- rounds
Limit == INSTANCE RateLimit
(* 50 tokens a second are a quarter of a token per tick of 5 ms.           *)
Bulky == INSTANCE Bulk
  WITH Cost <- 4, Burst <- 400, AckTimeout <- 300, MaxRounds <- 4,
       todo <- chunksToDo, round <- bulkRound, held <- bulkHeld, acked <- bulkAcked
Gossip == INSTANCE Relay
  WITH Peers <- Mesh, MaxLosses <- TxLosses,
       seen <- seenTx, local <- localTx, net <- txNet, lost <- txLost
Sync == INSTANCE Download
  WITH Retries <- SyncRetries, Ids <- MsgIds, MaxLosses <- MessageLosses,
       net <- syncNet, lost <- syncLost

ASSUME NetworkAssumption ==
  /\ Worlds \subseteq {"peers", "chunks", "crowd", "limit", "bulk", "gossip", "sync"}
  /\ Chunks!TransportAssumption /\ Crowd!WorkersAssumption
  /\ Limit!LimitAssumption /\ Limit!BucketAssumption
  /\ Bulky!BulkAssumption /\ Bulky!BucketAssumption
  /\ Gossip!RelayAssumption /\ Sync!DownloadAssumption

WorldInit ==
  /\ world \in Worlds
  /\ Init /\ Chunks!Init /\ Crowd!Init /\ Limit!Init /\ Bulky!Init /\ Gossip!Init /\ Sync!Init

WorldNext ==
  /\ UNCHANGED world
  /\ \/ /\ world = "peers" /\ Next
        /\ UNCHANGED <<chunkVars, workerVars, limitVars, bulkVars, txVars, syncVars>>
     \/ /\ world = "chunks" /\ Chunks!Next
        /\ UNCHANGED <<vars, workerVars, limitVars, bulkVars, txVars, syncVars>>
     \/ /\ world = "crowd" /\ Crowd!Next
        /\ UNCHANGED <<vars, chunkVars, limitVars, bulkVars, txVars, syncVars>>
     \/ /\ world = "limit" /\ Limit!Next
        /\ UNCHANGED <<vars, chunkVars, workerVars, bulkVars, txVars, syncVars>>
     \/ /\ world = "bulk" /\ Bulky!Next
        /\ UNCHANGED <<vars, chunkVars, workerVars, limitVars, txVars, syncVars>>
     \/ /\ world = "gossip" /\ Gossip!Next
        /\ UNCHANGED <<vars, chunkVars, workerVars, limitVars, bulkVars, syncVars>>
     \/ /\ world = "sync" /\ Sync!Next
        /\ UNCHANGED <<vars, chunkVars, workerVars, limitVars, bulkVars, txVars>>

WorldSpec ==
  WorldInit /\ [][WorldNext]_<<world, vars, chunkVars, workerVars, limitVars, bulkVars, txVars,
                               syncVars>>

-----------------------------------------------------------------------------
(* The properties of the components.                                       *)

(* A block is handed to the node once, as long as its id is remembered.    *)
DeliveredOnce == Chunks!DeliveredOnce

(* A send that hears everything acknowledged was reassembled whole, unless *)
(* it was evicted in the middle.                                           *)
AckedMeansWhole == Chunks!AckedMeansWhole

(* The rate limit is that of an ordinary token bucket.                     *)
LikeTokenBucket == Limit!LikeTokenBucket

(* A message of many chunks gets through both limits.                      *)
BulkArrives == Bulky!BulkArrives

(* The private phase of a transaction is one path.                         *)
OneStem == Gossip!OneStem

(* A chain spliced from two of the peer's is never adopted.                *)
OnlyPeerChains == Sync!OnlyPeerChains

(* Losses and duplicates do not keep a block from the node.                *)
SentIsDelivered == world = "chunks" /\ Chunks!Fairness => Chunks!SentIsDelivered

(* No reassembly buffer is kept for good.                                  *)
BuffersAreFreed == world = "chunks" /\ Chunks!Fairness => Chunks!BuffersAreFreed

(* However many retransmissions hold the threads, everybody is served.     *)
EveryoneIsServed == world = "crowd" /\ Crowd!Fairness => Crowd!EveryoneIsServed

(* A submitted transaction reaches every node.                             *)
ReachesAll == world = "gossip" /\ Gossip!Fairness => Gossip!ReachesAll

(* A node behind its peer catches up.                                      *)
CatchesUp == world = "sync" /\ Sync!Fairness => Sync!CatchesUp

(* A node that has stopped leaves the pool.                                *)
StoppedLeave == world = "peers" /\ Fairness => StoppedPeersLeave

-----------------------------------------------------------------------------
(* What documents and comments promise and the code does not keep.         *)

(* What is acknowledged is never missing again: peer_udp.py:18.            *)
AckedIsReassembled == Chunks!AckedIsReassembled

(* A transaction that falls out of a block is sent again: node.py:588.     *)
ReaddedIsReflooded == Gossip!ReaddedIsReflooded

(* Only what is still missing is sent again: peer_udp.py:18.               *)
OnlyMissingIsResent == Crowd!OnlyMissingIsResent
=============================================================================
