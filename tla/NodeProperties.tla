--------------------------- MODULE NodeProperties ---------------------------
(***************************************************************************)
(* What the node must keep true, over module Node.                         *)
(*                                                                         *)
(* A peer's chain may hold blocks that claim height 0 above genesis: none  *)
(* of the checks of src/block.py asks for another, from_chain and the      *)
(* database then take them for genesis, and the node loses what its        *)
(* database should keep.  What is stated under OrderlySpec is about peers  *)
(* whose chains hold none (HeightsFollow); what is stated under Spec is    *)
(* about any peers.                                                        *)
(***************************************************************************)
EXTENDS Node

HeightsFollow == \A tail \in PeerTails : \A i \in DOMAIN tail : ~tail[i].zero

OrderlyInit == HeightsFollow /\ Init

OrderlySpec == OrderlyInit /\ [][Next]_vars

TypeOK ==
  /\ pc \in {"drain", "start", "vdf", "offer", "down"}
  /\ cs.chain \in Seq(Block) /\ cs.state \in LedgerState /\ cs.work \in Nat
  /\ view.chain \in Seq(Block) /\ view.state \in LedgerState /\ view.work \in Nat
  /\ pool \subseteq Txs
  /\ DOMAIN disk.blocks \subseteq Nat /\ disk.state \in LedgerState
  /\ base.chain \in Seq(Block)
  /\ acc \subseteq Block
  /\ cand \in Block

(* The transactions of a chain. *)
OnChain(chain) == {tx \in Txs : \E i \in DOMAIN chain : tx \in ToSet(chain[i].txs)}

(* Every block of the chain the node works on is valid on top of the       *)
(* blocks before it, whichever of the three ways in it took: our own VDF,  *)
(* a peer's block picked over it, or a peer's whole chain, as long as the  *)
(* heights in that follow.  A block built on a tip that moved during its   *)
(* VDF would break it (node.py:370-380).                                   *)
ChainIsValid ==
  /\ cs.chain # <<>> /\ cs.chain[1] = Genesis
  /\ ValidTail(cs.chain, 2)

(* The refinement: what the database would bring back after a crash is a   *)
(* best chain in the sense of module BestChain at every moment, so no      *)
(* crash shows a torn write, a stale ledger or a return to a worse chain   *)
(* (storage.save_block_and_state and replace_chain_and_state with          *)
(* node._load_cs).  Among peers whose heights follow: another's block of   *)
(* height 0 takes the row of genesis.                                      *)
Durable == INSTANCE BestChain WITH best <- LoadChainState(disk)
DurableBestChain == Durable!Spec

(* A process that dies now comes back with the chain, the ledger and the   *)
(* work it has: the database never lags behind the node, nor holds a mix   *)
(* of two branches, and API readers see the same chain (node._commit,      *)
(* node.apply_better_chain, storage.replace_chain_and_state), among peers  *)
(* whose heights follow.                                                   *)
RestartLosesNothing == LoadChainState(disk) = cs /\ view = cs

(* The transaction index names the confirmed transactions and no others,   *)
(* each at the height of the one block that holds it: a reorg leaves no    *)
(* row of the abandoned branch and loses none of the common prefix         *)
(* (storage._index_block, replace_chain_and_state).  Among peers whose     *)
(* heights follow: blocks that share a height share a row.                 *)
IndexIsExact ==
  /\ DOMAIN disk.index = OnChain(cs.chain)
  /\ \A tx \in DOMAIN disk.index :
       \E i \in DOMAIN cs.chain : /\ tx \in ToSet(cs.chain[i].txs)
                                  /\ cs.chain[i].height = disk.index[tx]

(* Whatever writes failed, a row of the Block table is a block of our own  *)
(* chain at its own height: two branches are never mixed in it, among      *)
(* peers whose heights follow.                                             *)
RowsAreOurBlocks ==
  \A h \in DOMAIN disk.blocks :
    h + 1 \in DOMAIN cs.chain /\ disk.blocks[h] = cs.chain[h + 1]

(* A confirmed transaction is not pending.  A transaction is taken in once *)
(* it passed "against confirmed state plus this sender's already-pending   *)
(* mempool txs" (node.py:230), and leaves with the block that confirms it. *)
NothingConfirmedPends == pool \cap OnChain(cs.chain) = {}

(* What the candidate is assembled from is not stale: while the VDF's tip  *)
(* stands, every pending transaction has a nonce the chain has not         *)
(* reached, whatever was submitted, salvaged or re-added since the prune   *)
(* that opened the cycle (mempool.prune_stale, node._validate_for_mempool, *)
(* node._readd_valid_txs).                                                 *)
PendingIsFresh ==
  pc \in {"vdf", "offer"} /\ TipUnchanged =>
    \A tx \in pool : tx.nonce > cs.state.nonce[tx.from]

(* The mempool's size stays within its cap, with transactions arriving and *)
(* coming back from abandoned blocks (mempool.add).                        *)
PoolWithinCap == PoolBytes(pool) <= MempoolMaxBytes

(* A pending transaction gives way only to one that pays a higher rate,    *)
(* unless it is confirmed or pruned, however many transactions one step    *)
(* puts back (mempool.add's eviction under _readd_valid_txs).              *)
OnlyOutbidTxsAreEvicted ==
  [][pc' # "down" /\ ~(pc # "vdf" /\ pc' = "vdf") =>
       \A t \in pool \ (pool' \cup OnChain(cs'.chain)) :
         \E u \in pool' \ pool : LowerRate(t, u)]_vars

(* While the node is up its chain is only ever replaced by a better one in *)
(* the sense of ChainState.is_better_than, whoever offers it, or extended  *)
(* by a peer's block that states no iterations: that one is picked like    *)
(* any other (node.py:436) and counts for no work (chainstate.py:137).     *)
ForkChoiceMonotone ==
  [][cs'.chain # cs.chain =>
       \/ IsBetterThan(cs', cs)
       \/ cs' = ApplyBlock(cs, Last(cs'.chain)) /\ ~Last(cs'.chain).rated]_vars

(* The fork choice would not trade the block a node commits for block b.   *)
PickStands(b) == ~IsBetterThan(ApplyBlock(cs, b), cs')

(* The block a node commits at once is one the fork choice would not       *)
(* trade for any other valid block it had in hand, if those all state      *)
(* their iterations (node._pick_winner, chainstate.is_better_than).        *)
PickAgreesWithForkChoice ==
  [][pc = "offer" /\ cs' # cs /\ (\A b \in ValidPeers(acc) : b.rated) =>
       \A b \in ValidPeers(acc) \cup {cand} : PickStands(b)]_vars

(* The same of any blocks: "a node's own immediate pick can't diverge from *)
(* what syncer would settle on anyway" (node.py:434-435).                  *)
PickNeverDiverges ==
  [][pc = "offer" /\ cs' # cs =>
       \A b \in ValidPeers(acc) \cup {cand} : PickStands(b)]_vars

(* Whatever the mempool holds, the candidate assembled from it is valid:   *)
(* _reorg_mempool and _readd_valid_txs are there so that no transaction    *)
(* "can stall this node's own block production" (node.py:633-638).         *)
(* HonestWorld says what this takes.                                       *)
OwnBlockIsValid ==
  pc = "vdf" /\ TipUnchanged =>
    \A txs \in Packings(pool), dt \in OwnDelays :
      Valid(Candidate(txs, dt), base.state, base.chain)

(* A candidate stays within the block size limit, however full the mempool *)
(* is: "Assembled block (with hash placeholder) must fit"                  *)
(* (tests/test_e2e_flows.py:230, for block.assemble).                      *)
CandidateFits ==
  pc = "vdf" /\ TipUnchanged =>
    \A txs \in Packings(pool) : Bytes(txs) + SealBytes <= BlockLimit

(* The mempool never holds a transaction its sender cannot pay after those *)
(* before it, so probe_state_for does not raise and no well-formed         *)
(* transaction ends the cycle of the loop thread (node._validate_for_mempool *)
(* has no handler of its own; mempool.probe_state_for applies unvalidated). *)
PendingIsAffordable ==
  \A tx \in Txs : Raised \notin ProbeStatesFor(pool, tx.from, cs.state)

(* The database's ledger is the one its blocks give: "Blocks are the       *)
(* source of truth. State is rebuilt from blocks" (storage.py:11).         *)
BlocksAreTheSourceOfTruth == disk.state = ReplayChain(LoadAllBlocks(disk))

(* Block production does not stop where nothing fails: the chain reaches   *)
(* every height the model has room for, whatever well-formed transactions, *)
(* blocks and chains come in meanwhile (node._run_cycle).                  *)
ChainGrows == Faults = {} => <>(Len(cs.chain) > MaxHeight)

(* Nor does it where messages are malformed: a cycle's exception is logged *)
(* and the loop goes on "while self.running" (node.py:213-220).            *)
ChainGrowsRegardless == <>(Len(cs.chain) > MaxHeight)

-----------------------------------------------------------------------------
(* A world the mempool's checks are enough for: one transaction per sender *)
(* and nonce, made on a branch that stays; room for all of them, and no    *)
(* reason to evict or prune one; blocks of our own that take as long as    *)
(* the timestamp rule asks and never fill up to within their seal; peers   *)
(* whose heights follow; a process that may die, over a disk that works,   *)
(* and messages that may be malformed.                                     *)
HonestWorld ==
  /\ HeightsFollow
  /\ \A t, u \in Txs : t.from = u.from /\ t.nonce = u.nonce => t = u
  /\ IsFiniteSet(Txs) /\ PoolBytes(Txs) <= MempoolMaxBytes
  /\ MaxReorg = 0
  /\ Faults \subseteq {"crash", "malformed"}
  /\ \A dt \in OwnDelays : dt >= SkewSeconds
  /\ \A S \in SUBSET Txs : PoolBytes(S) <= BlockLimit => PoolBytes(S) + SealBytes <= BlockLimit

HonestInit == HonestWorld /\ Init

HonestSpec == HonestInit /\ [][Next]_vars /\ Fairness

=============================================================================
