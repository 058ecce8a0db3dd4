# LapseCoin: a TLA+ model of the node

LapseCoin (repository `echocoin-core`) is a proof-of-elapsed-time chain in
Python. A node computes one verifiable delay function (VDF) per block, keeps
the chain, its ledger, a mempool and a SQLite database, and exchanges blocks,
transactions and chains with its peers over UDP. Threads of the HTTP API, of a
rewarder, of peer discovery and of the transport work beside the node's loop.
These modules say what the parts promise and check the code's logic against it;
paths below are relative to `src/` of the repository (`node.py` is `src/node.py`),
`main.py` is at its top.

## The system

| component | state | operations | who calls it | what makes it correct | model |
|---|---|---|---|---|---|
| ledger: `state.py`, `tx.py` | balances, nonces, `total_minted` | `validate`, `apply_tx`, reward | block validation, mempool | no tick created or lost, cap, no replay | Ledger, ChainLedger |
| blocks, fork choice: `block.py`, `chainstate.py` | a `ChainState`: chain, ledger, work; immutable, swapped as one | `validate`, `get_vdf_iterations`, `assemble`, `apply_block`, `from_chain`, `is_better_than` | node loop | chain valid, ledger = replay, deterministic rate | Chain, Retarget, BestChain |
| database: `storage.py` | tables Block, State, Emission, TxIndex, AddrIndex, Meta | `save_block_and_state`, `replace_chain_and_state`, loads | node loop, API reads | after a crash: one branch, its ledger, its index | Storage |
| mempool: `mempool.py` | pending transactions, byte count | `add` with eviction, `remove_many`, `probe_state_for`, `prune_stale` | node loop; API reads | bounded, nothing confirmed or unaffordable in it | Mempool |
| node loop: `node.py` | `cs`, `view`, the cycle's locals, `_local_pending` | inbox, sync, VDF, pick, commit, reorg, salvage | one thread; everything else talks to it by queue | only ever a better valid chain, keeps producing | Node, NodeProperties |
| gossip: `gossip.py` | cache of seen transactions | flood, Dandelion stem | node loop | one stem, and every transaction reaches everybody | Relay |
| chain download: `syncer.py` | none | fork-point search, paged fetch | node loop, synchronously | what it hands over is one peer's chain; catches up | Download |
| transport: `peer_udp.py` | reassembly buffers, request futures, seen hashes, rate buckets, retransmissions; receive thread and 16 workers | send, acknowledge, retransmit, limit, answer | all of the above | a block arrives once and whole, the limit is a token bucket, nobody waits for ever | Transport, RateLimit, Bulk, Workers |
| peer pool: `peerpool.py` | peers, ages, info | add, touch, evict, update | transport, discovery, syncer, prober | bounded, nothing stored of strangers, no dead peer kept | Peers |
| discovery: `discovery.py`, `discovery_dht.py`, `http_probe.py` | candidates, own address, cache file | flush, ping, admit, punch, probe | own threads | finds peers, moves our address only on agreement | Peers |
| rewarder: `uptime_rewarder.py` | budget and pending payout in a JSON file | `run_once`, `_resolve_pending`, `adjust_budget` | own thread, API | budget + payouts = what was granted | Payouts |
| API: `api.py`, bridge in `node.py` | reply queues, sessions | `/send`, `/api/tx`, look-ups, pages of rewards | Flask threads | answers agree with what the node did | Bridge, Explorer, RewardPages |
| start: `main.py`, `singleton_lock.py` | lock file | take the lock, open, quit | operating system | one process per database | Startup |
| `vdf.py`, `crypto.py` | none | evaluate, verify, sign | blocks, wallets | external arithmetic | a Boolean or constant of Chain |
| `gui.py`, `update_check.py`, `version.py` | window | - | - | presentation | - |

They interact in three ways. The loop thread calls ledger, chain, mempool,
database and syncer directly and is the only writer of `cs`, mempool and
database. Transport workers and API threads reach it through `net_in_q` only,
and read `node.view`, one reference swapped after every commit, the mempool and
the index, each at its own moment. The transport's own threads share buffers,
buckets and futures under locks.

What is hard here: a tip that moves while a two-minute VDF runs on the old one;
a reorg that moves transactions in both directions between chain and mempool;
the order of memory and database writes around a failure or crash; fork choice
by work, so that a shorter chain can win; transactions that were valid when they
became pending and are not any more; any exception ending a whole cycle; readers
of three places that a commit updates one after the other; lost, duplicated and
late datagrams; threads that wait for acknowledgements handled by the same
threads; answers that come after their caller gave up; a peer that changes its
chain in the middle of a download; and a budget that three parties write.

## The modules

```
 Sums -- Ledger -- Chain -+- Storage --+- Node -- NodeProperties -- MCNode
           |              +- Mempool --+              |
           |              +- BestChain  <-refinement--+
           |              +- Retarget -- MCRetarget
           +- ChainLedger -- RewardPages -- MCChainLedger

 TokenBucket -+- RateLimit -+
              +- Bulk ------+
 Transport -----------------+
 Workers -------------------+-- MCNetwork        Explorer -+
 Relay ---------------------+                    Payouts --+-- MCServices
 Download ------------------+                    Startup --+
 Peers ---------------------+                    Bridge ---+

 proofs: SumsTheorems -+- LedgerTheorems -+- ChainLedgerProofs
                       |                  +- NodeProofs -- HonestProofs
                       +- RetargetProofs  (over Retarget)
                       +- ServicesProofs  (over MCServices)
                       +- NetworkProofs   (over MCNetwork)
```

### Chain and node

* **Sums** adds up a function's values as the cardinality of a set of units, so
  that what the proofs need of sums are facts about finite sets. Balances, outputs, fees, sizes
  and work are all such sums.
* **Ledger** holds the operators of `state.py`, `tx.py` and the reward of
  `chainstate.py`. A ledger is `[bal, nonce, minted]`. `ApplyTx` gives the value
  `Raised` where `apply_tx` raises `ValueError`. The output list of a
  transaction is what it pays each address; the checks that read nothing but
  the transaction are its field `signed`.
* **ChainLedger** is `ChainState.validate_and_apply` as a state machine, one
  transaction per step: `BeginBlock` takes the snapshot, `ApplyNext` is one turn
  of `_apply_transactions`, `RejectBlock` the early return, `AcceptBlock`
  `_apply_block_with_state`. **RewardPages** adds the two pages of `api.py` that
  work out a block's reward by themselves.
* **Chain** holds the operators of `block.py` and `chainstate.py`. A block's
  hash is the list of contents from genesis to the block, so equal hashes mean
  equal histories, which is what a collision-free hash gives. Timestamps occur
  in the code as differences between neighbours and as "at most 30 s ahead of
  our clock"; a block carries the first as `dt`, and the second is part of
  `sound` together with the hash field, the builder's address and the proof.
  Validity of a block does not change later in the model, while in the code a
  block too far ahead becomes acceptable as time passes. A block may leave
  `vdf_iterations` out (`rated`): validation and retargeting then read the base rate
  (`DueRate`), the fork choice reads 0 (`StatedRate`). And a peer's block may claim
  height 0 wherever it stands: no check asks for a parent, builder or proof, its VDF
  output is what it claims (`claimed`), and a replay skips it (`TailLedger`).
* **Storage** is the database as a record of tables and its writes as operators:
  each `db.atomic()` block is one step from one database to the next. Rows are keyed
  by height and replaced on conflict (`InsertBlocks`).
* **Mempool**: `add`, `probe_state_for` and `prune_stale` over a set of
  transactions. The dict's insertion order decides between equal fee rates in
  the code; the operators allow either outcome.
* **Node** composes them. Its variables are `cs`, `view`, `pool`, `disk` and the
  locals of `_run_cycle`: `base` (the alias `cs` taken when the VDF starts),
  `acc` (`accumulated_blocks`), `cand` (the candidate) and `pc`:

  | `pc` | the loop thread is | actions |
  |---|---|---|
  | `drain` | at the top of a cycle | inbox with `HandleTx`, `HandleTxRaises`, `HandleMalformed`; `AdoptChain`, `AdoptFails`, `SalvageFork`, `StartVdf` |
  | `start` | past the opening sync check | `StartVdf` |
  | `vdf` | in the wait loop of the VDF | inbox with `HandleBlock`, the sync actions, `DiscardVdf`, `OfferBlock`, `InvalidCandidate` |
  | `offer` | in the last drain before the pick | inbox, `Commit`, `CommitFails` |
  | `down` | not running | `Restart` |

  Every handler is one action because nothing else writes what it reads.
  `EndCycle` is what return and exception have in common. A peer's chain
  (`RemoteChains`) shares a prefix with ours and then holds whatever bodies the
  configuration lists, valid or not, of any height that follows or of height 0.
  `HandleMalformed` is any message that lacks a field or has one of a wrong type:
  what it raises is caught only by `start`, so it ends the cycle. When a database write fails in `_commit`,
  `CommitFails` leaves exactly what the code leaves: a chain state that moved.
* **NodeProperties** states what should hold. `HeightsFollow` says that no peer's chain
  has a block of height 0 above genesis, and `OrderlySpec` is Node among such peers: a
  good part of what the node promises needs it (`block.py:181` below). **BestChain** is the abstract
  specification: a variable `best` that starts sound and moves only by a valid
  block on top or to a better sound chain. The refinement maps `best` to
  `LoadChainState(disk)`, what a restart would load, so it speaks about every
  moment at which the process may die.
* **Retarget** lets a chain grow with any block times under `GetVdfIterations`
  and compares it with a definition that walks all windows from genesis.

### Between nodes

* **Transport** is the chunk layer of `peer_udp.py` between senders and one
  receiver. A *send* is one call of `_send_chunked`; several senders may send
  the same block. `Feed` and `Refuse` are a worker in `_Reassembler.feed`,
  `Acknowledge` the ACK with what it holds, `Dispatch`/`DropSeen` `_is_new`,
  and between them another worker may take its turn. `Resend`, `Finish` and
  `GiveUp` are the rounds of `_retransmit_until_acked`; `EvictStale` runs only
  when `recvfrom` timed out, that is after a pause in all traffic (`quiet`); `dropped`
  remembers the sends whose buffer it took half full. `Forget` is `_mark_seen`
  giving up old ids of a full cache.
  `Busy` says whether other traffic exists, `Prompt` whether ACKs keep up.
* **TokenBucket** is the arithmetic of `_allow_rate` in units of a quarter token,
  **RateLimit** one source's bucket with pruning, next to an ordinary bucket
  `ideal` that is refilled all the time, and **Bulk** a message of N chunks sent
  at the code's pacing through the limits of both ends.
* **Workers** is the thread pool: a chunked send keeps a thread until it is
  acknowledged, and acknowledgements need a thread to be handled.
* **Relay** is the way of one transaction through three nodes: stem, flood, seen
  cache, `_handle_inbound_tx`, the retry of local ones, blocks that confirm it
  and reorganisations that undo them.
* **Download** is `check_and_sync` against a peer whose chain grows and changes
  its branch between any two answers: `Poll`, `Informed`, `Probe`, the steps of
  the binary search, `Fetch`, `Fetched`, `Apply`; `Ask`, `Hear`, `DropLate`,
  `Waited` are the request futures. `OnlyPeerChains` judges what is adopted after
  `_validate_tail`, which is why a mixed tail does no harm.
* **Peers** is the pool and everybody who writes it: pinging threads that look
  for room before a ping and add after it, eviction, the prober's and the
  syncer's late results, the votes of PONGs on our own address, the cache file
  over a restart. `strike` and its cooldown are not there because nothing in the
  program calls `strike`.

### Around one node

* **Bridge**: threads choose a nonce in two reads (`ReadView`, `ReadPending`),
  queue the transaction, and wait for an answer or give up; the loop judges
  (`Judge`) and commits in the code's three steps (`ApplyBlock`, `RemoveMany`,
  `PublishView`). A reply queue belongs to one call, as in the code.
* **Explorer**: clients look one transaction up on three pages, reading mempool,
  index and view one by one, while the loop commits (`CommitOrder`) and
  reorganises.
* **Payouts**: `run_once` in its steps (`FindPending`, `Settle`, `Send`,
  `Accepted`, `Debit`), the settings page that reads and edits the budget, the
  network that confirms, drops and reorganises the payout, restarts. `faults`
  remembers which kinds of trouble have happened, so that a property can say
  which it survives.
* **Startup**: launches, the lock, the database, and an end at any moment.

### The composite modules

**MCNetwork** and **MCServices** instantiate several components and check them in one
run: a variable `world` is chosen at the start, a behaviour then is a behaviour
of that component, and the variables of the others rest. Their constants are those of
the composite module, so that what is proved of it holds for all their values. The components do not
share state there; each has its environment inside it as a set of actions (the
network, the peer, the loop). `Worlds` in a cfg says which components a run has.
A liveness property of a component comes as `world = ... /\ Fairness => ...`, with
that component's own fairness as the assumption. **MCNode** gives the node's
instance, **MCChainLedger** and **MCRetarget** the others.

Each mapped definition that a run tests by mutation has, before it, a variant
marked "Mutant": the code with a plausible bug. No specification uses them; with
the variant in its place the property named for it must fail.

## The runs

| run | world and bounds | shows |
|---|---|---|
| `ledger` (MCChainLedger) | 2 accounts, 5 transactions (rival nonces, self-payment, two outputs, unsigned), 5 blocks of up to 2 | types, conservation, cap, nonce history, replay = incremental, the two pages agree and show at most what was paid |
| `retarget` (MCRetarget) | 4 paces, windows of 3, chains up to 8 blocks: all of them | rate lookup = window replay |
| `forks` (MCNodeForks) | 2 builders, 3 rival transactions, 9 peer tails (better, worse, shorter, invalid, without iterations), 7 peer bodies, height 3, heights that follow, crash at any step | refinement of BestChain by the database; nothing lost by a crash; exact index; a fresh pool under every candidate |
| `storage` (MCNodeStorage) | the same with failing writes instead of crashes | memory stays valid and monotone (a picked block that states no work aside), rows are our own blocks |
| `pool` (MCNodePool) | 5 transactions of sizes 1 and 2 in 3 units, expiry, reorgs, a peer's block of height 0, malformed messages | the cap; displacement only by a higher rate |
| `honest` (MCNodeHonest) | `HonestWorld`: one transaction per nonce, 3 builders, valid and forged blocks, one without iterations, inbox of 2, height 4, windows of 4, heights that follow, no malformed message, no reorg, no block filled to within the seal, fairness | own candidates valid, no well-formed submission raises, the chain grows, the pick agrees with the fork choice among blocks that state their iterations |
| `network` (MCNetwork.cfg) | a block of 2 chunks, 2 workers, 1 loss, 1 duplicate, 2 rounds, any delay, evictions at any moment of a send, an id forgotten once; one bucket; messages of 30, 130, 310, 533 chunks; 3 nodes with a loss and a reorg; a peer with 3 chains in turn, 2 losses, 1 late message | delivered once per remembered id, acknowledged means whole or evicted half full, the limit is a token bucket, 745 KB get through, one stem, no spliced chain |
| `progress` (MCProgress.cfg) | fair worlds: 2 losses for 2 rounds on a quiet socket; 3 peers for 2 threads; 3 nodes with 2 losses; the changing peer; a peer that stops, with a restart | a block is delivered or its buffer was evicted half full, buffers are freed, all are served, a transaction reaches all, the node catches up, a stopped peer leaves, no information of strangers |
| `services` (MCServices.cfg) | 2 threads with 2 sends each; 2 clients, 2 blocks, a reorg; 2 payouts, 2 edits, a crash, a reorg; 3 processes, 5 launches | answers are those of the call, nonces in order, confirmed stays confirmed, books balance, payouts are settled, one writer |
| `stall` (MCNodeStall) | the honest world with reorgs | **violated**: see below |
| `full` (MCNodeFull) | transactions that fill a block to the last byte | **violated**: see below |
| `gap` (MCNodeGap) | failing writes | **violated**: see below |

Why the bounds suffice. Every decision of the node looks at its chain, a peer's
chain and the fork point; with two or three blocks above a block of our own
each of them is reached with the fork at genesis, in the middle and at the tip,
with a chain that is longer, shorter and of equal work (the factor 5/2 and
windows of two blocks make a fast short chain outweigh a slow long one at
height 2). Two builders take turns at the lower VDF output. Three transactions,
two for the same nonce and one that follows, give every relation two pending
transactions of a sender can have. Ledger runs reach the end of the emission
(cap 12, half of the rest per block).

In Transport two chunks are the least with a partial message, two workers the
least that can complete it together, and two rounds the least in which the first
loss is of data and the second of an acknowledgement. A buffer is evicted 60 s after
its first chunk, and nothing bounds how long its send is tracked: the pacing of up to
2000 chunks, the wait for one of 16 workers and four rounds all count. So a buffer's age
and a send's progress are independent of one another in the model. In Workers there are more
sends than threads, as with 16 threads and a pool of 125 peers. Three nodes are
the least for a stem that ends at a third. In Download the search has a range of
four heights, pages hold two of the code's 50 blocks so that a fetch has several,
and the peer leaves its branch below the fork point found. Two threads and two
payouts are the least for one to interfere with the other. In Bulk the numbers are
the code's own (burst 100, 50 per second, 5 ms, 1.5 s, four rounds).

`CHECK_DEADLOCK FALSE` is set where a bound ends the behaviour; `forks` checks
deadlock.

**Fairness.** `honest`: weak fairness of the loop thread's own steps. `start` calls
`_run_cycle` for ever and `evaluate` is a finite computation; nothing is assumed of
peers and clients. One assumption is hidden in it: `_drain_queue` returns only
when the queue is empty, so weak fairness of `StartVdf` takes for granted that
messages do not arrive faster than they are handled for ever. `progress` and
`services`: weak fairness of each thread's next step, of time, and of the delivery of
what the network does not lose (losses are bounded, which is what "as many losses
as rounds" means). In Relay also: two nodes find each other in the end, and a block
that confirms a transaction somewhere is adopted everywhere in the end, which is
what Download and Node are for. In Payouts a transaction ends somewhere, by
confirmation or expiry. In Peers the eviction loop goes round; nobody has to answer.
`MCProgress` has no other traffic on the socket (`Busy = FALSE`; needed, see
`BuffersAreFreed` below) and a network that answers within the 1.5 s of a round
(`Prompt = TRUE`), so that only losses use up rounds; `network` has neither.

### Three disagreements that have a run

* `stall`: the node's first block is reorganised away while a transaction that
  spends its reward is pending. `_reorg_mempool` validates what it re-adds
  and leaves the rest, `assemble` packs the transaction, the candidate fails
  validation at `node.py:387`, and so does every candidate until the
  transaction expires after 30 minutes. The docstring of `_reorg_mempool` gives
  avoiding that stall as its purpose. The next submission by that sender raises in
  `probe_state_for` and ends the cycle (`HandleTxRaises`). The `honest` run shows
  that without reorgs neither can happen.
* `full`: `assemble` measures a skeleton in which the VDF fields are `None` and
  `tx_bytes` is missing; what is filled in afterwards (`SealBytes`) is not
  counted. When the mempool fills a block to within those bytes, the candidate
  is over `BLOCK_SIZE_LIMIT` and `validate` rejects it, as long as the same
  transactions are packed. `tests/test_e2e_flows.py:230` asserts that an
  assembled block fits, with too few transactions to reach the limit. In the
  `honest` run sizes are such that no packing ends inside the seal.
* `gap`: `_commit` swaps `self.cs` before it writes. After a failed write the
  next commit stores its block over a missing height together with a ledger
  that contains the missing block; `storage.py:11` promises a ledger that
  follows from the blocks.

### Further disagreements

Each can be seen by running TLC with the cfg named; "+" means that the property is
added to the cfg of a run above. They are stated beside the properties that hold.

* `NothingConfirmedPends` (MCNodeStale.cfg), `node.py:233`: probe_state_for applies a
  sender's pending transactions in nonce order and never looks at the confirmed
  nonce. When a peer's block confirms nonces 1 and 2 while another transaction with
  nonce 1 is pending, that one sets the probe back to 1, and the transaction with
  nonce 2, already on the chain, is admitted, answered as accepted and relayed; the
  next prune_stale removes it. node.py:230 says a transaction is validated "against
  confirmed state plus this sender's already-pending mempool txs". What the prune
  saves is `PendingIsFresh`: no candidate is built from such a transaction.
* `RestartLosesNothing` (MCNodeZero.cfg), `block.py:181`: a block that claims height 0
  passes without a parent (block.py:181), a builder and a VDF (block.py:208), wherever it
  stands in a chain; the syncer does not look at the heights it fetched, and the unproven
  `vdf_output` wins a tie. The chain is adopted, from_chain takes the block for genesis and
  skips its transactions (chainstate.py:84), replace_chain_and_state writes it to row 0
  (storage.py:190), and a restart loads a chain with another first block. With the same
  peers `DurableBestChain`, `IndexIsExact` and `RowsAreOurBlocks` fail too, and among honest
  wallets (the same cfg with Txs <- NarrowTxs, MaxReorg = 0, BlockLimit = 9,
  MempoolMaxBytes = 9, Faults = {}) `OwnBlockIsValid`: the transactions of such a block
  leave the mempool unapplied, and the nonces behind them have a gap. storage.py:11-12 promises blocks that are "the
  source of truth".
* `PickNeverDiverges` (MCNodeHonest.cfg +), `node.py:436`: validation reads a missing
  vdf_iterations as the base rate (block.py:220), the fork choice as 0
  (chainstate.py:68, 137). A peer's block without the field wins the pick by its lower
  VDF output and adds no work; our own candidate, dropped for it, is what the fork
  choice prefers. node.py:434-435 says "a node's own immediate pick can't diverge
  from what syncer would settle on anyway".
* `ChainGrowsRegardless` (MCNodeHonest.cfg + with Faults = {"malformed"}), `node.py:213`:
  a message that lacks a field or has one of a wrong type raises in
  _handle_inbound_tx (node.py:501), in the check of its transaction (tx.py:77) or in
  _evaluate_remote_chain (node.py:553). Only start catches it, at the price of the cycle
  and its VDF, so a node that gets one per cycle produces no block. The handler
  (node.py:220) logs "cycle error" and goes on, which is meant to keep the loop alive.
* `AckedIsReassembled` (MCNetwork.cfg +), `peer_udp.py:180`: a buffer is evicted
  60 s after its first chunk whether or not its send is tracked; what was
  acknowledged before the eviction and what is acknowledged after it add up to the
  whole message at the sender, which stops, and the receiver has no part of it whole.
  peer_udp.py:18 says "the receiver ACKs its current chunk holdings ... and the
  sender resends only what's still missing".
* `BuffersAreFreed` (MCNetworkBusy.cfg), `peer_udp.py:443`: _recv_loop calls
  evict_stale only when recvfrom times out, that is after a pause in all traffic; on
  a socket with other traffic an incomplete message keeps its buffer for good.
  peer_udp.py:20-22 says "A message still stuck incomplete after that -- or one
  whose reassembly buffer just goes stale from real inactivity -- is dropped
  (_Reassembler.evict_stale)".
* `SentIsDelivered` (MCNetworkOversize.cfg), `peer_udp.py:165`: feed refuses every
  message of more than MAX_CHUNK_TOTAL = 2000 chunks, about 2.8 MB, while a block
  may have BLOCK_SIZE_LIMIT = 10 MB (params.py:30): a valid block above that reaches
  no peer, and its sender retransmits it four times. peer_udp.py:89 says "~2.8MB
  reassembled, well above any real message".
* `SteadySourceIsServed` (MCRateLimitSteady.cfg of RateLimit), `peer_udp.py:468`: A
  refusal moves the bucket's clock to now without storing the tokens that had
  accrued: a source that sends at a steady rate above RATE_LIMIT_PER_SEC is refused
  altogether once its burst is used, since between two datagrams less than one token
  accrues. peer_udp.py:91-92 says the bucket "caps how many datagrams/sec one
  address can push into the worker pool", not that it ends them.
* `BulkArrives` (MCNetwork.cfg with Sizes = {534}), `peer_udp.py:687`: _send_chunked paces chunks
  at 200 per second, the receiver admits 50 per second after a burst of 100, and the
  refill is lost at each refusal: four rounds of resending what is missing bring
  533 chunks through a perfect link (theorem `LargeMessagesArrive`), and a message of
  534, about 750 KB, does not arrive,
  although peer_udp.py:89 allows 2000 chunks, "~2.8MB reassembled, well above any
  real message".
* `CatchesUp` (MCNetworkHeavy.cfg), `syncer.py:144`: _fetch_chain asks for 50 blocks
  at a time whatever their size; when the answer does not get through (more than
  MAX_CHUNK_TOTAL chunks, or than the rate limit admits) the page fails, and the
  next poll asks for the same page. syncer.py:18-25 says 50 is "well below the hard
  caps" and "with real recovery underneath".
* `ReaddedIsReflooded` (MCNetwork.cfg +), `node.py:590`: _readd_valid_txs floods
  through dandelion_send, which drops what the seen cache holds (gossip.py:83-86),
  and it holds every transaction the node has flooded before. Its docstring
  (node.py:579-582) says "Also re-floods each one ... without this it would just sit
  in our own mempool alone until we mine it ourselves or it expires".
* `FailureIsFinal` (MCServices.cfg +), `node.py:283`: After five seconds
  submit_tx_from_api answers (False, "node busy (timeout)") but leaves the
  transaction in the queue, and the loop accepts it later: the caller was told of a
  failure and may pay a second time. Its docstring (node.py:277) says "enqueue tx,
  block until the loop replies".
* `SendsInARowAreAccepted` (MCServicesWallet.cfg), `node.py:448`: _commit removes a
  block's transactions from the mempool before it swaps the view; a nonce chosen in
  between, or by a _build_and_sign_tx_with_kek that read the view before and the
  mempool after, repeats the nonce just confirmed and the transaction is rejected.
  mempool.py:83-85 says pending_nonce "Lets a wallet queue up several sends in a row
  without waiting for each one to confirm first".
* `SubmittedIsFound` (MCServices.cfg +), `api.py:617`: /api/tx looks in the mempool,
  then in the index, then in the view, and _commit writes the index, empties the
  mempool and swaps the view last: between the last two a transaction is in no place
  the page accepts and the answer is 404 "not found". api.py:27 says the endpoint
  returns the "transaction object (confirmed or mempool)".
* `ShownIsPaid` (MCChainLedger.cfg +), `api.py:229`: _block_reward and
  _get_mined_blocks_for_addr let genesis mint one reward, the ledger starts with the
  block at height 1 (chainstate.py:82-85): the pages show every block the reward of
  its successor. api.py:224-227 says "replaying total_minted from genesis the same
  way _get_mined_blocks_for_addr and the real ledger do ... 0 for genesis (no
  builder, nothing minted)".
* `EditsAreKept` (MCServices.cfg +), `uptime_rewarder.py:168`: run_once reads the
  remaining budget at line 119, waits up to five seconds for the node and writes
  that value minus the payout: an adjust_budget in between is lost.
  uptime_rewarder.py:89-91 says "an edited budget number on the settings page turns
  into: the field IS the remaining budget, editable in place".
* `PaidOrRefunded` (MCServices.cfg +), `uptime_rewarder.py:183`: _resolve_pending
  takes a payout that is in the mempool for confirmed, and one found nowhere for
  lost; after a reorganisation the first may expire (the debit stands, nothing was
  paid) and the second be confirmed (paid and refunded). uptime_rewarder.py:176-179
  says it "is either confirmed or gone. 404-equivalent (never confirmed) refunds its
  amount back into the budget instead of silently losing it".
* `EveryPongUpdates` (MCNetworkPong.cfg), `peer_udp.py:314`: Once an address is set
  a PONG replaces it only after two peers of the pool have shown the same new one,
  and peers are hardly pinged again after their admission. discovery.py:20-22 says
  "Learned from the first PONG reply ... Also updated every time any PONG arrives".
* `NeverOurOwnPeer` (MCProgress.cfg +), `discovery.py:186`: The own address is
  excluded only if known when the candidates are flushed, and not at all for a
  punch_go: a node that pings itself before it has learned its address, or on behalf
  of a relay, is admitted to its own pool. discovery.py:184 says "Also exclude our
  own external address to avoid self-connection".
* `SoleWriter` (MCServices.cfg with Dirs = {d1, d2}), `main.py:170`: The lock file is
  "lapsecoin.lock" in the working directory, the database is what --db names: two
  launches from two directories with one database both run and both write it.
  main.py:176-178 says "Only one instance can run at a time, since it holds the
  same wallet key and chain database".
* `NoStartIsBlocked` (MCServices.cfg with NoLocking = {d1}), `singleton_lock.py:64`: acquire takes
  every OSError of flock, ENOLCK and an unsupported call included, for another
  instance, and the handler that fails open is never reached by it: on a file system
  without locks no start succeeds. main.py:166-169 says "it only refuses to
  start while another instance is *actually still alive and holding the lock*, and
  if the lock check itself fails for some unrelated reason (permissions, filesystem
  quirk), it fails open".
* `OnlyMissingIsResent` (MCProgress.cfg +), `peer_udp.py:690`: Each chunked send
  keeps one of the 16 executor threads waiting for its acknowledgement (lines 690
  and 702), and acknowledgements are handled by the same threads: a block relayed to
  16 peers or more (the pool holds up to 125) finds no thread for them and is sent
  again to everybody, with nothing lost. peer_udp.py:18 says "the sender resends
  only what's still missing".

Two remarks are out of date without a run: the comment at `syncer.py:27-28` says that
the transport "has no chunk-level retransmission", which it has by now; and `strike`
of `peerpool.py:141`, whose strikes and cooldowns `add`, `touch` and `random` look
at, is called by nothing.

## The proofs

TLAPS proves the following for every value of the constants. The assumptions are
named in the components' modules; those of components that MCNetwork and MCServices
instantiate are hypotheses of the theorems, and the composite modules assume them of
their instances, so that TLC evaluates them.

* **SumsTheorems** holds what the modules below share about sums over functions and
  about loops. Nothing here is an induction rule, which these provers cannot be given:
  `UpTo` says that a set of numbers that has 0 and every successor has them all
  (by its least missing number), and `Iterate` that steps on a set can be composed
  any number of times; what a recursive function computes is then read off the
  composition. For this the model's loops are recursive functions.
  **LedgerTheorems** adds what applying transactions does to a ledger.
* **ChainLedgerProofs** (from `LedgerAssumption`, `BoundsAssumption`): `LedgerTyped`,
  `SupplyConserved`, `SupplyNeverPassesCap`, `NoReplay` and `ReplayReachesTheLedger`,
  that is `[]TypeOK`, `[]Conservation`, `[]SupplyCapped`, `[]NonceHistory` and
  `[]ReplayAgrees` of ChainLedger. None is inductive alone. `LedgerInvariant` proves the
  strengthening: types; conservation for the accepted ledger *and*, minus the fees
  collected so far, for the probe; the cap for both; and the nonce history stated
  for the chain followed by the block under validation, against the probe. With it,
  `AcceptBlock` turns the probe's half into the ledger's half and `RejectBlock`
  falls back on the ledger's.
  `PagesShowAtMostPaid` (`[]RewardsShown`): by `MintInv` the first
  h blocks have minted what h rounds of the pages' loop count, so the ledger pays block h
  from the state after h - 1 rounds and the pages show it after h, and a reward only
  falls (`RewardFalls`). That they are not equal is the disagreement `ShownIsPaid`.
* **NodeProofs** (`LedgerAssumption`, `ChainAssumption`, `MempoolAssumption`,
  `NodeAssumption`): what the runs of MCNode check, for any addresses, transactions,
  malformed messages, picked blocks with or without stated iterations, bounds, and
  peers' chains whose heights follow (hypothesis `HeightsFollow`).
  - `NodeInvariant` proves the inductive invariant `NodeInv`: the chain states of the loop,
    of the cycle and of the view are *sound*, that is valid chains with the ledger
    and work a replay gives; a candidate on offer fits the tip; the pool fits its
    cap; every row is the block of our chain at its height; and while no write fails
    the database holds the whole chain, its ledger and nothing else. A chain adopted
    or a block picked is only checked where it differs from what is known
    (`_validate_tail` from the fork point, a block against the tip), so the core is
    that a chain which shares a valid prefix and is valid behind it is valid
    (`ValidTailJoin`), and that a replay continues where a ledger stands
    (`TailLedgerFacts`). The last is where the heights matter: from_chain skips every block
    of height 0 and validation applies it, so the two agree on a chain only if genesis is
    the one such block.
  - From it `NodeTypes` (`TypeOK`), `ChainStaysValid` (`ChainIsValid`), `RowsStayOurs`
    (`RowsAreOurBlocks`), `PoolStaysWithinCap` (`PoolWithinCap`), `RestartIsLossless`
    (`RestartLosesNothing`) and `OnlyBetterChains` (`ForkChoiceMonotone`). The last has two
    cases: a chain the fork choice prefers, or one more picked block that states no
    iterations and so adds no work.
  - `NodeKeepsADurableBestChain` (`DurableBestChain`): the node implements BestChain with
    `best` read from the database. A commit maps to `Extend`, an adopted chain to
    `Switch`, a crash and a restart to stutters; each operator of the abstract
    specification is first shown to be the node's (`DurableStates` and the lemmas
    before it).
  - `PickIsTheForkChoice` (`PickAgreesWithForkChoice`): all blocks of a pick have one parent
    and height, so they have the same required iterations; where they state them
    (our own candidate always does: `OfferRated`) they add equal work, and the smallest
    `tie_break_key` is what `is_better_than` prefers at the tip. Where one does not
    state them it is false (`PickNeverDiverges`).
  - `EvictionIsByRate` (`OnlyOutbidTxsAreEvicted`): `Outbid` relates the pool to the one a
    step started from: whatever has left was cheaper than something that came in.
    It survives each single `add` of a long series because rates, compared by cross
    products, are transitive.
  - `PendingStaysFresh` (`PendingIsFresh`), by `FreshInv`: it needs that while the VDF runs a
    moved tip is always a better one, because otherwise the tip could come back to
    the old chain with a pool that was never pruned for it.
  - `IndexStaysExact` (`IndexIsExact`), by `IndexInv`: the row of a transaction is its *first*
    block. An index that only grew would not do after a reorganisation; deleting the
    rows above the fork point is exact because of `first`.

  Hypotheses beside the assumptions. `OneKindOfFault`: not both failing writes and
  crashes; together they are the disagreement `gap` with a restart on top, which
  loads a chain with a hole. What is said of the database's contents (`RestartIsLossless`,
  `NodeKeepsADurableBestChain`, `IndexStaysExact`) is proved while no write fails, and `gap`
  shows that it cannot be had otherwise; `RowsStayOurs` is what remains.
  `HeightsFollow`: MCNodeZero.cfg shows that the theorems about database, replay and
  index are false without it; the pool's and the pick's rest on `NodeInv` and have it for
  that reason. `OutputsAreNumbers`: VDF outputs are natural numbers, so that ties can be compared.
* **HonestProofs** (NodeProofs' assumptions and the hypothesis `HonestWorld`):
  `OwnBlocksAreValid` (`[]OwnBlockIsValid`) and `ProbesNeverRaise` (`[]PendingIsAffordable`), which
  do not hold in general. `HonestWorld` says where they do: one transaction per sender
  and nonce, room for all in the mempool, chains that only extend ours by heights that follow, no expiry, a disk
  that works, candidates old enough for the timestamp rule, no packing that ends
  inside the seal. The process may crash, and messages may be malformed
  (they end a cycle, but spoil no candidate). The run `honest` checks a specification that
  states this world, so some state satisfies it; `stall` and `full` show that a
  world with reorganisations, or with blocks filled to the last byte, is not enough.
  `HonestInvariant` proves what carries both, `HonestInv`: each sender's pending transactions
  are a run of nonces without a gap above the ledger, and the balance pays each after
  those before it. A new block may confirm some of them, and pays others: `TxStep`,
  `BlockStep` and `SuffixStep` show that what stays pending can still be paid, because with
  one transaction per nonce a block can only confirm the run from below. The probe
  that judges a newcomer applies exactly the transactions before it (`ProbeStep`), so
  an accepted one extends the run; and the packing loop, which takes transactions of
  many senders in any order of rate, only ever stops a sender's run short (`PackingStep`).
* **RetargetProofs** (`LedgerAssumption`, `ChainAssumption`): `LookUpIsReplay`
  (`[]RateIsWindowHistory`) for every window length, pace and length of chain. `History`
  says that each block carries the rate that a walk over all windows from genesis gives
  its window; `WindowMedian` that the median the code takes of a window, the short first
  one without genesis included, is under the target exactly when the reference counts
  the window as fast; `LookUpIsHistory` that one window back is far enough. The median
  is defined by order statistics (`KthSmallest`), so that whether a window was fast is a
  count of quick blocks (`MedianUnder`) and nothing has to be said about sorting.
* **ServicesProofs** (`BridgeAssumption`, `ServicesAssumption`, which has those of the
  instances) is about the four worlds of MCServices.
  - Bridge: `AnswersAreTrue` (`[]ToldTheTruth`) and `NoncesInOrder` (`[]AcceptedInOrder`) for any
    number of threads and calls, from `BridgeInvariant`: each call is
    queued and judged once; every answer in a queue is the verdict on the queue's own
    call; the mempool holds what was accepted above the chain, so the nonce the loop
    accepts next is the number of those accepted plus one, while views and nonces the
    threads hold are at most that far.
  - Explorer: `ConfirmedIsKept` (`[]ConfirmedStaysConfirmed`). The invariant has two parts.
    `LoopInv` ties view, index and mempool to the chain by what the commit has still to
    do; `AnswersKept` says that what a look-up has read is of a chain the view has grown
    from, and that a look-up begun after somebody was told "confirmed" has found
    the transaction with the reads it has made. The order of `_commit`, the view last,
    is what `LoopInv` needs.
  - Payouts: `BooksStayBalanced` (`[]BooksBalance`). In the middle of a cycle the books do not
    balance: between the node's answer and the debit a payout is counted both as
    left and as paid. `BooksInv` follows the cycle step by step, and changes of one payout
    are changes of one term of the sum (`TotalMove`).
  - Startup: `OneDirectoryOneWriter` (`[]SoleWriter`) and `NoLockIsLeftBehind`. The first
    has as hypothesis that there is one directory, the second that locks work; both
    hypotheses are necessary, as the disagreements above show.
  - `ServicesAreSafe`: all of this holds of `WorldSpec`, the specification of the run, because a
    behaviour of the worlds is a behaviour of each component.
* **NetworkProofs** (`NetworkAssumption`, which has those of the instances):
  - Peers: `NoStaleInfo` (`[]InfoOnlyOfPeers`), `CapsHold` (`[]WithinCaps`),
    `TwoPeersMoveOurAddress` (`OnlyPeersMoveOurAddress`). The caps are invariant because `add`
    asks again under the lock, whatever a thread saw before its ping; the per-subnet
    cap has to be carried for every address and not only for those of peers.
  - `HandedOverOnce` (`[]DeliveredOnce`) and
    `AcknowledgedIsWhole` (`[]AckedMeansWhole`) for any messages, chunks, workers, losses,
    duplicates and rounds. The first allows one more delivery for each time the
    id was forgotten. The second assumes nothing of how long a send is tracked or a
    buffer kept: while a send is tracked, every chunk acknowledged to it is in the buffer, or
    the message was whole once, or the buffer was evicted half full (`dropped`). The
    exception is necessary (`AckedIsReassembled`).
  - `LimitIsTokenBucket` (`LikeTokenBucket`). The lazily
    refilled, pruned bucket is never above the ordinary one and equal to it up to the
    first refusal; a bucket that was pruned stands for a full one, for which the
    pruning age must be long enough to refill.
  - `LargeMessagesArrive` (`[]BulkArrives`) for all sizes from 2 to 533 chunks, with the code's own
    rates. `BulkInv`: the sender's bucket is never below the receiver's, so every chunk the
    receiver accepts is heard acknowledged; a full bucket admits 133 chunks in a row at
    the sender's pacing and each wait of 1.5 s refills 75 tokens, for 100 more; and until
    a chunk of this round is refused, the receiver's bucket has tokens for all that the later rounds
    have no room for. The bound is exact: with 534 chunks `BulkArrives` fails, as above.
  - `StemIsOnePath` (`[]OneStem`), by `StemInv`: before the submission nothing of the
    transaction is anywhere, so a stem begins once; whoever passes it on gives it
    away, and all else that is sent has no hops left.
  - `AdoptedIsThePeers` (`[]OnlyPeerChains`), by `SyncInv`: every block of a page in flight or
    fetched is one the peer had at some height, whichever request the page answers and
    however the peer has changed since. `LinkedIsPath` shows that blocks that name one
    another from the fork point on *are* the last of them, so the check of the links
    alone excludes a spliced chain; the proof uses neither the message ids nor the
    result of the search beyond its being a height.
  - `NetworkIsSafe`: the properties above that `network` and `progress` check hold of
    `WorldSpec`, their specification.

Every invariant and every safety action property of a passing run is stated by a theorem.
Only model-checked are liveness and what needs fairness, which TLAPS does not do
here: `ChainGrows`, the temporal properties of `progress` and `PayoutsAreSettled`.

## Not modelled

* Cryptography and the VDF are external: validity of a signature or proof is a
  Boolean, an output a constant function of previous hash and builder.
* The DHT, STUN-like services, HTTP fetches: an address heard of is an input.
* Message encoding, the forwarding of punch requests, chunk buffers of answers to
  GETSYNC (answers are whole messages in Download).
* In the database: the creation of the genesis row, the `tx_bytes` backfill,
  AddrIndex (written with TxIndex), Meta.
* The deadline of `assemble` (no caller passes one); a clock that moves backwards.
* The branch of the lock that fails open (`singleton_lock.py:67-77`): it is reached
  only by errors that are not OSErrors, which flock does not raise.
* A peer's block of height 0 names a builder of the model and stands on the block below
  it; in the code both may be anything.
* Sessions, templates, statistics, charts, the desktop window, the update check.
* Several complete nodes in one model: Node has its peers as an environment that
  sends any chain of a list, Download a peer that changes; three nodes with chains
  and mempools of their own are out of reach.

What a property leaves out on purpose: `BooksBalance` is about the time between cycles and
excludes edits, crashes, time-outs and reorganisations inside one, where `EditsAreKept` and
`PaidOrRefunded` fail; `BuffersAreFreed` is about a socket without other traffic;
`ReachesAll` about a mesh that is full in the end and transactions that do not expire;
`SoleWriter` about launches from one directory; `AcceptedInOrder` and the rest of Bridge
about one sender's wallet.

## Left of the plan

The choice among several peers in Download, which has one.
