-------------------------------- MODULE Chain --------------------------------
(***************************************************************************)
(* Blocks and chains: src/block.py and src/chainstate.py as operators.     *)
(*                                                                         *)
(* A chain is a sequence of blocks; the block of height h is chain[h+1].   *)
(* A block's hash stands for everything hashed into it, its parent's hash  *)
(* included, so it is the list of the contents from genesis to the block:  *)
(* two blocks have the same hash exactly when they and all their ancestors *)
(* are the same.  Timestamps only ever matter as differences between       *)
(* neighbours, so a block carries dt, the seconds since its parent.        *)
(* "sound" stands for the checks that read neither the ledger nor the rest *)
(* of the chain's content: the hash field matches, the timestamp is at     *)
(* most 30 s ahead of the clock, the builder is an address and the VDF     *)
(* proof verifies for (previous_hash, builder) and the claimed iterations. *)
(*                                                                         *)
(* A block may leave vdf_iterations out ("rated" says that it does not):   *)
(* the validation then takes the base rate and the fork choice no work.    *)
(* And a block may claim height 0 wherever it stands: nobody asks for its  *)
(* parent, its rate or its proof, so "claimed" is the VDF output it states *)
(* (only such a block's is looked at; any other proves VdfOutput).         *)
(***************************************************************************)
EXTENDS Ledger

CONSTANTS NoBuilder,        \* genesis.builder
          VdfIterations,    \* params.VDF_ITERATIONS
          AdjustInterval,   \* params.VDF_ADJUST_INTERVAL
          MinSeconds,       \* params.VDF_ADJUST_MIN_SECONDS
          FactorNum,        \* params.VDF_ADJUST_FACTOR
          FactorDen,        \*   as a fraction
          SkewSeconds,      \* params.TIMESTAMP_SKEW_SECONDS
          BlockLimit,       \* params.BLOCK_SIZE_LIMIT, less an empty block as
                            \*   create leaves it
          SealBytes,        \* what a block gains after it was packed: tx_bytes,
                            \*   the VDF output and its proof
          VdfOutput(_, _)   \* the VDF output for a previous hash and a builder

ASSUME ChainAssumption ==
  /\ NoBuilder \notin Addr
  /\ VdfIterations \in Nat \ {0}
  /\ AdjustInterval \in Nat \ {0}
  /\ MinSeconds \in Nat
  /\ FactorNum \in Nat /\ FactorDen \in Nat \ {0} /\ FactorDen <= FactorNum
  /\ SkewSeconds \in Nat
  /\ BlockLimit \in Nat /\ SealBytes \in Nat

Content == [height : Nat, txs : Seq(Txs), builder : Addr \cup {NoBuilder},
            iters : Nat, rated : BOOLEAN, claimed : Nat, dt : Nat, sound : BOOLEAN]

Hash == Seq(Content)

Block == [height : Nat, txs : Seq(Txs), builder : Addr \cup {NoBuilder},
          iters : Nat, rated : BOOLEAN, claimed : Nat, dt : Nat, sound : BOOLEAN,
          prev : Hash]

-----------------------------------------------------------------------------
(* block.py *)

HashOf(blk) ==
  Append(blk.prev, [height |-> blk.height, txs |-> blk.txs, builder |-> blk.builder,
                    iters |-> blk.iters, rated |-> blk.rated, claimed |-> blk.claimed,
                    dt |-> blk.dt, sound |-> blk.sound])

Genesis == [height |-> 0, txs |-> <<>>, builder |-> NoBuilder,
            iters |-> VdfIterations, rated |-> TRUE, claimed |-> 0,
            dt |-> 0, sound |-> TRUE, prev |-> <<>>]

(* get("vdf_iterations", VDF_ITERATIONS), as validation and retargeting    *)
(* read a block, and get("vdf_iterations", 0), as the fork choice does.    *)
DueRate(blk) == IF blk.rated THEN blk.iters ELSE VdfIterations
StatedRate(blk) == IF blk.rated THEN blk.iters ELSE 0

(* The k-th smallest element of a list: fewer than k elements are below it *)
(* and at least k are not above it.                                        *)
KthSmallest(list, k) ==
  CHOOSE v \in ToSet(list) :
    /\ Cardinality({i \in DOMAIN list : list[i] < v}) < k
    /\ Cardinality({i \in DOMAIN list : list[i] <= v}) >= k

(* Twice the median of a non-empty list: the mean of its two middle        *)
(* elements, which are the same one when the length is odd.                *)
TwiceMedian(list) ==
  LET n == Len(list)
  IN  KthSmallest(list, (n + 1) \div 2) + KthSmallest(list, (n + 2) \div 2)

(* Mutant: the first window counts a time for genesis. *)
IterationsCountingGenesis(chain) ==
  LET next == Len(chain)
      boundary == (next \div AdjustInterval) * AdjustInterval
      start == boundary - AdjustInterval
      prior == DueRate(chain[start + 1])
      deltas == [k \in 1..AdjustInterval |-> chain[start + k].dt]
  IN  IF next < AdjustInterval THEN VdfIterations
      ELSE IF next > boundary THEN DueRate(chain[boundary + 1])
      ELSE IF TwiceMedian(deltas) < 2 * MinSeconds
           THEN (prior * FactorNum) \div FactorDen
           ELSE prior

(* The iterations the block after chain must prove.                        *)
GetVdfIterations(chain) ==
  LET next == Len(chain)
      boundary == (next \div AdjustInterval) * AdjustInterval
      start == boundary - AdjustInterval
      first == IF start > 1 THEN start ELSE 1
      prior == DueRate(chain[start + 1])
      deltas == [k \in 1..(boundary - first) |-> chain[first + k].dt]
  IN  IF next < AdjustInterval THEN VdfIterations
      ELSE IF next > boundary THEN DueRate(chain[boundary + 1])
      ELSE IF deltas # <<>> /\ TwiceMedian(deltas) < 2 * MinSeconds
           THEN (prior * FactorNum) \div FactorDen
           ELSE prior

(* tie_break_key: the VDF output, which no choice of transactions changes. *)
TieKey(blk) == IF blk.height = 0 THEN blk.claimed ELSE VdfOutput(blk.prev, blk.builder)

Bytes(txs) == Total([i \in DOMAIN txs |-> txs[i].size])

(* validate up to the transactions: _check_hash, _check_parent,            *)
(* _check_timestamp, _check_builder_and_vdf and the size limit.            *)
HeaderOk(blk, chain) ==
  LET parent == Last(chain)
  IN  /\ Bytes(blk.txs) + SealBytes <= BlockLimit
      /\ blk.sound
      /\ blk.height = 0 \/ (blk.prev = HashOf(parent) /\ blk.height = parent.height + 1)
      /\ blk.dt >= SkewSeconds
      /\ blk.height = 0 \/ DueRate(blk) = GetVdfIterations(chain)

(* _apply_transactions: each one validated against what the ones before it *)
(* left, Raised standing for the rejection of the block.                   *)
ApplyTransactions(led, txs) ==
  LET step(l, tx) == IF l # Raised /\ TxValid(tx, l) THEN ApplyTx(l, tx) ELSE Raised
      after[i \in 0..Len(txs)] == IF i = 0 THEN led ELSE step(after[i - 1], txs[i])
  IN  after[Len(txs)]

Valid(blk, led, chain) ==
  /\ HeaderOk(blk, chain)
  /\ ApplyTransactions(led, blk.txs) \in LedgerState

(* A block on top of chain, as its builder makes it: create, then the VDF. *)
(* A body says what the builder put in it: extra is what it claims beyond  *)
(* the iterations the chain asks for, zero a claim of height 0.            *)
Forge(chain, body) ==
  [height  |-> IF body.zero THEN 0 ELSE Last(chain).height + 1,
   txs     |-> body.txs,
   builder |-> body.builder,
   iters   |-> IF body.rated THEN GetVdfIterations(chain) + body.extra ELSE 0,
   rated   |-> body.rated,
   claimed |-> IF body.zero THEN body.claimed ELSE 0,
   dt      |-> body.dt,
   sound   |-> body.sound,
   prev    |-> HashOf(Last(chain))]

-----------------------------------------------------------------------------
(* assemble.  Transactions are grouped by sender, each group sorted by     *)
(* nonce, the groups by the fee rate of their first transaction; a sender  *)
(* is left off at its first transaction that does not fit.  The size that  *)
(* counts is the skeleton's, before the VDF fields and tx_bytes are filled *)
(* in.  Where the code keeps the mempool's insertion order among equals,   *)
(* any order is allowed.                                                   *)

LowerRate(t, u) == t.fee * u.size < u.fee * t.size

Lead(order, sender) ==
  order[CHOOSE i \in DOMAIN order :
          /\ order[i].from = sender
          /\ \A j \in DOMAIN order : order[j].from = sender => i <= j]

(* Mutant: a sender's transactions in any order. *)
UnsortedOrder(order) ==
  \A i, j \in DOMAIN order : i < j /\ order[i].from = order[j].from =>
    \A k \in i..j : order[k].from = order[i].from

PackingOrder(order) ==
  \A i, j \in DOMAIN order : i < j =>
    IF order[i].from = order[j].from
    THEN /\ order[i].nonce <= order[j].nonce
         /\ \A k \in i..j : order[k].from = order[i].from
    ELSE ~LowerRate(Lead(order, order[i].from), Lead(order, order[j].from))

(* Mutant: no size limit. *)
PackAll(order) == order

Pack(order) ==
  LET step(acc, tx) ==
        IF tx.from \in acc.full THEN acc
        ELSE IF Bytes(acc.txs) + tx.size > BlockLimit
             THEN [acc EXCEPT !.full = @ \cup {tx.from}]
             ELSE [acc EXCEPT !.txs = Append(@, tx)]
      packed[i \in 0..Len(order)] ==
        IF i = 0 THEN [txs |-> <<>>, full |-> {}] ELSE step(packed[i - 1], order[i])
  IN  packed[Len(order)].txs

(* The transaction lists assemble may come up with for a set of pending    *)
(* transactions.                                                           *)
Packings(pending) == {Pack(order) : order \in {o \in SetToSeqs(pending) : PackingOrder(o)}}

-----------------------------------------------------------------------------
(* chainstate.py *)

(* _cumulative_iterations: a block of height 0 proves nothing. *)
Work(chain) ==
  Total([i \in DOMAIN chain |-> IF chain[i].height = 0 THEN 0 ELSE StatedRate(chain[i])])

(* The ledger after each block when the blocks before position "from" are  *)
(* replayed by from_chain, which skips what claims height 0, and the rest  *)
(* are applied by validate_and_apply, which does not.                      *)
TailLedger(chain, from) ==
  LET led[i \in 0..Len(chain)] ==
        IF i = 0 THEN EmptyLedger
        ELSE IF i < from /\ chain[i].height = 0 THEN led[i - 1]
        ELSE AddBlock(led[i - 1], chain[i])
  IN  led

(* The ledger from_chain comes to. *)
ReplayChain(chain) == TailLedger(chain, Len(chain) + 1)[Len(chain)]

FromChain(chain) ==
  [chain |-> chain, state |-> ReplayChain(chain), work |-> Work(chain)]

FromStorage(chain, stored) ==
  [chain |-> chain, state |-> stored, work |-> Work(chain)]

ApplyBlock(cs, blk) ==
  [chain |-> Append(cs.chain, blk),
   state |-> AddBlock(cs.state, blk),
   work  |-> cs.work + StatedRate(blk)]

(* is_better_than: more proven work, ties to the lower VDF output. *)
IsBetterThan(cs, other) ==
  \/ cs.work > other.work
  \/ /\ cs.work = other.work
     /\ TieKey(Last(cs.chain)) < TieKey(Last(other.chain))

(* node._validate_tail: the blocks from position "from" on, each validated *)
(* against the chain before it.                                            *)
ValidTail(chain, from) ==
  LET led == TailLedger(chain, from)
  IN  \A i \in from..Len(chain) : Valid(chain[i], led[i - 1], SubSeq(chain, 1, i - 1))

=============================================================================
