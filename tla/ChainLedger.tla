----------------------------- MODULE ChainLedger -----------------------------
(***************************************************************************)
(* ChainState.validate_and_apply, transaction by transaction.  A block is  *)
(* validated against a snapshot of the ledger (the probe): each listed     *)
(* transaction is validated against the probe as the ones before it left   *)
(* it and then applied to it.  One invalid transaction rejects the block   *)
(* and the probe is dropped; when all are applied the builder is credited  *)
(* and the probe becomes the chain's ledger.                               *)
(*                                                                         *)
(* Only what concerns the ledger is kept of a block, its builder and its   *)
(* transactions; module Chain has the rest.                                *)
(***************************************************************************)
EXTENDS Ledger

CONSTANTS MaxBlocks,    \* bound: how far the chain grows
          MaxBlockTxs   \* bound: transactions in one block

ASSUME BoundsAssumption == MaxBlocks \in Nat /\ MaxBlockTxs \in Nat

VARIABLES chain,   \* the accepted blocks after genesis: [builder, txs]
          state,   \* the ledger that belongs to chain
          probe,   \* the snapshot being worked on
          body,    \* the transactions of the block under validation applied so far
          phase    \* "idle", or "block" while a block is being validated

vars == <<chain, state, probe, body, phase>>

Init ==
  /\ chain = <<>>
  /\ state = EmptyLedger
  /\ probe = EmptyLedger
  /\ body = <<>>
  /\ phase = "idle"

(* probe = self.state.snapshot() *)
BeginBlock ==
  /\ phase = "idle"
  /\ Len(chain) < MaxBlocks
  /\ probe' = state
  /\ body' = <<>>
  /\ phase' = "block"
  /\ UNCHANGED <<chain, state>>

(* The block's next transaction is valid against the probe and is applied. *)
ApplyNext(tx) ==
  /\ phase = "block"
  /\ Len(body) < MaxBlockTxs
  /\ TxValid(tx, probe)
  /\ probe' = ApplyTx(probe, tx)
  /\ body' = Append(body, tx)
  /\ UNCHANGED <<chain, state, phase>>

(* Mutant: what the rejected block did so far stays. *)
KeepRejected(tx) ==
  /\ phase = "block"
  /\ ~TxValid(tx, probe)
  /\ state' = probe
  /\ phase' = "idle"
  /\ UNCHANGED <<chain, probe, body>>

(* The block's next transaction is invalid: the whole block is rejected.   *)
RejectBlock(tx) ==
  /\ phase = "block"
  /\ Len(body) < MaxBlockTxs
  /\ ~TxValid(tx, probe)
  /\ phase' = "idle"
  /\ probe' = state
  /\ body' = <<>>
  /\ UNCHANGED <<chain, state>>

(* _apply_block_with_state: reward the builder, append the block. *)
AcceptBlock(builder) ==
  /\ phase = "block"
  /\ state' = BuilderReward(probe, builder, Fees(body))
  /\ probe' = state'
  /\ chain' = Append(chain, [builder |-> builder, txs |-> body])
  /\ phase' = "idle"
  /\ body' = <<>>

Next ==
  \/ BeginBlock
  \/ \E tx \in Txs : ApplyNext(tx) \/ RejectBlock(tx)
  \/ \E a \in Addr : AcceptBlock(a)

Spec == Init /\ [][Next]_vars

-----------------------------------------------------------------------------

TypeOK ==
  /\ chain \in Seq([builder : Addr, txs : Seq(Txs)])
  /\ state \in LedgerState
  /\ probe \in LedgerState
  /\ body \in Seq(Txs)
  /\ phase \in {"idle", "block"}

(* No tick is created or lost: the balances add up to what the rewards     *)
(* minted.  Inside a block the fees are in nobody's account: they left the *)
(* senders with apply_tx and reach the builder with the reward, so the     *)
(* probe's balances fall short by exactly the fees of the block so far     *)
(* (state.apply_tx against chainstate._apply_builder_reward).              *)
Conservation ==
  /\ Circulating(state) = state.minted
  /\ phase = "block" => Circulating(probe) + Fees(body) = probe.minted

(* The emission never passes params.SUPPLY_CAP, however the reward rounds. *)
SupplyCapped == state.minted <= SupplyCap

Positions == UNION {{i} \X DOMAIN chain[i].txs : i \in DOMAIN chain}

TxAt(p) == chain[p[1]].txs[p[2]]

Earlier(p, q) == p[1] < q[1] \/ (p[1] = q[1] /\ p[2] < q[2])

(* Replay protection: the transactions a sender has on the chain carry the *)
(* nonces 1, 2, ... up to its ledger nonce, each once and in chain order,  *)
(* so no signed transaction can be confirmed twice (tx._check_nonce with   *)
(* state.apply_tx, over every block of the chain).                         *)
NonceHistory ==
  /\ \A p \in Positions : TxAt(p).nonce \in 1..state.nonce[TxAt(p).from]
  /\ \A p, q \in Positions :
       TxAt(p).from = TxAt(q).from /\ Earlier(p, q) => TxAt(p).nonce < TxAt(q).nonce
  /\ \A a \in Addr : \A n \in 1..state.nonce[a] :
       \E p \in Positions : TxAt(p).from = a /\ TxAt(p).nonce = n

(* The ledger a node reaches by validating block after block against       *)
(* probes, some of them rejected half-way, is the ledger from_chain        *)
(* rebuilds from the blocks alone, at startup and after a sync.            *)
ReplayAgrees == state = Replay(chain)

=============================================================================
