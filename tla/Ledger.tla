------------------------------- MODULE Ledger -------------------------------
(***************************************************************************)
(* The balance ledger of src/state.py, the transaction checks of src/tx.py *)
(* and the builder's reward of src/chainstate.py, as operators on ledger   *)
(* records.  No state lives here: ChainLedger and Node do.                 *)
(*                                                                         *)
(* A transaction's output list is kept as what it pays each address in     *)
(* all: the order of the outputs, and whether an address appears once or   *)
(* twice, makes no difference to apply_tx.  "signed" stands for the checks *)
(* that read nothing but the transaction: required fields, positive        *)
(* outputs, address formats and the signature.                             *)
(***************************************************************************)
EXTENDS Integers, FiniteSets, SequencesExt, Sums

CONSTANTS Addr,         \* the addresses
          Txs,          \* the transactions anybody may submit
          SupplyCap,    \* params.SUPPLY_CAP
          DecayNum,     \* params.EMISSION_DECAY_NUMERATOR
          DecayDen,     \* params.EMISSION_DECAY_DENOMINATOR
          Raised        \* what an apply_tx that raised ValueError leaves behind

Transaction == [from   : Addr,
                outs   : [Addr -> Nat],
                fee    : Nat,
                nonce  : Nat,
                size   : Nat \ {0},
                signed : BOOLEAN]

LedgerState == [bal : [Addr -> Nat], nonce : [Addr -> Nat], minted : Nat]

ASSUME LedgerAssumption ==
  /\ IsFiniteSet(Addr)
  /\ Txs \subseteq Transaction
  /\ SupplyCap \in Nat
  /\ DecayNum \in Nat /\ DecayDen \in Nat \ {0} /\ DecayNum <= DecayDen
  /\ Raised \notin LedgerState

-----------------------------------------------------------------------------
(* state.py *)

EmptyLedger == [bal    |-> [a \in Addr |-> 0],
                nonce  |-> [a \in Addr |-> 0],
                minted |-> 0]

(* Mutant: the emission never runs out. *)
UncappedMint(minted) == SupplyCap

CanMint(minted) == IF minted >= SupplyCap THEN 0 ELSE SupplyCap - minted

Reward(minted) == (CanMint(minted) * DecayNum) \div DecayDen

Circulating(led) == Total(led.bal)

Credit(led, a, amount) == [led EXCEPT !.bal[a] = @ + amount]

(* What tx moves out of its sender's account: the outputs and the fee. *)
Cost(tx) == Total(tx.outs) + tx.fee

(* Debit, credits, nonce.  The debit raises when it would make the balance *)
(* negative; a ledger that raised stays raised.                            *)
ApplyTx(led, tx) ==
  IF led = Raised THEN Raised
  ELSE IF led.bal[tx.from] < Cost(tx) THEN Raised
  ELSE [led EXCEPT
          !.bal = [a \in Addr |-> (IF a = tx.from THEN @[a] - Cost(tx) ELSE @[a])
                                  + tx.outs[a]],
          !.nonce[tx.from] = tx.nonce]

-----------------------------------------------------------------------------
(* tx.py *)

(* Mutant: the balance is not looked at. *)
UnfundedTxValid(tx, led) == tx.signed /\ tx.nonce = led.nonce[tx.from] + 1

(* Mutant: any nonce the sender has not passed will do. *)
LooseNonceTxValid(tx, led) ==
  tx.signed /\ tx.nonce >= led.nonce[tx.from] /\ Cost(tx) <= led.bal[tx.from]

TxValid(tx, led) ==
  /\ tx.signed
  /\ tx.nonce = led.nonce[tx.from] + 1
  /\ Cost(tx) <= led.bal[tx.from]

-----------------------------------------------------------------------------
(* chainstate.py *)

(* Mutant: the builder forgets the fees. *)
FeelessReward(led, builder, fees) ==
  LET reward == Reward(led.minted)
  IN  [Credit(led, builder, reward) EXCEPT !.minted = @ + reward]

(* _apply_builder_reward: the fees of the block, which apply_tx took from  *)
(* the senders and gave to nobody, and the newly minted reward.            *)
BuilderReward(led, builder, fees) ==
  LET reward == Reward(led.minted)
  IN  [Credit(led, builder, fees + reward) EXCEPT !.minted = @ + reward]

(* block_fees. *)
Fees(txs) == Total([i \in DOMAIN txs |-> txs[i].fee])

(* Apply transactions in the listed order, unvalidated. *)
RunTxs(led, txs) ==
  LET after[i \in 0..Len(txs)] == IF i = 0 THEN led ELSE ApplyTx(after[i - 1], txs[i])
  IN  after[Len(txs)]

(* ChainState.apply_block, as far as the ledger goes. *)
AddBlock(led, blk) ==
  LET post == RunTxs(led, blk.txs)
  IN  IF post = Raised THEN Raised
      ELSE BuilderReward(post, blk.builder, Fees(blk.txs))

(* ChainState.from_chain: the ledger of the blocks that follow genesis. *)
Replay(blocks) ==
  LET led[i \in 0..Len(blocks)] ==
        IF i = 0 THEN EmptyLedger ELSE AddBlock(led[i - 1], blocks[i])
  IN  led[Len(blocks)]

=============================================================================
