-------------------------- MODULE ChainLedgerProofs --------------------------
(***************************************************************************)
(* Proofs about ChainLedger, for every set of accounts, every set of       *)
(* transactions and every emission schedule: typing, conservation of the   *)
(* supply, the supply cap, replay protection, the ledger's agreement with  *)
(* a replay of the chain, and what the web pages make of the rewards.      *)
(***************************************************************************)
EXTENDS RewardPages, LedgerTheorems

-----------------------------------------------------------------------------
(* The invariant.  What Conservation and SupplyCapped lack to be inductive *)
(* is what the probe holds between the snapshot and the reward: it has     *)
(* minted nothing yet.                                                     *)

LedgerInv ==
  /\ TypeOK
  /\ Conservation
  /\ SupplyCapped
  /\ phase = "block" => probe.minted = state.minted

(* The fresh ledger is well-formed, conserved and under the cap.            *)
LEMMA LedgerInvInit == Init => LedgerInv
<1> SUFFICES ASSUME Init PROVE LedgerInv
  OBVIOUS
<1>1. /\ IsFiniteSet(Addr) /\ SupplyCap \in Nat
      /\ EmptyLedger \in LedgerState /\ EmptyLedger.minted = 0
      /\ EmptyLedger.bal \in [Addr -> Nat] /\ \A a \in Addr : EmptyLedger.bal[a] = 0
  BY LedgerAssumption DEF EmptyLedger, LedgerState
<1>2. Circulating(EmptyLedger) = 0
  BY <1>1, TotalZero DEF Circulating
<1> QED
  BY <1>1, <1>2 DEF Init, LedgerInv, TypeOK, Conservation, SupplyCapped

(* Every call keeps it so: what a transaction takes it gives back or leaves *)
(* as a fee, and a block pays out its fees and its reward and no more.     *)
LEMMA LedgerInvStep == LedgerInv /\ [Next]_vars => LedgerInv'
<1> SUFFICES ASSUME LedgerInv, [Next]_vars PROVE LedgerInv'
  OBVIOUS
<1> USE DEF LedgerInv, TypeOK, Conservation, SupplyCapped
<1>1. /\ state \in LedgerState /\ probe \in LedgerState
      /\ state.minted \in Nat /\ probe.minted \in Nat
      /\ Circulating(state) \in Nat /\ Circulating(probe) \in Nat
      /\ Fees(body) \in Nat
  <2>1. state.bal \in [Addr -> Nat] /\ probe.bal \in [Addr -> Nat]
    BY DEF LedgerState
  <2>2. Circulating(state) \in Nat /\ Circulating(probe) \in Nat
    BY <2>1, LedgerAssumption, UnitsFinite DEF Circulating
  <2> QED
    BY <2>2, FeesType DEF LedgerState
<1>2. CASE BeginBlock
  BY <1>1, <1>2, FeesEmpty DEF BeginBlock
<1>3. ASSUME NEW tx \in Txs, ApplyNext(tx)
      PROVE  LedgerInv'
  <2>1. /\ phase = "block" /\ phase' = "block" /\ TxValid(tx, probe)
        /\ probe' = ApplyTx(probe, tx) /\ body' = Append(body, tx)
        /\ chain' = chain /\ state' = state
    BY <1>3 DEF ApplyNext
  <2>2. /\ probe' \in LedgerState /\ probe'.minted = probe.minted
        /\ Circulating(probe') + tx.fee = Circulating(probe)
    BY <1>1, <2>1, ApplyTxFacts
  <2>3. body' \in Seq(Txs) /\ Fees(body') = Fees(body) + tx.fee
    BY <2>1, FeesAppend
  <2>4. tx.fee \in Nat /\ Circulating(probe') \in Nat
    <3>1. probe'.bal \in [Addr -> Nat]
      BY <2>2 DEF LedgerState
    <3> QED
      BY <3>1, CostType, LedgerAssumption, UnitsFinite DEF Circulating, Transaction
  <2>5. Circulating(probe') + Fees(body') = probe'.minted
    BY <1>1, <2>1, <2>2, <2>3, <2>4
  <2> QED
    BY <1>1, <2>1, <2>2, <2>3, <2>5
<1>4. ASSUME NEW tx \in Txs, RejectBlock(tx)
      PROVE  LedgerInv'
  BY <1>1, <1>4 DEF RejectBlock
<1>5. ASSUME NEW a \in Addr, AcceptBlock(a)
      PROVE  LedgerInv'
  <2>1. /\ phase = "block" /\ phase' = "idle"
        /\ state' = BuilderReward(probe, a, Fees(body)) /\ probe' = state'
        /\ chain' = Append(chain, [builder |-> a, txs |-> body]) /\ body' = <<>>
    BY <1>5 DEF AcceptBlock
  <2>2. /\ state' \in LedgerState
        /\ state'.minted = probe.minted + Reward(probe.minted)
        /\ Circulating(state')
             = Circulating(probe) + Fees(body) + Reward(probe.minted)
    BY <1>1, <2>1, BuilderRewardFacts
  <2>3. Reward(probe.minted) \in Nat /\ Reward(probe.minted) <= CanMint(probe.minted)
    BY <1>1, RewardBound
  <2>4. Circulating(state') = state'.minted
    BY <1>1, <2>1, <2>2, <2>3
  <2>5. state'.minted <= SupplyCap
    BY <1>1, <2>1, <2>2, <2>3, LedgerAssumption DEF CanMint
  <2>6. chain' \in Seq([builder : Addr, txs : Seq(Txs)])
    BY <2>1, AppendProperties
  <2> QED
    BY <2>1, <2>2, <2>4, <2>5, <2>6
<1>6. CASE UNCHANGED vars
  BY <1>6 DEF vars
<1> QED
  BY <1>2, <1>3, <1>4, <1>5, <1>6 DEF Next

(* The inductive invariant holds at every moment (ledger.py: apply_tx,      *)
(* mint, and block.py: validate_block between them).                       *)
THEOREM LedgerInvariant == Spec => []LedgerInv
<1> QED
  BY LedgerInvInit, LedgerInvStep, PTL DEF Spec

(* Every reachable ledger is well-formed: in particular no balance is ever *)
(* negative and no apply_tx ever raises on a validated transaction.        *)
THEOREM LedgerTyped == Spec => []TypeOK
<1>1. LedgerInv => TypeOK
  BY DEF LedgerInv
<1> QED
  BY <1>1, LedgerInvariant, PTL

(* Balances, plus the fees in flight inside a block, always add up to what *)
(* the rewards minted (state.apply_tx, chainstate._apply_builder_reward).  *)
THEOREM SupplyConserved == Spec => []Conservation
<1>1. LedgerInv => Conservation
  BY DEF LedgerInv
<1> QED
  BY <1>1, LedgerInvariant, PTL

(* The total minted never passes params.SUPPLY_CAP (state.compute_reward). *)
THEOREM SupplyNeverPassesCap == Spec => []SupplyCapped
<1>1. LedgerInv => SupplyCapped
  BY DEF LedgerInv
<1> QED
  BY <1>1, LedgerInvariant, PTL

-----------------------------------------------------------------------------
(* Replay protection.  The strengthening says of the block under           *)
(* validation what NonceHistory says of the chain: the transactions        *)
(* applied so far carry exactly the nonces by which the probe is ahead of  *)
(* the ledger.                                                             *)

BodyNonces ==
  phase = "block" =>
    /\ \A j \in DOMAIN body :
         body[j].nonce \in (state.nonce[body[j].from] + 1)..probe.nonce[body[j].from]
    /\ \A j, k \in DOMAIN body :
         body[j].from = body[k].from /\ j < k => body[j].nonce < body[k].nonce
    /\ \A a \in Addr : \A n \in (state.nonce[a] + 1)..probe.nonce[a] :
         \E j \in DOMAIN body : body[j].from = a /\ body[j].nonce = n
    /\ \A a \in Addr : state.nonce[a] <= probe.nonce[a]

NonceInv == NonceHistory /\ BodyNonces

(* A listed transaction has a sender and a nonce.                          *)
LEMMA ListedTxType ==
  ASSUME NEW txs \in Seq(Txs), NEW j \in DOMAIN txs
  PROVE  txs[j].from \in Addr /\ txs[j].nonce \in Nat
<1>1. txs[j] \in Txs
  BY ElementOfSeq, LenProperties
<1>2. txs[j] \in Transaction
  BY <1>1, CostType
<1> QED
  BY <1>2 DEF Transaction

(* One more transaction in the block keeps BodyNonces. *)
LEMMA BodyNoncesApply ==
  ASSUME TypeOK, BodyNonces, NEW tx \in Txs, ApplyNext(tx)
  PROVE  BodyNonces'
<1> DEFINE n == Len(body)
<1>1. /\ phase = "block" /\ TxValid(tx, probe) /\ state' = state
      /\ probe' = ApplyTx(probe, tx) /\ body' = Append(body, tx)
  BY DEF ApplyNext
<1>2. /\ state.nonce \in [Addr -> Nat] /\ probe.nonce \in [Addr -> Nat]
      /\ probe \in LedgerState /\ body \in Seq(Txs)
  BY DEF TypeOK, LedgerState
<1>3. tx.from \in Addr /\ tx.nonce \in Nat /\ tx.nonce = probe.nonce[tx.from] + 1
  BY <1>1, CostType DEF Transaction, TxValid
<1>4. probe'.nonce = [probe.nonce EXCEPT ![tx.from] = tx.nonce]
  BY <1>1, <1>2, ApplyTxFacts
<1>5. /\ n \in Nat /\ DOMAIN body = 1..n /\ DOMAIN body' = 1..(n + 1)
      /\ \A j \in 1..n : body'[j] = body[j]
      /\ body'[n + 1] = tx
  BY <1>1, <1>2, LenProperties, AppendProperties
<1>6. \A j \in 1..n : body[j].from \in Addr /\ body[j].nonce \in Nat
  BY <1>2, <1>5, ListedTxType
<1> HIDE DEF n
<1>7. \A j \in DOMAIN body' :
        body'[j].nonce \in (state'.nonce[body'[j].from] + 1)..probe'.nonce[body'[j].from]
  BY <1>1, <1>2, <1>3, <1>4, <1>5, <1>6 DEF BodyNonces
<1>8. \A j, k \in DOMAIN body' :
        body'[j].from = body'[k].from /\ j < k => body'[j].nonce < body'[k].nonce
  <2> SUFFICES ASSUME NEW j \in DOMAIN body', NEW k \in DOMAIN body',
                      body'[j].from = body'[k].from, j < k
               PROVE  body'[j].nonce < body'[k].nonce
    OBVIOUS
  <2>1. j \in 1..n /\ body'[j] = body[j]
    BY <1>5
  <2>2. CASE k = n + 1
    <3>1. body[j].from = tx.from /\ body[j].nonce <= probe.nonce[tx.from]
      BY <1>1, <1>2, <1>5, <1>6, <2>1, <2>2 DEF BodyNonces
    <3> QED
      BY <1>2, <1>3, <1>5, <1>6, <2>1, <2>2, <3>1
  <2>3. CASE k \in 1..n
    BY <1>1, <1>5, <2>1, <2>3 DEF BodyNonces
  <2> QED
    BY <1>5, <2>2, <2>3
<1>9. \A a \in Addr : \A m \in (state'.nonce[a] + 1)..probe'.nonce[a] :
        \E j \in DOMAIN body' : body'[j].from = a /\ body'[j].nonce = m
  <2> SUFFICES ASSUME NEW a \in Addr, NEW m \in (state'.nonce[a] + 1)..probe'.nonce[a]
               PROVE  \E j \in DOMAIN body' : body'[j].from = a /\ body'[j].nonce = m
    OBVIOUS
  <2>1. CASE a = tx.from /\ m = tx.nonce
    BY <1>5, <2>1
  <2>2. CASE ~(a = tx.from /\ m = tx.nonce)
    <3>1. m \in (state.nonce[a] + 1)..probe.nonce[a]
      BY <1>1, <1>2, <1>3, <1>4, <2>2
    <3>2. PICK j \in DOMAIN body : body[j].from = a /\ body[j].nonce = m
      BY <1>1, <3>1 DEF BodyNonces
    <3> QED
      BY <1>5, <3>2
  <2> QED
    BY <2>1, <2>2
<1>10. \A a \in Addr : state'.nonce[a] <= probe'.nonce[a]
  BY <1>1, <1>2, <1>3, <1>4 DEF BodyNonces
<1> QED
  BY <1>7, <1>8, <1>9, <1>10 DEF BodyNonces

(* An accepted block moves its nonces from the probe to the ledger. *)
LEMMA NonceHistoryAccept ==
  ASSUME TypeOK, NonceInv, NEW a \in Addr, AcceptBlock(a)
  PROVE  NonceHistory'
<1> DEFINE n == Len(chain)
<1>1. /\ phase = "block" /\ state' = BuilderReward(probe, a, Fees(body))
      /\ chain' = Append(chain, [builder |-> a, txs |-> body])
  BY DEF AcceptBlock
<1>2. /\ state.nonce \in [Addr -> Nat] /\ probe.nonce \in [Addr -> Nat]
      /\ probe \in LedgerState /\ body \in Seq(Txs)
      /\ chain \in Seq([builder : Addr, txs : Seq(Txs)])
  BY DEF TypeOK, LedgerState
<1>3. state'.nonce = probe.nonce
  BY <1>1, <1>2, FeesType, BuilderRewardFacts
<1>4. /\ n \in Nat /\ DOMAIN chain = 1..n /\ DOMAIN chain' = 1..(n + 1)
      /\ \A i \in 1..n : chain'[i] = chain[i]
      /\ chain'[n + 1].txs = body
  BY <1>1, <1>2, LenProperties, AppendProperties
<1>5. Len(body) \in Nat /\ DOMAIN body = 1..Len(body)
  BY <1>2, LenProperties
<1> HIDE DEF n
<1> DEFINE P == Positions
           Q == Positions'
           old == [p \in P |-> chain[p[1]].txs[p[2]]]
           new == [p \in Q |-> chain'[p[1]].txs[p[2]]]
<1>6. \A p \in Q :
        \/ p \in P /\ new[p] = old[p] /\ p[1] \in 1..n
        \/ p[1] = n + 1 /\ p[2] \in DOMAIN body /\ new[p] = body[p[2]]
  BY <1>4 DEF Positions
<1>7. \A p \in P : p \in Q /\ new[p] = old[p]
  BY <1>4 DEF Positions
<1>8. \A j \in DOMAIN body : \E p \in Q : new[p] = body[j]
  <2> SUFFICES ASSUME NEW j \in DOMAIN body
               PROVE  <<n + 1, j>> \in Q /\ new[<<n + 1, j>>] = body[j]
    OBVIOUS
  <2> QED
    BY <1>4 DEF Positions
<1>9. \A j \in DOMAIN body : body[j].from \in Addr /\ body[j].nonce \in Nat
  BY <1>2, ListedTxType
<1>10. \A p \in P : old[p].from \in Addr /\ old[p].nonce \in Nat /\ p[1] \in 1..n
  <2> SUFFICES ASSUME NEW p \in P
               PROVE  old[p].from \in Addr /\ old[p].nonce \in Nat /\ p[1] \in 1..n
    OBVIOUS
  <2>1. p[1] \in 1..n /\ p[2] \in DOMAIN chain[p[1]].txs
    BY <1>4 DEF Positions
  <2>2. chain[p[1]].txs \in Seq(Txs)
    <3>1. p[1] \in 1..Len(chain)
      BY <2>1 DEF n
    <3>2. chain[p[1]] \in [builder : Addr, txs : Seq(Txs)]
      BY <1>2, <3>1, ElementOfSeq
    <3> QED
      BY <3>2
  <2> QED
    BY <2>1, <2>2, ListedTxType
<1>11. /\ \A p \in P : old[p].nonce \in 1..state.nonce[old[p].from]
       /\ \A p, q \in P :
            old[p].from = old[q].from /\ Earlier(p, q) => old[p].nonce < old[q].nonce
       /\ \A b \in Addr : \A m \in 1..state.nonce[b] :
            \E p \in P : old[p].from = b /\ old[p].nonce = m
  BY DEF NonceInv, NonceHistory, TxAt
<1>12. /\ \A j \in DOMAIN body :
            body[j].nonce \in (state.nonce[body[j].from] + 1)..probe.nonce[body[j].from]
       /\ \A j, k \in DOMAIN body :
            body[j].from = body[k].from /\ j < k => body[j].nonce < body[k].nonce
       /\ \A b \in Addr : \A m \in (state.nonce[b] + 1)..probe.nonce[b] :
            \E j \in DOMAIN body : body[j].from = b /\ body[j].nonce = m
       /\ \A b \in Addr : state.nonce[b] <= probe.nonce[b]
  BY <1>1 DEF NonceInv, BodyNonces
<1> HIDE DEF P, Q, old, new
<1>13. \A p \in Q : new[p].nonce \in 1..probe.nonce[new[p].from]
  <2> SUFFICES ASSUME NEW p \in Q
               PROVE  new[p].nonce \in 1..probe.nonce[new[p].from]
    OBVIOUS
  <2>1. CASE p \in P /\ new[p] = old[p]
    BY <1>2, <1>10, <1>11, <1>12, <2>1
  <2>2. CASE p[2] \in DOMAIN body /\ new[p] = body[p[2]]
    <3> DEFINE f == body[p[2]].from
    <3>1. /\ f \in Addr /\ new[p].from = f
          /\ new[p].nonce \in (state.nonce[f] + 1)..probe.nonce[f]
      BY <1>9, <1>12, <2>2
    <3>2. state.nonce[f] \in Nat /\ probe.nonce[f] \in Nat
      BY <1>2, <3>1
    <3> HIDE DEF f
    <3> QED
      BY <3>1, <3>2
  <2> QED
    BY <1>6, <2>1, <2>2
<1>14. \A p, q \in Q :
         new[p].from = new[q].from /\ Earlier(p, q) => new[p].nonce < new[q].nonce
  <2> SUFFICES ASSUME NEW p \in Q, NEW q \in Q, new[p].from = new[q].from, Earlier(p, q)
               PROVE  new[p].nonce < new[q].nonce
    OBVIOUS
  <2>1. CASE q \in P /\ new[q] = old[q] /\ q[1] \in 1..n
    <3>1. p \in P /\ new[p] = old[p]
      BY <1>4, <1>6, <2>1 DEF Earlier
    <3> QED
      BY <1>11, <2>1, <3>1
  <2>2. CASE q[1] = n + 1 /\ q[2] \in DOMAIN body /\ new[q] = body[q[2]]
    <3>1. CASE p \in P /\ new[p] = old[p]
      <4> DEFINE f == old[p].from
      <4>1. /\ f \in Addr /\ old[p].nonce \in 1..state.nonce[f]
            /\ new[q].nonce \in (state.nonce[f] + 1)..probe.nonce[f]
        BY <1>10, <1>11, <1>12, <2>2, <3>1
      <4>2. state.nonce[f] \in Nat /\ probe.nonce[f] \in Nat
        BY <1>2, <4>1
      <4> HIDE DEF f
      <4> QED
        BY <3>1, <4>1, <4>2
    <3>2. CASE p[1] = n + 1 /\ p[2] \in DOMAIN body /\ new[p] = body[p[2]]
      <4>1. p[2] < q[2]
        BY <1>4, <2>2, <3>2 DEF Earlier
      <4> QED
        BY <1>12, <2>2, <3>2, <4>1
    <3> QED
      BY <1>6, <3>1, <3>2
  <2> QED
    BY <1>6, <2>1, <2>2
<1>15. \A b \in Addr : \A m \in 1..probe.nonce[b] :
         \E p \in Q : new[p].from = b /\ new[p].nonce = m
  <2> SUFFICES ASSUME NEW b \in Addr, NEW m \in 1..probe.nonce[b]
               PROVE  \E p \in Q : new[p].from = b /\ new[p].nonce = m
    OBVIOUS
  <2>1. CASE m \in 1..state.nonce[b]
    BY <1>7, <1>11, <2>1
  <2>2. CASE m \in (state.nonce[b] + 1)..probe.nonce[b]
    BY <1>8, <1>12, <2>2
  <2> QED
    BY <1>2, <2>1, <2>2
<1>16. \A p \in Q : new[p] = chain'[p[1]].txs[p[2]]
  BY DEF new
<1>17. Q = Positions'
  BY DEF Q
<1>18. \A p \in Positions' :
         chain'[p[1]].txs[p[2]].nonce \in 1..state'.nonce[chain'[p[1]].txs[p[2]].from]
  BY <1>3, <1>13, <1>16, <1>17, Zenon
<1>19. \A p, q \in Positions' :
         chain'[p[1]].txs[p[2]].from = chain'[q[1]].txs[q[2]].from /\ Earlier(p, q)
           => chain'[p[1]].txs[p[2]].nonce < chain'[q[1]].txs[q[2]].nonce
  BY <1>14, <1>16, <1>17, Zenon
<1>20. \A b \in Addr : \A m \in 1..state'.nonce[b] : \E p \in Positions' :
         chain'[p[1]].txs[p[2]].from = b /\ chain'[p[1]].txs[p[2]].nonce = m
  <2> SUFFICES ASSUME NEW b \in Addr, NEW m \in 1..probe.nonce[b]
               PROVE  \E p \in Q : chain'[p[1]].txs[p[2]].from = b
                                  /\ chain'[p[1]].txs[p[2]].nonce = m
    BY <1>3, <1>17
  <2>1. PICK p \in Q : new[p].from = b /\ new[p].nonce = m
    BY <1>15
  <2>2. chain'[p[1]].txs[p[2]].from = b /\ chain'[p[1]].txs[p[2]].nonce = m
    BY <2>1, <1>16
  <2> QED
    BY <2>2
<1> QED
  BY <1>18, <1>19, <1>20, Zenon DEF NonceHistory, TxAt

(* Every call keeps the history of nonces and that of the block at hand.   *)
LEMMA NonceInvStep == TypeOK /\ NonceInv /\ [Next]_vars => NonceInv'
<1> SUFFICES ASSUME TypeOK, NonceInv, [Next]_vars PROVE NonceInv'
  OBVIOUS
<1>1. ASSUME chain' = chain, state' = state
      PROVE  NonceHistory'
  <2>1. NonceHistory
    BY DEF NonceInv
  <2>2. Positions' = Positions
    BY <1>1 DEF Positions
  <2> QED
    BY <1>1, <2>1, <2>2, SMTT(30) DEF NonceHistory, TxAt
<1>2. CASE BeginBlock
  <2>1. /\ chain' = chain /\ state' = state /\ body' = <<>> /\ probe' = state
        /\ \A a \in Addr : state.nonce[a] \in Nat
    BY <1>2 DEF BeginBlock, TypeOK, LedgerState
  <2>2. BodyNonces'
    BY <2>1 DEF BodyNonces
  <2> QED
    BY <1>1, <2>1, <2>2 DEF NonceInv
<1>3. ASSUME NEW tx \in Txs, ApplyNext(tx)
      PROVE  NonceInv'
  <2>1. chain' = chain /\ state' = state
    BY <1>3 DEF ApplyNext
  <2> QED
    BY <1>1, <1>3, <2>1, BodyNoncesApply DEF NonceInv
<1>4. ASSUME NEW tx \in Txs, RejectBlock(tx)
      PROVE  NonceInv'
  <2>1. chain' = chain /\ state' = state /\ phase' = "idle"
    BY <1>4 DEF RejectBlock
  <2> QED
    BY <1>1, <2>1 DEF NonceInv, BodyNonces
<1>5. ASSUME NEW a \in Addr, AcceptBlock(a)
      PROVE  NonceInv'
  <2>1. phase' = "idle"
    BY <1>5 DEF AcceptBlock
  <2>2. BodyNonces'
    BY <2>1 DEF BodyNonces
  <2> QED
    BY <1>5, <2>2, NonceHistoryAccept DEF NonceInv
<1>6. CASE UNCHANGED vars
  <2>1. /\ chain' = chain /\ state' = state /\ probe' = probe
        /\ body' = body /\ phase' = phase
    BY <1>6 DEF vars
  <2>2. BodyNonces'
    BY <2>1 DEF NonceInv, BodyNonces
  <2> QED
    BY <1>1, <2>1, <2>2 DEF NonceInv
<1> QED
  BY <1>2, <1>3, <1>4, <1>5, <1>6 DEF Next

(* No signed transaction is ever confirmed twice: a sender's transactions  *)
(* on the chain carry each nonce up to its ledger nonce exactly once, in   *)
(* order (tx._check_nonce, state.apply_tx).                                *)
THEOREM NoReplay == Spec => []NonceHistory
<1>1. Init => NonceInv
  BY DEF Init, EmptyLedger, NonceInv, NonceHistory, BodyNonces, Positions, TxAt
<1>2. NonceInv => NonceHistory
  BY DEF NonceInv
<1> QED
  BY <1>1, <1>2, LedgerTyped, NonceInvStep, PTL DEF Spec

-----------------------------------------------------------------------------
(* The two ways to a ledger.  The strengthening: inside a block the probe  *)
(* is what the transactions applied so far make of the ledger.             *)

ReplayInv ==
  /\ ReplayAgrees
  /\ phase = "block" => probe = RunTxs(state, body)

(* Every call keeps the ledger the one its blocks replay to.               *)
LEMMA ReplayInvStep == TypeOK /\ ReplayInv /\ [Next]_vars => ReplayInv'
<1> SUFFICES ASSUME TypeOK, ReplayInv, [Next]_vars PROVE ReplayInv'
  OBVIOUS
<1> USE DEF ReplayInv, ReplayAgrees
<1>1. /\ state \in Ledgers /\ probe \in LedgerState /\ probe # Raised
      /\ body \in Seq(Txs) /\ chain \in Seq([builder : Addr, txs : Seq(Txs)])
  BY LedgerAssumption DEF TypeOK, Ledgers
<1>2. CASE BeginBlock
  BY <1>1, <1>2, RunTxsEmpty DEF BeginBlock
<1>3. ASSUME NEW tx \in Txs, ApplyNext(tx)
      PROVE  ReplayInv'
  <2>1. /\ phase = "block" /\ probe' = ApplyTx(probe, tx) /\ body' = Append(body, tx)
        /\ chain' = chain /\ state' = state
    BY <1>3 DEF ApplyNext
  <2>2. RunTxs(state, Append(body, tx)) = ApplyTx(RunTxs(state, body), tx)
    BY <1>1, RunTxsAppend
  <2> QED
    BY <2>1, <2>2
<1>4. ASSUME NEW tx \in Txs, RejectBlock(tx)
      PROVE  ReplayInv'
  BY <1>4 DEF RejectBlock
<1>5. ASSUME NEW a \in Addr, AcceptBlock(a)
      PROVE  ReplayInv'
  <2> DEFINE blk == [builder |-> a, txs |-> body]
  <2>1. /\ phase = "block" /\ state' = BuilderReward(probe, a, Fees(body))
        /\ chain' = Append(chain, blk) /\ phase' = "idle"
    BY <1>5 DEF AcceptBlock
  <2>2. blk \in [builder : Addr, txs : Seq(Txs)] /\ blk.txs = body /\ blk.builder = a
    BY <1>1
  <2> HIDE DEF blk
  <2>3. Replay(Append(chain, blk)) = AddBlock(state, blk)
    <3>1. \A b \in [builder : Addr, txs : Seq(Txs)] : b.txs \in Seq(Txs)
      OBVIOUS
    <3> QED
      BY <1>1, <2>2, <3>1, ReplayAppend
  <2>4. AddBlock(state, blk) = BuilderReward(probe, a, Fees(body))
    BY <1>1, <2>1, <2>2 DEF AddBlock
  <2> QED
    BY <2>1, <2>3, <2>4
<1>6. CASE UNCHANGED vars
  BY <1>6 DEF vars
<1> QED
  BY <1>2, <1>3, <1>4, <1>5, <1>6 DEF Next

(* Validating block after block, rejected ones included, and replaying the *)
(* accepted blocks from an empty ledger lead to the same ledger            *)
(* (ChainState.validate_and_apply against ChainState.from_chain).          *)
THEOREM ReplayReachesTheLedger == Spec => []ReplayAgrees
<1>1. Init => ReplayInv
  BY ReplayEmpty DEF Init, ReplayInv, ReplayAgrees
<1>2. ReplayInv => ReplayAgrees
  BY DEF ReplayInv
<1> QED
  BY <1>1, <1>2, LedgerTyped, ReplayInvStep, PTL DEF Spec

-----------------------------------------------------------------------------
(* The rewards that the pages show. *)

(* A reward is never more when more has been minted.                       *)
LEMMA RewardFalls ==
  ASSUME NEW low \in Nat, NEW high \in Nat, low <= high
  PROVE  Reward(high) <= Reward(low)
<1> DEFINE c == CanMint(high)
           e == CanMint(low)
<1>1. /\ SupplyCap \in Nat /\ DecayNum \in Nat /\ DecayDen \in Nat /\ DecayDen > 0
  BY LedgerAssumption
<1>2. c \in Nat /\ e \in Nat /\ c <= e
  BY <1>1 DEF CanMint
<1> HIDE DEF c, e
<1>3. PICK k \in Nat : e = c + k
  <2>1. e - c \in Nat /\ e = c + (e - c)
    BY <1>2
  <2> QED
    BY <2>1
<1>4. e * DecayNum = c * DecayNum + k * DecayNum /\ k * DecayNum \in Nat /\ c * DecayNum \in Nat
  BY <1>1, <1>2, <1>3
<1>5. \A x, y \in Nat : x <= y => x \div DecayDen <= y \div DecayDen
  BY <1>1
<1>6. c * DecayNum <= e * DecayNum /\ e * DecayNum \in Nat
  <2> DEFINE p == c * DecayNum
             q == k * DecayNum
  <2>1. p \in Nat /\ q \in Nat /\ e * DecayNum = p + q
    BY <1>4
  <2> HIDE DEF p, q
  <2>2. p <= p + q /\ p + q \in Nat
    BY <2>1
  <2> QED
    BY <2>1, <2>2 DEF p
<1>7. (c * DecayNum) \div DecayDen <= (e * DecayNum) \div DecayDen
  BY <1>4, <1>5, <1>6
<1> QED
  BY <1>7 DEF Reward, c, e

(* The pages' count of the minted ticks goes one round further at a time.  *)
LEMMA CountedSteps ==
  /\ Counted \in [Nat -> Nat]
  /\ Counted[0] = 0
  /\ \A n \in Nat : Counted[n + 1] = Counted[n] + Reward(Counted[n])
<1> DEFINE G == [x \in Nat |-> x + Reward(x)]
           Good(m, f) == f[0] = 0 /\ \A i \in 1..m : f[i] = G[f[i - 1]]
           F(m) == CHOOSE f \in [0..m -> Nat] : Good(m, f)
           g == [n \in Nat |-> F(n)[n]]
<1>1. G \in [Nat -> Nat] /\ \A x \in Nat : G[x] = x + Reward(x)
  BY RewardBound
<1> HIDE DEF G
<1>2. ASSUME NEW m \in Nat
      PROVE  F(m) \in [0..m -> Nat] /\ Good(m, F(m))
  <2> DEFINE H == [i \in 1..m |-> G]
  <2>1. H \in [1..m -> [Nat -> Nat]]
    BY <1>1
  <2>2. PICK f \in [0..m -> Nat] : f[0] = 0 /\ \A i \in 1..m : f[i] = H[i][f[i - 1]]
    <3> HIDE DEF H
    <3> DEFINE L == Nat
    <3>1. m \in Nat /\ 0 \in L /\ H \in [1..m -> [L -> L]]
      BY <2>1
    <3> HIDE DEF L
    <3>2. \E f \in [0..m -> L] : f[0] = 0 /\ \A i \in 1..m : f[i] = H[i][f[i - 1]]
      BY <3>1, Iterate
    <3> QED
      BY <3>2 DEF L
  <2>3. Good(m, f)
    BY <2>2
  <2> HIDE DEF Good
  <2> QED
    BY <2>3
<1>3. ASSUME NEW m \in Nat, NEW p \in [0..m -> Nat], Good(m, p),
             NEW q \in [0..(m + 1) -> Nat], Good(m + 1, q)
      PROVE  p[m] = q[m]
  <2> DEFINE S == {i \in 0..m : p[i] = q[i]}
  <2>1. 0 \in S
    BY <1>3
  <2>2. \A i \in 1..m : i - 1 \in S => i \in S
    <3> SUFFICES ASSUME NEW i \in 1..m, i - 1 \in S
                 PROVE  i \in S
      OBVIOUS
    <3>1. p[i] = G[p[i - 1]] /\ q[i] = G[q[i - 1]] /\ p[i - 1] = q[i - 1]
      BY <1>3
    <3> QED
      BY <3>1
  <2> HIDE DEF S
  <2>3. 0..m \subseteq S
    BY <2>1, <2>2, UpTo
  <2>4. m \in 0..m
    OBVIOUS
  <2> QED
    BY <2>3, <2>4 DEF S
<1>4. g \in [Nat -> Nat]
  <2>1. \A n \in Nat : F(n)[n] \in Nat
    <3> SUFFICES ASSUME NEW n \in Nat PROVE F(n)[n] \in Nat
      OBVIOUS
    <3> HIDE DEF F
    <3>1. F(n) \in [0..n -> Nat] /\ n \in 0..n
      BY <1>2
    <3> QED
      BY <3>1
  <2> HIDE DEF F
  <2> QED
    BY <2>1
<1>5. g[0] = 0
  <2>1. Good(0, F(0))
    BY <1>2
  <2>2. F(0)[0] = 0
    BY <2>1
  <2> HIDE DEF F
  <2> QED
    BY <2>2
<1>6. ASSUME NEW n \in Nat
      PROVE  g[n + 1] = g[n] + Reward(g[n])
  <2>1. F(n) \in [0..n -> Nat] /\ Good(n, F(n))
    BY <1>2
  <2>2. F(n + 1) \in [0..(n + 1) -> Nat] /\ Good(n + 1, F(n + 1))
    <3>1. n + 1 \in Nat
      OBVIOUS
    <3> HIDE DEF F, Good
    <3> QED
      BY <1>2, <3>1
  <2> HIDE DEF F
  <2>3. F(n)[n] = F(n + 1)[n]
    <3> HIDE DEF Good
    <3> QED
      BY <1>3, <2>1, <2>2
  <2>4. F(n + 1)[n + 1] = G[F(n + 1)[n]]
    <3>1. n + 1 \in 1..(n + 1) /\ (n + 1) - 1 = n
      OBVIOUS
    <3> QED
      BY <2>2, <3>1
  <2>5. g[n] = F(n)[n] /\ g[n + 1] = F(n + 1)[n + 1] /\ g[n] \in Nat
    BY <1>4
  <2> HIDE DEF g
  <2> QED
    BY <1>1, <2>3, <2>4, <2>5
<1> HIDE DEF g, F, Good
<1>7. g = [n \in Nat |-> IF n = 0 THEN 0 ELSE g[n - 1] + Reward(g[n - 1])]
  <2> DEFINE h == [n \in Nat |-> IF n = 0 THEN 0 ELSE g[n - 1] + Reward(g[n - 1])]
  <2>1. \A n \in Nat : g[n] = h[n]
    <3> SUFFICES ASSUME NEW n \in Nat PROVE g[n] = h[n]
      OBVIOUS
    <3>1. CASE n = 0
      BY <1>5, <3>1
    <3>2. CASE n # 0
      <4>1. n - 1 \in Nat /\ (n - 1) + 1 = n
        BY <3>2
      <4>2. g[(n - 1) + 1] = g[n - 1] + Reward(g[n - 1])
        BY <1>6, <4>1
      <4> QED
        BY <3>2, <4>1, <4>2
    <3> QED
      BY <3>1, <3>2
  <2>2. g = h
    <3>1. DOMAIN h = Nat /\ h = [n \in Nat |-> h[n]] /\ g = [n \in Nat |-> g[n]]
      BY <1>4
    <3> HIDE DEF h
    <3> QED
      BY <2>1, <3>1
  <2> QED
    BY <2>2
<1> DEFINE Is(f) == f = [n \in Nat |-> IF n = 0 THEN 0 ELSE f[n - 1] + Reward(f[n - 1])]
           counted == CHOOSE f : Is(f)
<1>8. Counted = counted
  BY DEF Counted
<1>9. Is(counted)
  <2>1. Is(g)
    BY <1>7
  <2> HIDE DEF Is
  <2> QED
    BY <2>1
<1>10. /\ DOMAIN Counted = Nat
       /\ \A n \in Nat : Counted[n] = IF n = 0 THEN 0 ELSE Counted[n - 1] + Reward(Counted[n - 1])
  <2> HIDE DEF counted
  <2>1. counted = [n \in Nat |-> IF n = 0 THEN 0 ELSE counted[n - 1] + Reward(counted[n - 1])]
    BY <1>9
  <2> HIDE DEF Is
  <2>2. /\ DOMAIN counted = Nat
        /\ \A n \in Nat :
             counted[n] = IF n = 0 THEN 0 ELSE counted[n - 1] + Reward(counted[n - 1])
    BY <2>1
  <2> QED
    BY <1>8, <2>2
<1>11. Counted[0] = 0
  BY <1>10
<1>12. ASSUME NEW n \in Nat
       PROVE  Counted[n + 1] = Counted[n] + Reward(Counted[n])
  <2>1. n + 1 \in Nat /\ n + 1 # 0 /\ (n + 1) - 1 = n
    OBVIOUS
  <2> QED
    BY <1>10, <2>1
<1>13. ASSUME NEW n \in Nat
       PROVE  Counted[n] \in Nat
  <2> DEFINE S == {i \in 0..n : Counted[i] \in Nat}
  <2>1. 0 \in S
    BY <1>11
  <2>2. \A i \in 1..n : i - 1 \in S => i \in S
    <3> SUFFICES ASSUME NEW i \in 1..n, i - 1 \in S
                 PROVE  i \in S
      OBVIOUS
    <3>1. i - 1 \in Nat /\ (i - 1) + 1 = i /\ Counted[i - 1] \in Nat
      OBVIOUS
    <3>2. Counted[i] = Counted[i - 1] + Reward(Counted[i - 1])
      BY <1>12, <3>1
    <3>3. Reward(Counted[i - 1]) \in Nat
      BY <3>1, RewardBound
    <3> QED
      BY <3>1, <3>2, <3>3
  <2> HIDE DEF S
  <2>3. 0..n \subseteq S
    BY <2>1, <2>2, UpTo
  <2>4. n \in 0..n
    OBVIOUS
  <2> QED
    BY <2>3, <2>4 DEF S
<1>14. Counted = [n \in Nat |-> Counted[n]]
  <2> HIDE DEF counted
  <2>1. counted = [n \in Nat |-> IF n = 0 THEN 0 ELSE counted[n - 1] + Reward(counted[n - 1])]
    BY <1>9
  <2> HIDE DEF Is
  <2>2. counted = [n \in Nat |-> counted[n]]
    BY <2>1
  <2> QED
    BY <1>8, <2>2
<1> QED
  BY <1>11, <1>12, <1>13, <1>14

(* After each block the ledger has minted what the pages count up to it.   *)
MintInv == \A h \in 0..Len(chain) : MintedBy(h) = Counted[h]

(* A block mints the reward that the pages' next round adds.               *)
LEMMA MintInvStep ==
  LedgerInv /\ LedgerInv' /\ ReplayAgrees /\ ReplayAgrees' /\ MintInv /\ [Next]_vars => MintInv'
<1> SUFFICES ASSUME LedgerInv, LedgerInv', ReplayAgrees, ReplayAgrees', MintInv, [Next]_vars
             PROVE  MintInv'
  OBVIOUS
<1>1. ASSUME chain' = chain
      PROVE  MintInv'
  BY <1>1 DEF MintInv, MintedBy
<1>2. ASSUME NEW a \in Addr, AcceptBlock(a)
      PROVE  MintInv'
  <2> DEFINE blk == [builder |-> a, txs |-> body]
             n == Len(chain)
             B == [builder : Addr, txs : Seq(Txs)]
  <2>1. /\ phase = "block" /\ state' = BuilderReward(probe, a, Fees(body))
        /\ chain' = Append(chain, blk)
    BY <1>2 DEF AcceptBlock
  <2>2. /\ probe \in LedgerState /\ state \in LedgerState /\ body \in Seq(Txs)
        /\ chain \in Seq(B) /\ blk \in B /\ probe.minted = state.minted
    BY <2>1 DEF LedgerInv, TypeOK
  <2>3. state'.minted = state.minted + Reward(state.minted)
    BY <2>1, <2>2, FeesType, BuilderRewardFacts
  <2> HIDE DEF blk, B
  <2>4. n \in Nat /\ Len(chain') = n + 1 /\ chain' \in Seq(B)
    BY <2>1, <2>2, AppendProperties, LenProperties
  <2>5. SubSeq(chain, 1, n) = chain /\ SubSeq(chain', 1, n + 1) = chain'
    BY <2>2, <2>4, SubSeqFull
  <2>6. ASSUME NEW h \in 0..n
        PROVE  SubSeq(chain', 1, h) = SubSeq(chain, 1, h)
    <3> DEFINE p == SubSeq(chain, 1, h)
               q == SubSeq(chain', 1, h)
    <3>1. h \in Nat /\ h <= n /\ h - 1 + 1 = h /\ 1 \in 1..(n + 1)
      BY <2>4
    <3>2. \A i \in 1..n : chain'[i] = chain[i]
      BY <2>1, <2>2, AppendProperties
    <3>3. CASE h = 0
      <4>1. p = <<>> /\ q = <<>>
        BY <3>3, SubSeqEmpty
      <4> QED
        BY <4>1
    <3>4. CASE h # 0
      <4>1. h \in 1..n /\ h \in 1..(n + 1)
        BY <2>4, <3>1, <3>4
      <4>2. /\ p \in Seq(B) /\ Len(p) = h /\ \A i \in 1..h : p[i] = chain[i]
        <5>1. \A i \in 1..(h - 1 + 1) : p[i] = chain[1 + i - 1]
          BY <2>2, <2>4, <4>1, SubSeqProperties
        <5>2. p \in Seq(B) /\ Len(p) = h
          BY <2>2, <2>4, <4>1, SubSeqProperties
        <5> HIDE DEF p
        <5> QED
          BY <3>1, <5>1, <5>2
      <4>3. /\ q \in Seq(B) /\ Len(q) = h /\ \A i \in 1..h : q[i] = chain'[i]
        <5>1. \A i \in 1..(h - 1 + 1) : q[i] = chain'[1 + i - 1]
          BY <2>2, <2>4, <4>1, SubSeqProperties
        <5>2. q \in Seq(B) /\ Len(q) = h
          BY <2>2, <2>4, <4>1, SubSeqProperties
        <5> HIDE DEF q
        <5> QED
          BY <3>1, <5>1, <5>2
      <4> HIDE DEF p, q
      <4>4. \A i \in 1..Len(p) : p[i] = q[i]
        BY <3>2, <4>1, <4>2, <4>3
      <4>5. p = q
        BY <4>2, <4>3, <4>4, SeqEqual
      <4> QED
        BY <4>5 DEF p, q
    <3> QED
      BY <3>3, <3>4
  <2>7. MintedBy(n) = state.minted
    BY <2>5 DEF MintedBy, ReplayAgrees
  <2>8. state.minted = Counted[n]
    BY <2>4, <2>7 DEF MintInv
  <2>9. Counted[n + 1] = Counted[n] + Reward(Counted[n])
    BY <2>4, CountedSteps
  <2>10. Replay(chain') = state'
    BY DEF ReplayAgrees
  <2>11. ASSUME NEW h \in 0..(n + 1)
         PROVE  Replay(SubSeq(chain', 1, h)).minted = Counted[h]
    <3>1. CASE h = n + 1
      BY <2>3, <2>5, <2>8, <2>9, <2>10, <3>1
    <3>2. CASE h \in 0..n
      BY <2>6, <3>2 DEF MintInv, MintedBy
    <3> QED
      BY <2>4, <3>1, <3>2
  <2> HIDE DEF n
  <2> QED
    BY <2>4, <2>11 DEF MintInv, MintedBy
<1> QED
  BY <1>1, <1>2 DEF Next, BeginBlock, ApplyNext, RejectBlock, vars

(* The two pages agree, and neither shows a builder more than it was paid,  *)
(* on every chain: the ledger has minted what the loops count up to the    *)
(* block before, the pages what they count up to the block itself          *)
(* (api.py: _block_reward, _get_mined_blocks_for_addr; chainstate.py:      *)
(* _apply_builder_reward).                                                 *)
THEOREM PagesShowAtMostPaid == Spec => []RewardsShown
<1>1. Init => MintInv
  <2> SUFFICES ASSUME Init PROVE MintInv
    OBVIOUS
  <2>1. chain = <<>> /\ Len(chain) = 0
    BY DEF Init
  <2>2. SubSeq(chain, 1, 0) = <<>>
    BY SubSeqEmpty
  <2>3. MintedBy(0) = 0
    <3>1. MintedBy(0) = Replay(<<>>).minted
      BY <2>2, Zenon DEF MintedBy
    <3>2. EmptyLedger.minted = 0
      BY DEF EmptyLedger
    <3> QED
      BY <3>1, <3>2, ReplayEmpty, Zenon
  <2> QED
    BY <2>1, <2>3, CountedSteps DEF MintInv
<1>2. LedgerInv /\ MintInv => ShowsAtMostPaid
  <2> SUFFICES ASSUME LedgerInv, MintInv, NEW h \in DOMAIN chain
               PROVE  ShownOnBlockPage(h) <= Paid(h)
    BY DEF ShowsAtMostPaid
  <2>1. /\ h \in 1..Len(chain) /\ Len(chain) \in Nat /\ chain[h].txs \in Seq(Txs)
    <3>1. chain \in Seq([builder : Addr, txs : Seq(Txs)])
      BY DEF LedgerInv, TypeOK
    <3>2. Len(chain) \in Nat /\ DOMAIN chain = 1..Len(chain)
      BY <3>1, LenProperties
    <3>3. chain[h] \in [builder : Addr, txs : Seq(Txs)]
      BY <3>1, <3>2, ElementOfSeq
    <3> QED
      BY <3>2, <3>3
  <2>2. Fees(chain[h].txs) \in Nat
    BY <2>1, FeesType
  <2>3. /\ h - 1 \in Nat /\ h \in Nat /\ (h - 1) + 1 = h
        /\ h \in 0..Len(chain) /\ h - 1 \in 0..Len(chain)
    BY <2>1
  <2>4. /\ Counted[h - 1] \in Nat /\ Counted[h] \in Nat
        /\ Counted[h] = Counted[h - 1] + Reward(Counted[h - 1])
    BY <2>3, CountedSteps
  <2>5. MintedBy(h) = Counted[h] /\ MintedBy(h - 1) = Counted[h - 1]
    BY <2>3 DEF MintInv
  <2>6. /\ Reward(Counted[h - 1]) \in Nat /\ Reward(Counted[h]) \in Nat
    BY <2>4, RewardBound
  <2>7. Reward(Counted[h]) <= Reward(Counted[h - 1])
    BY <2>4, <2>6, RewardFalls
  <2>8. Paid(h) = Counted[h] - Counted[h - 1] + Fees(chain[h].txs)
    BY <2>5 DEF Paid
  <2>9. ShownOnBlockPage(h) = Reward(Counted[h]) + Fees(chain[h].txs)
    BY DEF ShownOnBlockPage
  <2> QED
    BY <2>2, <2>4, <2>6, <2>7, <2>8, <2>9
<1>3. PagesAgree
  BY DEF PagesAgree, MinedBlocks, ShownOnBlockPage, RoundsBefore
<1> QED
  BY <1>1, <1>2, <1>3, LedgerInvariant, ReplayReachesTheLedger, MintInvStep, PTL
  DEF Spec, RewardsShown

=============================================================================
