---------------------------- MODULE LedgerTheorems ----------------------------
(***************************************************************************)
(* Facts about the ledgers that transactions and blocks lead to (module    *)
(* Ledger), for every set of accounts, every set of transactions and every *)
(* schedule of the emission.                                               *)
(***************************************************************************)
EXTENDS Ledger, SumsTheorems

-----------------------------------------------------------------------------
(* The operators of module Ledger. *)

(* A transaction moves a natural number of ticks out of its sender. *)
LEMMA CostType ==
  ASSUME NEW tx \in Txs
  PROVE  /\ tx \in Transaction
         /\ Total(tx.outs) \in Nat
         /\ Cost(tx) = Total(tx.outs) + tx.fee
         /\ Cost(tx) \in Nat
<1>1. tx \in Transaction /\ IsFiniteSet(Addr)
  BY LedgerAssumption
<1>2. tx.outs \in [Addr -> Nat] /\ tx.fee \in Nat
  BY <1>1 DEF Transaction
<1>3. Total(tx.outs) \in Nat
  BY <1>1, <1>2, UnitsFinite
<1> QED
  BY <1>1, <1>2, <1>3 DEF Cost

(* compute_reward never pays more than what is left to mint. *)
LEMMA RewardBound ==
  ASSUME NEW minted \in Nat
  PROVE  /\ Reward(minted) \in Nat
         /\ Reward(minted) <= CanMint(minted)
<1> DEFINE c == CanMint(minted)
<1>1. /\ SupplyCap \in Nat /\ DecayNum \in Nat /\ DecayDen \in Nat
      /\ DecayDen > 0 /\ DecayNum <= DecayDen
  BY LedgerAssumption
<1>2. c \in Nat
  BY <1>1 DEF CanMint
<1> HIDE DEF c
<1>3. c * DecayNum \in Nat /\ c * DecayNum <= c * DecayDen
  BY <1>1, <1>2
<1>4. (c * DecayNum) \div DecayDen \in Nat /\ (c * DecayNum) \div DecayDen <= c
  BY <1>1, <1>2, <1>3
<1> QED
  BY <1>4 DEF Reward, c

(* A credit raises the circulating supply by its amount. *)
LEMMA CreditFacts ==
  ASSUME NEW led \in LedgerState, NEW a \in Addr, NEW amount \in Nat
  PROVE  /\ Credit(led, a, amount) \in LedgerState
         /\ Credit(led, a, amount).nonce = led.nonce
         /\ Credit(led, a, amount).minted = led.minted
         /\ Circulating(Credit(led, a, amount)) = Circulating(led) + amount
<1> DEFINE new == [led.bal EXCEPT ![a] = @ + amount]
<1>1. /\ led.bal \in [Addr -> Nat] /\ new \in [Addr -> Nat]
      /\ Credit(led, a, amount).bal = new
      /\ new[a] = led.bal[a] + amount
      /\ \A x \in Addr : x # a => new[x] = led.bal[x]
  BY DEF LedgerState, Credit
<1> HIDE DEF new
<1>2. Total(new) = Total(led.bal) + amount
  BY <1>1, LedgerAssumption, TotalOneChange
<1> QED
  BY <1>1, <1>2 DEF LedgerState, Credit, Circulating

(* Applying a valid transaction keeps the ledger well-formed and takes     *)
(* exactly its fee out of circulation.                                     *)
LEMMA ApplyTxFacts ==
  ASSUME NEW led \in LedgerState, NEW tx \in Txs, TxValid(tx, led)
  PROVE  /\ ApplyTx(led, tx) \in LedgerState
         /\ ApplyTx(led, tx).minted = led.minted
         /\ ApplyTx(led, tx).nonce = [led.nonce EXCEPT ![tx.from] = tx.nonce]
         /\ Circulating(ApplyTx(led, tx)) + tx.fee = Circulating(led)
<1> DEFINE mid == [a \in Addr |-> IF a = tx.from THEN led.bal[a] - Cost(tx)
                                                 ELSE led.bal[a]]
           new == [a \in Addr |-> mid[a] + tx.outs[a]]
<1>1. /\ tx.from \in Addr /\ tx.nonce \in Nat /\ tx.fee \in Nat
      /\ tx.outs \in [Addr -> Nat]
      /\ Total(tx.outs) \in Nat
      /\ Cost(tx) = Total(tx.outs) + tx.fee
      /\ Cost(tx) \in Nat
  BY CostType DEF Transaction
<1>2. /\ led.bal \in [Addr -> Nat] /\ led.nonce \in [Addr -> Nat] /\ led.minted \in Nat
      /\ led # Raised
  BY LedgerAssumption DEF LedgerState
<1>3. Cost(tx) <= led.bal[tx.from]
  BY DEF TxValid
<1>4. mid \in [Addr -> Nat] /\ new \in [Addr -> Nat]
  BY <1>1, <1>2, <1>3
<1>5. /\ ApplyTx(led, tx) \in LedgerState
      /\ ApplyTx(led, tx).bal = new
      /\ ApplyTx(led, tx).nonce = [led.nonce EXCEPT ![tx.from] = tx.nonce]
      /\ ApplyTx(led, tx).minted = led.minted
  <2>1. ~(led.bal[tx.from] < Cost(tx))
    BY <1>1, <1>2, <1>3
  <2>2. ApplyTx(led, tx)
          = [bal |-> new, nonce |-> [led.nonce EXCEPT ![tx.from] = tx.nonce],
             minted |-> led.minted]
    BY <1>2, <2>1 DEF ApplyTx, LedgerState
  <2> QED
    BY <1>1, <1>2, <1>4, <2>2 DEF LedgerState
<1>6. /\ led.bal[tx.from] = mid[tx.from] + Cost(tx)
      /\ \A a \in Addr : a # tx.from => led.bal[a] = mid[a]
  BY <1>1, <1>2, <1>3
<1> HIDE DEF mid
<1>7. Total(led.bal) = Total(mid) + Cost(tx)
  <2>1. IsFiniteSet(Addr)
    BY LedgerAssumption
  <2> QED
    BY <1>1, <1>2, <1>4, <1>6, <2>1, TotalOneChange
<1>8. Total(new) = Total(mid) + Total(tx.outs)
  BY <1>1, <1>4, LedgerAssumption, TotalPointwise
<1>9. Total(mid) \in Nat
  BY <1>4, LedgerAssumption, UnitsFinite
<1> HIDE DEF new
<1>10. Total(new) + tx.fee = Total(led.bal)
  BY <1>1, <1>7, <1>8, <1>9
<1> QED
  BY <1>5, <1>10 DEF Circulating

(* The fees of an empty block are zero; one more transaction adds its fee. *)
LEMMA FeesEmpty == Fees(<<>>) = 0
<1> DEFINE f == [i \in DOMAIN <<>> |-> <<>>[i].fee]
<1>1. f \in [{} -> Nat]
  OBVIOUS
<1>2. \A x \in {} : f[x] = 0
  OBVIOUS
<1> HIDE DEF f
<1>3. Total(f) = 0
  BY <1>1, <1>2, TotalZero
<1> QED
  BY <1>3 DEF Fees, f

(* Fees are a natural number.                                              *)
LEMMA FeesType ==
  ASSUME NEW txs \in Seq(Txs)
  PROVE  Fees(txs) \in Nat
<1> DEFINE f == [i \in 1..Len(txs) |-> txs[i].fee]
<1>1. Len(txs) \in Nat /\ DOMAIN txs = 1..Len(txs)
  BY LenProperties
<1>2. IsFiniteSet(1..Len(txs))
  BY <1>1, FS_Interval
<1>3. f \in [1..Len(txs) -> Nat]
  <2> SUFFICES ASSUME NEW i \in 1..Len(txs)
               PROVE  txs[i].fee \in Nat
    OBVIOUS
  <2>1. txs[i] \in Txs
    BY ElementOfSeq
  <2> QED
    BY <2>1, CostType DEF Transaction
<1> HIDE DEF f
<1>4. Total(f) \in Nat
  BY <1>2, <1>3, UnitsFinite
<1> QED
  BY <1>1, <1>4 DEF Fees, f

(* One more transaction adds its fee.                                      *)
LEMMA FeesAppend ==
  ASSUME NEW txs \in Seq(Txs), NEW tx \in Txs
  PROVE  Fees(Append(txs, tx)) = Fees(txs) + tx.fee
<1> DEFINE n == Len(txs)
           f == [i \in 1..(n + 1) |-> Append(txs, tx)[i].fee]
           g == [i \in 1..n |-> txs[i].fee]
<1>1. /\ n \in Nat /\ DOMAIN txs = 1..n
      /\ DOMAIN Append(txs, tx) = 1..(n + 1)
      /\ \A i \in 1..n : Append(txs, tx)[i] = txs[i]
      /\ Append(txs, tx)[n + 1] = tx
  BY LenProperties, AppendProperties
<1>2. \A i \in 1..n : txs[i].fee \in Nat
  BY <1>1, ElementOfSeq, CostType DEF Transaction
<1>3. tx.fee \in Nat
  BY CostType DEF Transaction
<1>4. /\ g \in [1..n -> Nat]
      /\ f \in [1..(n + 1) -> Nat]
      /\ \A i \in 1..n : g[i] = f[i]
      /\ f[n + 1] = tx.fee
  BY <1>1, <1>2, <1>3
<1>5. Fees(Append(txs, tx)) = Total(f) /\ Fees(txs) = Total(g)
  BY <1>1 DEF Fees
<1> HIDE DEF f, g, n
<1>6. Total(f) = Total(g) + f[n + 1]
  BY <1>1, <1>4, TotalAppend
<1> QED
  BY <1>4, <1>5, <1>6

(* The builder's reward puts the fees back and adds the minted reward. *)
LEMMA BuilderRewardFacts ==
  ASSUME NEW led \in LedgerState, NEW a \in Addr, NEW fees \in Nat
  PROVE  LET new == BuilderReward(led, a, fees)
         IN  /\ new \in LedgerState
             /\ new.nonce = led.nonce
             /\ new.minted = led.minted + Reward(led.minted)
             /\ Circulating(new) = Circulating(led) + fees + Reward(led.minted)
<1> DEFINE r == Reward(led.minted)
           cred == Credit(led, a, fees + r)
<1>1. led.minted \in Nat /\ r \in Nat
  BY RewardBound DEF LedgerState
<1>2. /\ cred \in LedgerState /\ cred.nonce = led.nonce /\ cred.minted = led.minted
      /\ Circulating(cred) = Circulating(led) + (fees + r)
  BY <1>1, CreditFacts
<1>3. BuilderReward(led, a, fees) = [cred EXCEPT !.minted = @ + r]
  BY DEF BuilderReward
<1> HIDE DEF r, cred
<1>4. led.bal \in [Addr -> Nat]
  BY DEF LedgerState
<1>5. Circulating(led) \in Nat
  BY <1>4, LedgerAssumption, UnitsFinite DEF Circulating
<1>6. /\ BuilderReward(led, a, fees) \in LedgerState
      /\ BuilderReward(led, a, fees).nonce = led.nonce
      /\ BuilderReward(led, a, fees).minted = led.minted + r
      /\ Circulating(BuilderReward(led, a, fees)) = Circulating(led) + fees + r
  BY <1>1, <1>2, <1>3, <1>5 DEF LedgerState, Circulating
<1> QED
  BY <1>6 DEF r

-----------------------------------------------------------------------------
(* Lists of transactions, and blocks. *)

(* A ledger, or the mark an apply_tx that raised leaves. *)
Ledgers == LedgerState \cup {Raised}

(* Any steps on ledgers can be composed.                                   *)
LEMMA LedgerSteps ==
  \A led \in Ledgers : \A m \in Nat : \A G \in [1..m -> [Ledgers -> Ledgers]] :
    \E f \in [0..m -> Ledgers] : f[0] = led /\ \A i \in 1..m : f[i] = G[i][f[i - 1]]
<1> SUFFICES ASSUME NEW led \in Ledgers
             PROVE  \A m \in Nat : \A G \in [1..m -> [Ledgers -> Ledgers]] :
                      \E f \in [0..m -> Ledgers] :
                        f[0] = led /\ \A i \in 1..m : f[i] = G[i][f[i - 1]]
  OBVIOUS
<1> QED
  BY Iterate

(* apply_tx raises or leaves a well-formed ledger, whatever it is given.   *)
LEMMA ApplyTxType ==
  ASSUME NEW led \in Ledgers, NEW tx \in Txs
  PROVE  ApplyTx(led, tx) \in Ledgers
<1>1. CASE led = Raised \/ led.bal[tx.from] < Cost(tx)
  BY <1>1 DEF ApplyTx, Ledgers
<1>2. CASE led # Raised /\ ~(led.bal[tx.from] < Cost(tx))
  <2> DEFINE bal == [a \in Addr |-> (IF a = tx.from THEN led.bal[a] - Cost(tx)
                                                     ELSE led.bal[a]) + tx.outs[a]]
             nonce == [led.nonce EXCEPT ![tx.from] = tx.nonce]
  <2>1. led \in LedgerState /\ led.bal \in [Addr -> Nat] /\ led.nonce \in [Addr -> Nat]
    BY <1>2 DEF LedgerState, Ledgers
  <2>2. /\ tx.from \in Addr /\ tx.outs \in [Addr -> Nat] /\ tx.nonce \in Nat
        /\ Cost(tx) \in Nat
    BY CostType DEF Transaction
  <2>3. bal \in [Addr -> Nat] /\ nonce \in [Addr -> Nat]
    BY <1>2, <2>1, <2>2
  <2>4. ApplyTx(led, tx) = [bal |-> bal, nonce |-> nonce, minted |-> led.minted]
    BY <1>2, <2>1, Zenon DEF ApplyTx, LedgerState
  <2> HIDE DEF bal, nonce
  <2> QED
    BY <2>1, <2>3, <2>4 DEF LedgerState, Ledgers
<1> QED
  BY <1>1, <1>2

(* The ledgers that RunTxs goes through. *)
LEMMA RunTxsSteps ==
  ASSUME NEW led \in Ledgers, NEW txs \in Seq(Txs)
  PROVE  \E f \in [0..Len(txs) -> Ledgers] :
           /\ f[0] = led
           /\ \A i \in 1..Len(txs) : f[i] = ApplyTx(f[i - 1], txs[i])
           /\ f[Len(txs)] = RunTxs(led, txs)
<1> DEFINE n == Len(txs)
           H == [i \in 1..n |-> [l \in Ledgers |-> ApplyTx(l, txs[i])]]
           Run(g) == [i \in 0..n |-> IF i = 0 THEN led ELSE ApplyTx(g[i - 1], txs[i])]
<1>1. n \in Nat /\ \A i \in 1..n : txs[i] \in Txs
  BY ElementOfSeq, LenProperties
<1>2. H \in [1..n -> [Ledgers -> Ledgers]]
  BY <1>1, ApplyTxType
<1> HIDE DEF n
<1>3. PICK f \in [0..n -> Ledgers] : f[0] = led /\ \A i \in 1..n : f[i] = H[i][f[i - 1]]
  <2> HIDE DEF H
  <2> QED
    BY <1>1, <1>2, LedgerSteps, Zenon
<1>4. ASSUME NEW i \in 1..n
      PROVE  f[i] = ApplyTx(f[i - 1], txs[i])
  <2>1. f[i] = H[i][f[i - 1]] /\ f[i - 1] \in Ledgers
    BY <1>1, <1>3
  <2> QED
    BY <2>1
<1>5. f = Run(f)
  BY <1>1, <1>3, <1>4
<1> DEFINE after == CHOOSE g : g = Run(g)
<1>6. after = Run(after)
  BY <1>5
<1>7. RunTxs(led, txs) = after[n]
  BY DEF RunTxs, n
<1> HIDE DEF after
<1>8. /\ after[0] = led
      /\ \A i \in 1..n : after[i] = ApplyTx(after[i - 1], txs[i])
  BY <1>1, <1>6
<1>9. after \in [0..n -> Ledgers]
  <2> DEFINE S == {i \in 0..n : after[i] \in Ledgers}
  <2>1. 0 \in S /\ \A i \in 1..n : i - 1 \in S => i \in S
    BY <1>1, <1>8, ApplyTxType
  <2> HIDE DEF S
  <2>2. 0..n \subseteq S
    BY <1>1, <2>1, UpTo
  <2> QED
    BY <1>6, <2>2 DEF S
<1> QED
  BY <1>7, <1>8, <1>9 DEF n

(* No transaction leaves the ledger as it is, and one more is applied last. *)
LEMMA RunTxsEmpty ==
  ASSUME NEW led \in Ledgers
  PROVE  RunTxs(led, <<>>) = led
<1> DEFINE none == <<>>
<1>1. none \in Seq(Txs) /\ Len(none) = 0
  OBVIOUS
<1> HIDE DEF none
<1>2. \E f \in [0..Len(none) -> Ledgers] : f[0] = led /\ f[Len(none)] = RunTxs(led, none)
  BY <1>1, RunTxsSteps
<1>3. RunTxs(led, none) = led
  BY <1>1, <1>2
<1> QED
  BY <1>3 DEF none

(* One more transaction is applied last.                                   *)
LEMMA RunTxsAppend ==
  ASSUME NEW led \in Ledgers, NEW txs \in Seq(Txs), NEW tx \in Txs
  PROVE  /\ RunTxs(led, txs) \in Ledgers
         /\ RunTxs(led, Append(txs, tx)) = ApplyTx(RunTxs(led, txs), tx)
<1> DEFINE n == Len(txs)
           more == Append(txs, tx)
<1>1. /\ n \in Nat /\ more \in Seq(Txs) /\ Len(more) = n + 1
      /\ \A i \in 1..n : more[i] = txs[i]
      /\ more[n + 1] = tx
  BY LenProperties, AppendProperties
<1> HIDE DEF n, more
<1>2. PICK f \in [0..n -> Ledgers] :
        /\ f[0] = led
        /\ \A i \in 1..n : f[i] = ApplyTx(f[i - 1], txs[i])
        /\ f[n] = RunTxs(led, txs)
  BY RunTxsSteps DEF n
<1>3. PICK g \in [0..(n + 1) -> Ledgers] :
        /\ g[0] = led
        /\ \A i \in 1..(n + 1) : g[i] = ApplyTx(g[i - 1], more[i])
        /\ g[n + 1] = RunTxs(led, more)
  <2>1. \E g \in [0..Len(more) -> Ledgers] :
          /\ g[0] = led
          /\ \A i \in 1..Len(more) : g[i] = ApplyTx(g[i - 1], more[i])
          /\ g[Len(more)] = RunTxs(led, more)
    BY <1>1, RunTxsSteps
  <2> QED
    BY <1>1, <2>1
<1>4. f[n] = g[n]
  <2> DEFINE S == {i \in 0..n : f[i] = g[i]}
  <2>1. 0 \in S /\ \A i \in 1..n : i - 1 \in S => i \in S
    BY <1>1, <1>2, <1>3
  <2> HIDE DEF S
  <2>2. 0..n \subseteq S
    BY <1>1, <2>1, UpTo
  <2> QED
    BY <1>1, <2>2 DEF S
<1> QED
  BY <1>1, <1>2, <1>3, <1>4 DEF more

(* Applying a list of transactions leaves a ledger, or raises.             *)
LEMMA RunTxsType ==
  ASSUME NEW led \in Ledgers, NEW txs \in Seq(Txs)
  PROVE  RunTxs(led, txs) \in Ledgers
<1>1. Len(txs) \in Nat
  BY LenProperties
<1>2. PICK f \in [0..Len(txs) -> Ledgers] : f[Len(txs)] = RunTxs(led, txs)
  BY RunTxsSteps
<1> QED
  BY <1>1, <1>2

(* apply_block raises or leaves a well-formed ledger.  A builder who is    *)
(* nobody's account is paid nothing.                                       *)
LEMMA AddBlockType ==
  ASSUME NEW led \in Ledgers, NEW blk, blk.txs \in Seq(Txs)
  PROVE  /\ AddBlock(led, blk) \in Ledgers
         /\ RunTxs(led, blk.txs) \in LedgerState => AddBlock(led, blk) \in LedgerState
<1> DEFINE post == RunTxs(led, blk.txs)
           fees == Fees(blk.txs)
<1>1. post \in Ledgers /\ fees \in Nat
  BY RunTxsType, FeesType
<1> HIDE DEF post, fees
<1>2. AddBlock(led, blk) = IF post = Raised THEN Raised ELSE BuilderReward(post, blk.builder, fees)
  BY DEF AddBlock, post, fees
<1>3. ASSUME post \in LedgerState
      PROVE  BuilderReward(post, blk.builder, fees) \in LedgerState
  <2> DEFINE a == blk.builder
             r == Reward(post.minted)
             cred == Credit(post, a, fees + r)
  <2>1. CASE a \in Addr
    BY <1>1, <1>3, <2>1, BuilderRewardFacts
  <2>2. CASE a \notin Addr
    <3>1. /\ post.bal \in [Addr -> Nat] /\ post.nonce \in [Addr -> Nat]
          /\ post.minted \in Nat /\ r \in Nat
      BY <1>3, RewardBound DEF LedgerState
    <3>2. [post.bal EXCEPT ![a] = @ + (fees + r)] = post.bal
      BY <2>2, <3>1
    <3>3. cred = [post EXCEPT !.bal = post.bal]
      BY <3>2 DEF Credit
    <3>4. cred \in LedgerState /\ cred.minted = post.minted
      BY <1>3, <3>1, <3>3 DEF LedgerState
    <3>5. BuilderReward(post, a, fees) = [cred EXCEPT !.minted = @ + r]
      BY DEF BuilderReward
    <3> HIDE DEF a, r, cred
    <3>6. /\ cred = [bal |-> cred.bal, nonce |-> cred.nonce, minted |-> cred.minted]
          /\ cred.bal \in [Addr -> Nat] /\ cred.nonce \in [Addr -> Nat]
          /\ cred.minted + r \in Nat
      BY <3>1, <3>4 DEF LedgerState
    <3>7. BuilderReward(post, a, fees)
            = [bal |-> cred.bal, nonce |-> cred.nonce, minted |-> cred.minted + r]
      BY <3>5, <3>6, Zenon
    <3>8. BuilderReward(post, a, fees) \in LedgerState
      BY <3>6, <3>7 DEF LedgerState
    <3> QED
      BY <3>8 DEF a
  <2> QED
    BY <2>1, <2>2
<1> QED
  BY <1>1, <1>2, <1>3, LedgerAssumption DEF Ledgers, post

(* The ledgers that Replay goes through. *)
LEMMA ReplaySteps ==
  ASSUME NEW B, \A b \in B : b.txs \in Seq(Txs), NEW blocks \in Seq(B)
  PROVE  \E f \in [0..Len(blocks) -> Ledgers] :
           /\ f[0] = EmptyLedger
           /\ \A i \in 1..Len(blocks) : f[i] = AddBlock(f[i - 1], blocks[i])
           /\ f[Len(blocks)] = Replay(blocks)
<1> DEFINE n == Len(blocks)
           e == EmptyLedger
           H == [i \in 1..n |-> [l \in Ledgers |-> AddBlock(l, blocks[i])]]
           Run(g) == [i \in 0..n |-> IF i = 0 THEN e ELSE AddBlock(g[i - 1], blocks[i])]
<1>1. n \in Nat /\ \A i \in 1..n : blocks[i].txs \in Seq(Txs)
  BY ElementOfSeq, LenProperties
<1>2. e \in Ledgers
  BY DEF EmptyLedger, Ledgers, LedgerState
<1>3. H \in [1..n -> [Ledgers -> Ledgers]]
  BY <1>1, AddBlockType
<1> HIDE DEF n
<1>4. PICK f \in [0..n -> Ledgers] : f[0] = e /\ \A i \in 1..n : f[i] = H[i][f[i - 1]]
  <2> HIDE DEF H, e
  <2> QED
    BY <1>1, <1>2, <1>3, LedgerSteps, Zenon
<1>5. ASSUME NEW i \in 1..n
      PROVE  f[i] = AddBlock(f[i - 1], blocks[i])
  <2>1. f[i] = H[i][f[i - 1]] /\ f[i - 1] \in Ledgers
    BY <1>1, <1>4
  <2> QED
    BY <2>1
<1>6. f = Run(f)
  BY <1>1, <1>4, <1>5
<1> DEFINE led == CHOOSE g : g = Run(g)
<1>7. led = Run(led)
  BY <1>6
<1>8. Replay(blocks) = led[n]
  BY DEF Replay, n
<1> HIDE DEF led
<1>9. /\ led[0] = e
      /\ \A i \in 1..n : led[i] = AddBlock(led[i - 1], blocks[i])
  BY <1>1, <1>7
<1>10. led \in [0..n -> Ledgers]
  <2> DEFINE S == {i \in 0..n : led[i] \in Ledgers}
  <2>1. 0 \in S /\ \A i \in 1..n : i - 1 \in S => i \in S
    <3>1. \A i \in 1..n : led[i - 1] \in Ledgers => led[i] \in Ledgers
      BY <1>1, <1>9, AddBlockType
    <3> QED
      BY <1>1, <1>2, <1>9, <3>1
  <2> HIDE DEF S
  <2>2. 0..n \subseteq S
    BY <1>1, <2>1, UpTo
  <2> QED
    BY <1>7, <2>2 DEF S
<1> QED
  BY <1>8, <1>9, <1>10 DEF n

(* No blocks replay to the empty ledger.                                   *)
LEMMA ReplayEmpty == Replay(<<>>) = EmptyLedger
<1> DEFINE none == <<>>
           B == {}
<1>1. none \in Seq(B) /\ Len(none) = 0 /\ \A b \in B : b.txs \in Seq(Txs)
  OBVIOUS
<1> HIDE DEF none, B
<1>2. \E f \in [0..Len(none) -> Ledgers] :
        f[0] = EmptyLedger /\ f[Len(none)] = Replay(none)
  BY <1>1, ReplaySteps
<1>3. Replay(none) = EmptyLedger
  BY <1>1, <1>2
<1> QED
  BY <1>3 DEF none

(* One more block is added to the ledger of the blocks before it. *)
LEMMA ReplayAppend ==
  ASSUME NEW B, \A b \in B : b.txs \in Seq(Txs), NEW blocks \in Seq(B), NEW b \in B
  PROVE  /\ Replay(blocks) \in Ledgers
         /\ Replay(Append(blocks, b)) = AddBlock(Replay(blocks), b)
<1> DEFINE n == Len(blocks)
           more == Append(blocks, b)
<1>1. /\ n \in Nat /\ more \in Seq(B) /\ Len(more) = n + 1
      /\ \A i \in 1..n : more[i] = blocks[i]
      /\ more[n + 1] = b
  BY LenProperties, AppendProperties
<1> HIDE DEF n, more
<1>2. PICK f \in [0..n -> Ledgers] :
        /\ f[0] = EmptyLedger
        /\ \A i \in 1..n : f[i] = AddBlock(f[i - 1], blocks[i])
        /\ f[n] = Replay(blocks)
  BY ReplaySteps DEF n
<1>3. PICK g \in [0..(n + 1) -> Ledgers] :
        /\ g[0] = EmptyLedger
        /\ \A i \in 1..(n + 1) : g[i] = AddBlock(g[i - 1], more[i])
        /\ g[n + 1] = Replay(more)
  <2>1. \E g \in [0..Len(more) -> Ledgers] :
          /\ g[0] = EmptyLedger
          /\ \A i \in 1..Len(more) : g[i] = AddBlock(g[i - 1], more[i])
          /\ g[Len(more)] = Replay(more)
    BY <1>1, ReplaySteps
  <2> QED
    BY <1>1, <2>1
<1>4. f[n] = g[n]
  <2> DEFINE S == {i \in 0..n : f[i] = g[i]}
  <2>1. 0 \in S /\ \A i \in 1..n : i - 1 \in S => i \in S
    BY <1>1, <1>2, <1>3
  <2> HIDE DEF S
  <2>2. 0..n \subseteq S
    BY <1>1, <2>1, UpTo
  <2> QED
    BY <1>1, <2>2 DEF S
<1> QED
  BY <1>1, <1>2, <1>3, <1>4 DEF more

=============================================================================
