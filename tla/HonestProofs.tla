----------------------------- MODULE HonestProofs -----------------------------
(***************************************************************************)
(* In an honest world (HonestWorld of module NodeProperties) nothing that  *)
(* pends stalls the node: what each sender has pending is a run of nonces  *)
(* it can pay for, whatever blocks and chains arrive, and any candidate    *)
(* packed from it is valid.                                                *)
(***************************************************************************)
EXTENDS NodeProofs

-----------------------------------------------------------------------------
(* What a sender has pending. *)

(* What a transaction takes from its sender when it is applied: the cost,  *)
(* less what it pays to the sender itself.                                 *)
Net(tx) == Cost(tx) - tx.outs[tx.from]

NetOf(S) == Total([t \in S |-> Net(t)])

(* The pending transactions that the sender of t has to see applied first. *)
Before(p, t) == {u \in p : u.from = t.from /\ u.nonce < t.nonce}

(* Every pending transaction is signed, ahead of the ledger, and preceded  *)
(* by the whole run of nonces up to its own, which leaves enough to pay it. *)
Payable(p, led) ==
  \A t \in p :
    /\ t.signed
    /\ t.nonce > led.nonce[t.from]
    /\ \A n \in Nat : led.nonce[t.from] < n /\ n < t.nonce =>
         \E u \in p : u.from = t.from /\ u.nonce = n
    /\ NetOf(Before(p, t)) + Cost(t) <= led.bal[t.from]

PayablePools(led) == {p \in Pools : Payable(p, led)}

OneTxPerNonce == \A t, u \in Txs : t.from = u.from /\ t.nonce = u.nonce => t = u

(* What a transaction takes is a natural number, for its outputs to the    *)
(* sender are a part of its cost.                                          *)
LEMMA NetType ==
  ASSUME NEW tx \in Txs
  PROVE  /\ Net(tx) \in Nat /\ Net(tx) <= Cost(tx)
         /\ Net(tx) + tx.outs[tx.from] = Cost(tx)
         /\ tx.outs \in [Addr -> Nat] /\ tx.from \in Addr
<1>1. /\ tx \in Transaction /\ Total(tx.outs) \in Nat
      /\ Cost(tx) = Total(tx.outs) + tx.fee /\ Cost(tx) \in Nat
  BY CostType
<1>2. /\ tx.outs \in [Addr -> Nat] /\ tx.from \in Addr /\ tx.fee \in Nat
  BY <1>1 DEF Transaction
<1> DEFINE f == tx.outs
           a == tx.from
           T == Addr \ {a}
           g == [x \in T |-> f[x]]
<1>3. /\ IsFiniteSet(T) /\ a \notin T /\ Addr = T \cup {a}
  BY <1>2, LedgerAssumption, FS_Difference
<1>4. f \in [T \cup {a} -> Nat] /\ g \in [T -> Nat] /\ \A y \in T : g[y] = f[y]
  BY <1>2, <1>3
<1> HIDE DEF T, g
<1>5. Total(f) = Total(g) + f[a] /\ Total(g) \in Nat
  BY <1>3, <1>4, TotalNewPoint, UnitsFinite
<1>6. f[a] \in Nat
  BY <1>2
<1> QED
  BY <1>1, <1>2, <1>5, <1>6 DEF Net

(* A transaction adds its own part to what a set takes.                    *)
LEMMA NetOfOne ==
  ASSUME NEW S \in SUBSET Txs, IsFiniteSet(S), NEW tx \in Txs, tx \notin S
  PROVE  /\ NetOf(S) \in Nat
         /\ NetOf(S \cup {tx}) = NetOf(S) + Net(tx)
<1> DEFINE f == [t \in S \cup {tx} |-> Net(t)]
           g == [t \in S |-> Net(t)]
<1>1. f \in [S \cup {tx} -> Nat] /\ g \in [S -> Nat] /\ \A y \in S : g[y] = f[y]
  BY NetType
<1>2. f[tx] = Net(tx) /\ NetOf(S \cup {tx}) = Total(f) /\ NetOf(S) = Total(g)
  BY DEF NetOf
<1> HIDE DEF f, g
<1>3. Total(f) = Total(g) + f[tx] /\ Total(g) \in Nat
  BY <1>1, TotalNewPoint, UnitsFinite
<1> QED
  BY <1>2, <1>3

(* Nothing takes nothing.                                                  *)
LEMMA NetOfNone == NetOf({}) = 0
<1> DEFINE f == [t \in {} |-> Net(t)]
<1>1. f \in [{} -> Nat] /\ \A x \in {} : f[x] = 0
  OBVIOUS
<1>2. NetOf({}) = Total(f)
  BY DEF NetOf
<1> HIDE DEF f
<1> QED
  BY <1>1, <1>2, TotalZero

(* What comes before a transaction is finite, and adds up.                 *)
LEMMA BeforeFacts ==
  ASSUME NEW p \in SUBSET Txs, IsFiniteSet(p), NEW t \in Txs
  PROVE  /\ Before(p, t) \in SUBSET Txs /\ Before(p, t) \subseteq p
         /\ IsFiniteSet(Before(p, t)) /\ NetOf(Before(p, t)) \in Nat
<1>1. Before(p, t) \subseteq p
  BY DEF Before
<1>2. IsFiniteSet(Before(p, t))
  BY <1>1, FS_Subset
<1> DEFINE S == Before(p, t)
           g == [x \in S |-> Net(x)]
<1>3. g \in [S -> Nat]
  BY <1>1, NetType
<1>4. NetOf(S) = Total(g)
  BY DEF NetOf
<1> HIDE DEF g, S
<1>5. NetOf(S) \in Nat
  BY <1>2, <1>3, <1>4, UnitsFinite DEF S
<1> QED
  BY <1>1, <1>2, <1>5 DEF S

(* The balances after a valid transaction: the sender is left with what it *)
(* had less what the transaction takes, and nobody else has less.          *)
LEMMA ApplyTxBalances ==
  ASSUME NEW led \in LedgerState, NEW tx \in Txs, TxValid(tx, led)
  PROVE  LET new == ApplyTx(led, tx)
         IN  /\ new \in LedgerState
             /\ new.nonce = [led.nonce EXCEPT ![tx.from] = tx.nonce]
             /\ new.bal[tx.from] + Net(tx) = led.bal[tx.from]
             /\ \A a \in Addr : a # tx.from => new.bal[a] >= led.bal[a]
<1> DEFINE new == ApplyTx(led, tx)
<1>1. new \in LedgerState /\ new.nonce = [led.nonce EXCEPT ![tx.from] = tx.nonce]
  BY ApplyTxFacts
<1>2. /\ led.bal \in [Addr -> Nat] /\ led # Raised
      /\ Cost(tx) <= led.bal[tx.from] /\ Cost(tx) \in Nat
  BY LedgerAssumption, CostType DEF LedgerState, TxValid
<1>3. /\ tx.outs \in [Addr -> Nat] /\ tx.from \in Addr
      /\ Net(tx) \in Nat /\ Net(tx) + tx.outs[tx.from] = Cost(tx)
  BY NetType
<1>4. new.bal = [a \in Addr |-> (IF a = tx.from THEN led.bal[a] - Cost(tx) ELSE led.bal[a])
                                + tx.outs[a]]
  <2>1. ~(led.bal[tx.from] < Cost(tx))
    BY <1>2, <1>3
  <2> QED
    BY <1>2, <2>1, Zenon DEF ApplyTx, LedgerState
<1> HIDE DEF new
<1>5. new.bal[tx.from] = (led.bal[tx.from] - Cost(tx)) + tx.outs[tx.from]
  BY <1>3, <1>4
<1>6. \A a \in Addr : a # tx.from => new.bal[a] = led.bal[a] + tx.outs[a]
  BY <1>4
<1>7. tx.outs[tx.from] \in Nat /\ led.bal[tx.from] \in Nat
  BY <1>2, <1>3
<1>8. new.bal[tx.from] + Net(tx) = led.bal[tx.from]
  BY <1>2, <1>3, <1>5, <1>7
<1>9. \A a \in Addr : a # tx.from => new.bal[a] >= led.bal[a]
  BY <1>2, <1>3, <1>6
<1> QED
  BY <1>1, <1>8, <1>9 DEF new

-----------------------------------------------------------------------------
(* How transactions and blocks move a payable set on. *)

(* The first of its sender's pending transactions is valid.                *)
LEMMA NextIsValid ==
  ASSUME NEW led \in LedgerState, NEW p \in SUBSET Txs, Payable(p, led),
         NEW t \in p, Before(p, t) = {}
  PROVE  TxValid(t, led)
<1>1. /\ t \in Txs /\ t.from \in Addr /\ t.nonce \in Nat /\ Cost(t) \in Nat
      /\ led.bal[t.from] \in Nat /\ led.nonce[t.from] \in Nat
  BY TxSize, CostType DEF LedgerState
<1>2. /\ t.signed /\ t.nonce > led.nonce[t.from]
      /\ \A n \in Nat : led.nonce[t.from] < n /\ n < t.nonce =>
           \E u \in p : u.from = t.from /\ u.nonce = n
      /\ NetOf({}) + Cost(t) <= led.bal[t.from]
  BY DEF Payable
<1>3. Cost(t) <= led.bal[t.from]
  BY <1>1, <1>2, NetOfNone
<1>4. t.nonce = led.nonce[t.from] + 1
  <2> SUFFICES ASSUME t.nonce # led.nonce[t.from] + 1
               PROVE  FALSE
    OBVIOUS
  <2>1. /\ led.nonce[t.from] + 1 \in Nat /\ led.nonce[t.from] < led.nonce[t.from] + 1
        /\ led.nonce[t.from] + 1 < t.nonce
    BY <1>1, <1>2
  <2>2. PICK u \in p : u.from = t.from /\ u.nonce = led.nonce[t.from] + 1
    BY <1>2, <2>1
  <2>3. u \in Before(p, t)
    BY <2>1, <2>2 DEF Before
  <2> QED
    BY <2>3
<1> QED
  BY <1>2, <1>3, <1>4 DEF TxValid

(* A valid transaction is the first one its sender has pending, if it has  *)
(* one at all; once it is applied the rest can be paid.                    *)
LEMMA TxStep ==
  ASSUME OneTxPerNonce, NEW led \in LedgerState, NEW p \in SUBSET Txs, IsFiniteSet(p),
         Payable(p, led), NEW tx \in Txs, TxValid(tx, led)
  PROVE  Payable(p \ {tx}, ApplyTx(led, tx))
<1> DEFINE new == ApplyTx(led, tx)
           q == p \ {tx}
<1>1. /\ new \in LedgerState
      /\ new.nonce = [led.nonce EXCEPT ![tx.from] = tx.nonce]
      /\ new.bal[tx.from] + Net(tx) = led.bal[tx.from]
      /\ \A a \in Addr : a # tx.from => new.bal[a] >= led.bal[a]
  BY ApplyTxBalances
<1>2. /\ led.nonce \in [Addr -> Nat] /\ led.bal \in [Addr -> Nat]
      /\ new.nonce \in [Addr -> Nat] /\ new.bal \in [Addr -> Nat]
  BY <1>1 DEF LedgerState
<1>3. /\ tx.from \in Addr /\ tx.nonce \in Nat /\ tx.nonce = led.nonce[tx.from] + 1
      /\ Net(tx) \in Nat
  BY TxSize, NetType DEF TxValid
<1> HIDE DEF new
<1>4. /\ new.nonce[tx.from] = tx.nonce
      /\ \A a \in Addr : a # tx.from => new.nonce[a] = led.nonce[a]
  BY <1>1, <1>2, <1>3
<1> SUFFICES ASSUME NEW t \in q
             PROVE  /\ t.signed
                    /\ t.nonce > new.nonce[t.from]
                    /\ \A n \in Nat : new.nonce[t.from] < n /\ n < t.nonce =>
                         \E u \in q : u.from = t.from /\ u.nonce = n
                    /\ NetOf(Before(q, t)) + Cost(t) <= new.bal[t.from]
  BY DEF Payable, new
<1>5. /\ t \in p /\ t # tx /\ t \in Txs /\ t.from \in Addr /\ t.nonce \in Nat /\ Cost(t) \in Nat
      /\ led.bal[t.from] \in Nat /\ new.bal[t.from] \in Nat
  BY <1>2, TxSize, CostType
<1>6. /\ t.signed /\ t.nonce > led.nonce[t.from]
      /\ \A n \in Nat : led.nonce[t.from] < n /\ n < t.nonce =>
           \E u \in p : u.from = t.from /\ u.nonce = n
      /\ NetOf(Before(p, t)) + Cost(t) <= led.bal[t.from]
  BY <1>5 DEF Payable
<1>7. Before(p, t) \in SUBSET Txs /\ NetOf(Before(p, t)) \in Nat
  BY <1>5, BeforeFacts
<1>8. CASE t.from # tx.from
  <2>1. new.nonce[t.from] = led.nonce[t.from] /\ new.bal[t.from] >= led.bal[t.from]
    BY <1>1, <1>4, <1>5, <1>8
  <2>2. Before(q, t) = Before(p, t)
    BY <1>8 DEF Before
  <2>3. \A n \in Nat : new.nonce[t.from] < n /\ n < t.nonce =>
          \E u \in q : u.from = t.from /\ u.nonce = n
    BY <1>6, <1>8, <2>1
  <2>4. NetOf(Before(q, t)) + Cost(t) <= new.bal[t.from]
    BY <1>5, <1>6, <1>7, <2>1, <2>2
  <2> QED
    BY <1>6, <2>1, <2>3, <2>4
<1>9. CASE t.from = tx.from
  <2>1. t.nonce # tx.nonce
    BY <1>5, <1>9 DEF OneTxPerNonce
  <2>2. led.nonce[t.from] \in Nat /\ tx.nonce = led.nonce[t.from] + 1
    BY <1>2, <1>3, <1>9
  <2>3. t.nonce > tx.nonce /\ new.nonce[t.from] = tx.nonce
    BY <1>3, <1>4, <1>5, <1>6, <1>9, <2>1, <2>2
  <2>4. tx \in p
    <3>1. led.nonce[t.from] < tx.nonce /\ tx.nonce < t.nonce
      BY <1>5, <2>2, <2>3
    <3>2. PICK u \in p : u.from = t.from /\ u.nonce = tx.nonce
      BY <1>3, <1>6, <3>1
    <3>3. u = tx
      BY <1>9, <3>2 DEF OneTxPerNonce
    <3> QED
      BY <3>3
  <2>5. \A n \in Nat : new.nonce[t.from] < n /\ n < t.nonce =>
          \E u \in q : u.from = t.from /\ u.nonce = n
    <3> SUFFICES ASSUME NEW n \in Nat, tx.nonce < n, n < t.nonce
                 PROVE  \E u \in q : u.from = t.from /\ u.nonce = n
      BY <2>3
    <3>1. led.nonce[t.from] < n
      BY <1>3, <2>2
    <3>2. PICK u \in p : u.from = t.from /\ u.nonce = n
      BY <1>6, <3>1
    <3>3. u # tx
      BY <1>3, <3>2
    <3> QED
      BY <3>2, <3>3
  <2>6. /\ Before(p, t) = Before(q, t) \cup {tx} /\ tx \notin Before(q, t)
        /\ Before(q, t) \in SUBSET Txs /\ IsFiniteSet(Before(q, t))
    <3>1. Before(p, t) = Before(q, t) \cup {tx} /\ tx \notin Before(q, t)
      BY <1>3, <1>5, <1>9, <2>3, <2>4 DEF Before
    <3>2. q \in SUBSET Txs /\ IsFiniteSet(q)
      BY FS_Difference
    <3> HIDE DEF q
    <3> QED
      BY <1>5, <3>1, <3>2, BeforeFacts
  <2>7. NetOf(Before(p, t)) = NetOf(Before(q, t)) + Net(tx) /\ NetOf(Before(q, t)) \in Nat
    BY <2>6, NetOfOne
  <2>8. NetOf(Before(q, t)) + Cost(t) <= new.bal[t.from]
    BY <1>1, <1>3, <1>5, <1>6, <1>9, <2>7
  <2> QED
    BY <1>6, <2>3, <2>5, <2>8
<1> QED
  BY <1>8, <1>9

(* A ledger on which everybody has at least as much and the nonces are the *)
(* same: the builder's reward.                                             *)
LEMMA RicherLedger ==
  ASSUME NEW led \in LedgerState, NEW new \in LedgerState, new.nonce = led.nonce,
         \A a \in Addr : new.bal[a] >= led.bal[a],
         NEW p \in SUBSET Txs, IsFiniteSet(p), Payable(p, led)
  PROVE  Payable(p, new)
<1> SUFFICES ASSUME NEW t \in p
             PROVE  NetOf(Before(p, t)) + Cost(t) <= new.bal[t.from]
  BY DEF Payable
<1>1. /\ t \in Txs /\ t.from \in Addr /\ Cost(t) \in Nat
      /\ led.bal[t.from] \in Nat /\ new.bal[t.from] \in Nat
  BY TxSize, CostType DEF LedgerState
<1>2. NetOf(Before(p, t)) \in Nat
  BY <1>1, BeforeFacts
<1>3. NetOf(Before(p, t)) + Cost(t) <= led.bal[t.from] /\ new.bal[t.from] >= led.bal[t.from]
  BY <1>1 DEF Payable
<1> QED
  BY <1>1, <1>2, <1>3

(* A list of transactions accepted one by one: what pends beside it stays  *)
(* payable.                                                                *)
LEMMA TxsStep ==
  ASSUME OneTxPerNonce, NEW led \in LedgerState, NEW p \in SUBSET Txs, IsFiniteSet(p),
         Payable(p, led), NEW txs \in Seq(Txs), ApplyTransactions(led, txs) \in LedgerState
  PROVE  Payable(p \ ToSet(txs), ApplyTransactions(led, txs))
<1> DEFINE n == Len(txs)
           Done(i) == {txs[j] : j \in 1..i}
<1>1. n \in Nat /\ \A i \in 1..n : txs[i] \in Txs
  BY ElementOfSeq, LenProperties
<1>2. PICK f \in [0..n -> Ledgers] :
        /\ f[0] = led
        /\ \A i \in 1..n : f[i] = ValidStep(f[i - 1], txs[i])
        /\ f[n] = ApplyTransactions(led, txs)
  <2>1. led \in Ledgers
    BY DEF Ledgers
  <2> QED
    BY <2>1, ApplyTransactionsSteps
<1>3. ToSet(txs) = Done(n)
  BY <1>1, LenProperties DEF ToSet
<1> HIDE DEF n
<1> DEFINE S == {i \in 0..n : f[i] = Raised \/ (f[i] \in LedgerState /\ Payable(p \ Done(i), f[i]))}
<1>4. 0 \in S
  <2>1. p \ Done(0) = p
    OBVIOUS
  <2> QED
    BY <1>1, <1>2, <2>1
<1>5. ASSUME NEW i \in 1..n, i - 1 \in S
      PROVE  i \in S
  <2> DEFINE tx == txs[i]
             l == f[i - 1]
             q == p \ Done(i - 1)
  <2>1. i \in 0..n /\ i - 1 \in 0..n /\ f[i] = ValidStep(l, tx) /\ tx \in Txs
    BY <1>1, <1>2
  <2>2. l = Raised \/ (l \in LedgerState /\ Payable(q, l))
    BY <1>5
  <2>3. q \in SUBSET Txs /\ IsFiniteSet(q)
    BY FS_Difference
  <2>4. p \ Done(i) = q \ {tx}
    <3>1. Done(i) = Done(i - 1) \cup {tx}
      BY <1>1
    <3> QED
      BY <3>1
  <2> HIDE DEF l, q, tx, Done
  <2>5. CASE f[i] = Raised
    BY <2>1, <2>5
  <2>6. CASE f[i] # Raised
    <3>1. TxValid(tx, l) /\ f[i] = ApplyTx(l, tx) /\ l \in LedgerState /\ Payable(q, l)
      BY <2>1, <2>2, <2>6 DEF ValidStep
    <3>2. ApplyTx(l, tx) \in LedgerState
      BY <2>1, <3>1, ApplyTxFacts
    <3>3. Payable(q \ {tx}, f[i])
      BY <2>1, <2>3, <3>1, TxStep
    <3> QED
      BY <2>1, <2>4, <3>1, <3>2, <3>3
  <2> QED
    BY <2>5, <2>6
<1> HIDE DEF S, Done
<1>6. n \in S
  <2>1. 0..n \subseteq S
    BY <1>1, <1>4, <1>5, UpTo
  <2> QED
    BY <1>1, <2>1
<1>7. f[n] # Raised
  BY <1>2, LedgerAssumption
<1> QED
  BY <1>2, <1>3, <1>6, <1>7 DEF S

(* A valid block: what pends beside it stays payable.                      *)
LEMMA BlockStep ==
  ASSUME OneTxPerNonce, NEW led \in LedgerState, NEW p \in SUBSET Txs, IsFiniteSet(p),
         Payable(p, led), NEW b \in Block, NEW c, Valid(b, led, c)
  PROVE  /\ AddBlock(led, b) \in LedgerState
         /\ Payable(p \ ToSet(b.txs), AddBlock(led, b))
<1> DEFINE post == RunTxs(led, b.txs)
           q == p \ ToSet(b.txs)
           fees == Fees(b.txs)
           r == Reward(post.minted)
           cred == Credit(post, b.builder, fees + r)
           new == AddBlock(led, b)
<1>1. b.txs \in Seq(Txs) /\ ApplyTransactions(led, b.txs) \in LedgerState
  BY BlockTxs DEF Valid
<1>2. /\ new \in LedgerState
      /\ post = ApplyTransactions(led, b.txs)
  BY ValidBlockLedger DEF Ledgers
<1>3. post \in LedgerState /\ Payable(q, post)
  BY <1>1, <1>2, TxsStep
<1>4. q \in SUBSET Txs /\ IsFiniteSet(q)
  BY FS_Difference
<1>5. post # Raised /\ post.bal \in [Addr -> Nat] /\ post.minted \in Nat
  BY <1>3, LedgerAssumption DEF LedgerState
<1>6. fees \in Nat /\ r \in Nat
  BY <1>1, <1>5, FeesType, RewardBound
<1>7. new = [cred EXCEPT !.minted = @ + r]
  BY <1>5 DEF AddBlock, BuilderReward
<1> HIDE DEF fees, r, q
<1>8. /\ cred.nonce = post.nonce
      /\ \A a \in Addr : cred.bal[a] >= post.bal[a]
  <2>1. cred.bal = [post.bal EXCEPT ![b.builder] = @ + (fees + r)] /\ cred.nonce = post.nonce
    BY <1>3 DEF Credit, LedgerState
  <2> QED
    BY <1>5, <1>6, <2>1
<1>9. new.nonce = cred.nonce /\ new.bal = cred.bal
  BY <1>3, <1>7 DEF Credit, LedgerState
<1> HIDE DEF post, cred, new
<1>10. Payable(q, new)
  BY <1>2, <1>3, <1>4, <1>8, <1>9, RicherLedger
<1> QED
  BY <1>2, <1>10 DEF new, q

(* A valid chain that continues ours: what pends beside its new blocks     *)
(* stays payable.                                                          *)
LEMMA SuffixStep ==
  ASSUME OneTxPerNonce, NEW c \in Chains, ValidTail(c, 2), NEW k \in 1..Len(c),
         NEW p \in SUBSET Txs, IsFiniteSet(p), Payable(p, Replay(SubSeq(c, 2, k)))
  PROVE  Payable(p \ ConfirmedFrom(c, k), Replay(Tail(c)))
<1> DEFINE n == Len(c)
           led(i) == Replay(SubSeq(c, 2, i))
           Done(i) == UNION {ToSet(c[j].txs) : j \in (k + 1)..i}
           S == {i \in 0..n : i < k \/ Payable(p \ Done(i), led(i))}
<1>1. /\ c \in Seq(Block) /\ c # <<>> /\ n \in Nat /\ n >= 1
      /\ \A i \in 1..n : c[i] \in Block
  BY ChainsFacts
<1>2. 0 \in S
  BY <1>1
<1>3. ASSUME NEW i \in 1..n, i - 1 \in S
      PROVE  i \in S
  <2>1. CASE i < k
    BY <1>1, <2>1
  <2>2. CASE i = k
    <3>1. Done(k) = {}
      OBVIOUS
    <3>2. p \ Done(k) = p
      BY <3>1
    <3> HIDE DEF Done
    <3>3. Payable(p \ Done(k), led(k))
      BY <3>2
    <3> QED
      BY <1>1, <2>2, <3>3
  <2>3. CASE i > k
    <3> DEFINE m == i - 1
               q == p \ Done(m)
               b == c[i]
               l == led(m)
    <3>1. m \in 1..(n - 1) /\ m + 1 = i /\ i \in 2..n /\ b \in Block
      BY <1>1, <2>3
    <3>2. Payable(q, l)
      BY <1>3, <2>3
    <3>3. l \in LedgerState
      BY <3>1, ValidChainLedger
    <3>4. Valid(b, l, SubSeq(c, 1, m))
      <4>1. i \in 2..n /\ 2 \in Nat /\ 2 >= 2
        BY <3>1
      <4> QED
        BY <4>1, ValidTailFacts
    <3>5. led(i) = AddBlock(l, b)
      BY <3>1, ReplayOneMore
    <3>6. p \ Done(i) = q \ ToSet(b.txs)
      <4>1. (k + 1)..i = ((k + 1)..m) \cup {i}
        BY <2>3
      <4>2. Done(i) = Done(m) \cup ToSet(b.txs)
        BY <4>1
      <4> HIDE DEF Done
      <4> QED
        BY <4>2
    <3>7. q \in SUBSET Txs /\ IsFiniteSet(q)
      BY FS_Difference
    <3> HIDE DEF q, b, l, led, Done, m
    <3>8. Payable(q \ ToSet(b.txs), AddBlock(l, b))
      BY <3>1, <3>2, <3>3, <3>4, <3>7, BlockStep
    <3>9. Payable(p \ Done(i), led(i))
      BY <3>5, <3>6, <3>8
    <3>10. i \in 0..n
      BY <1>1
    <3> QED
      BY <3>9, <3>10
  <2> QED
    BY <2>1, <2>2, <2>3
<1> HIDE DEF S
<1>4. n \in S
  <2>1. 0..n \subseteq S
    BY <1>1, <1>2, <1>3, UpTo
  <2> QED
    BY <1>1, <2>1
<1>5. SubSeq(c, 2, n) = Tail(c)
  BY <1>1, TailIsSubSeq
<1>6. Done(n) = ConfirmedFrom(c, k)
  BY DEF ConfirmedFrom
<1> HIDE DEF Done, led
<1>7. Payable(p \ Done(n), led(n))
  BY <1>1, <1>4 DEF S
<1> QED
  BY <1>5, <1>6, <1>7 DEF led

-----------------------------------------------------------------------------
(* How the mempool grows. *)

(* A transaction the sender can pay after those before it, in a pool that  *)
(* holds them all, leaves the pool payable.                                *)
LEMMA AddStep ==
  ASSUME OneTxPerNonce, NEW led \in LedgerState, NEW p \in SUBSET Txs, Payable(p, led),
         NEW tx \in Txs, tx.signed, tx.nonce > led.nonce[tx.from],
         \A n \in Nat : led.nonce[tx.from] < n /\ n < tx.nonce =>
           \E u \in p : u.from = tx.from /\ u.nonce = n,
         NetOf(Before(p, tx)) + Cost(tx) <= led.bal[tx.from]
  PROVE  Payable(p \cup {tx}, led)
<1> DEFINE q == p \cup {tx}
<1>1. CASE tx \in p
  <2>1. q = p
    BY <1>1
  <2> QED
    BY <2>1
<1>2. CASE tx \notin p
  <2>1. ASSUME NEW t \in p
        PROVE  Before(q, t) = Before(p, t)
    <3>1. t \in Txs /\ t.nonce \in Nat /\ tx.nonce \in Nat
      BY TxSize
    <3>2. \A n \in Nat : led.nonce[t.from] < n /\ n < t.nonce =>
            \E u \in p : u.from = t.from /\ u.nonce = n
      BY DEF Payable
    <3>3. ~(tx.from = t.from /\ tx.nonce < t.nonce)
      <4> SUFFICES ASSUME tx.from = t.from, tx.nonce < t.nonce
                   PROVE  FALSE
        OBVIOUS
      <4>1. PICK u \in p : u.from = tx.from /\ u.nonce = tx.nonce
        BY <3>1, <3>2
      <4>2. u = tx
        BY <4>1 DEF OneTxPerNonce
      <4> QED
        BY <1>2, <4>1, <4>2
    <3> QED
      BY <3>3 DEF Before
  <2>2. Before(q, tx) = Before(p, tx)
    <3>1. tx.nonce \in Nat
      BY TxSize
    <3> QED
      BY <3>1 DEF Before
  <2>3. ASSUME NEW t \in q
        PROVE  /\ t.signed
               /\ t.nonce > led.nonce[t.from]
               /\ \A n \in Nat : led.nonce[t.from] < n /\ n < t.nonce =>
                    \E u \in q : u.from = t.from /\ u.nonce = n
               /\ NetOf(Before(q, t)) + Cost(t) <= led.bal[t.from]
    <3>1. CASE t = tx
      BY <2>2, <3>1
    <3>2. CASE t \in p
      BY <2>1, <3>2 DEF Payable
    <3> QED
      BY <3>1, <3>2
  <2> HIDE DEF q
  <2> QED
    BY <2>3 DEF Payable, q
<1> QED
  BY <1>1, <1>2

(* Nothing is evicted when all the transactions there are fit.             *)
LEMMA AddWithRoom ==
  ASSUME IsFiniteSet(Txs), PoolBytes(Txs) <= MempoolMaxBytes,
         NEW p \in SUBSET Txs, NEW tx \in Txs, NEW q \in Add(p, tx)
  PROVE  q = p \cup {tx} /\ q \in Pools
<1>1. CASE tx \in p
  BY <1>1, FS_Subset, PoolsSubset DEF Add, Pools
<1>2. CASE tx \notin p
  <2>1. IsFiniteSet(p) /\ p \cup {tx} \in SUBSET Txs
    BY FS_Subset
  <2>2. PoolBytes(p \cup {tx}) = PoolBytes(p) + tx.size
    BY <1>2, <2>1, PoolBytesOne
  <2>3. Txs \in Pools
    BY DEF Pools
  <2>4. p \cup {tx} \in Pools
    BY <2>1, <2>3, PoolsSubset
  <2>5. PoolBytes(p) + tx.size <= MempoolMaxBytes
    BY <2>2, <2>4 DEF Pools
  <2>6. PoolBytes(p) \in Nat /\ tx.size \in Nat /\ MempoolMaxBytes \in Nat
    BY <2>1, PoolBytesSplit, TxSize, MempoolAssumption
  <2>7. Evictions(p, tx) = {{}}
    BY <2>5, <2>6 DEF Evictions
  <2> QED
    BY <1>2, <2>4, <2>7 DEF Add
<1> QED
  BY <1>1, <1>2

(* Nobody has anything pending before a transaction that is valid on the   *)
(* ledger alone.                                                           *)
LEMMA AddValid ==
  ASSUME OneTxPerNonce, NEW led \in LedgerState, NEW p \in SUBSET Txs, Payable(p, led),
         NEW tx \in Txs, TxValid(tx, led)
  PROVE  Payable(p \cup {tx}, led)
<1>1. /\ tx.signed /\ tx.nonce = led.nonce[tx.from] + 1 /\ Cost(tx) <= led.bal[tx.from]
      /\ tx.nonce \in Nat /\ led.nonce[tx.from] \in Nat /\ Cost(tx) \in Nat
  BY TxSize, CostType DEF TxValid, LedgerState
<1>2. Before(p, tx) = {}
  <2> SUFFICES ASSUME NEW u \in Before(p, tx)
               PROVE  FALSE
    OBVIOUS
  <2>1. /\ u \in p /\ u.from = tx.from /\ u.nonce < tx.nonce
        /\ u.nonce > led.nonce[u.from] /\ u.nonce \in Nat
    BY TxSize DEF Before, Payable
  <2> QED
    BY <1>1, <2>1
<1>3. NetOf(Before(p, tx)) + Cost(tx) <= led.bal[tx.from]
  BY <1>1, <1>2, NetOfNone
<1>4. tx.nonce > led.nonce[tx.from]
  BY <1>1
<1>5. \A n \in Nat : led.nonce[tx.from] < n /\ n < tx.nonce =>
        \E u \in p : u.from = tx.from /\ u.nonce = n
  BY <1>1
<1> QED
  BY <1>1, <1>3, <1>4, <1>5, AddStep

(* What a reorg gives back, or a salvaged fork, does not leave the payable *)
(* pools.                                                                  *)
LEMMA AddStaysPayable ==
  ASSUME OneTxPerNonce, IsFiniteSet(Txs), PoolBytes(Txs) <= MempoolMaxBytes,
         NEW led \in LedgerState, NEW except
  PROVE  AddStays(PayablePools(led), except, led)
<1> SUFFICES ASSUME NEW p \in PayablePools(led), NEW tx \in Txs, TxValid(tx, led),
                    NEW q \in Add(p, tx)
             PROVE  q \in PayablePools(led)
  BY DEF AddStays
<1>1. p \in SUBSET Txs /\ Payable(p, led)
  BY DEF PayablePools, Pools
<1>2. q = p \cup {tx} /\ q \in Pools
  BY <1>1, AddWithRoom
<1>3. Payable(p \cup {tx}, led)
  BY <1>1, AddValid
<1> QED
  BY <1>2, <1>3 DEF PayablePools

-----------------------------------------------------------------------------
(* The chains of peers, when no branch of ours is abandoned. *)

(* A chain that is made on a prefix keeps the prefix.                      *)
LEMMA LinkPrefix ==
  ASSUME NEW c \in Chains, NEW bodies \in Seq(Bodies)
  PROVE  /\ Link(c, bodies) \in Chains
         /\ Len(Link(c, bodies)) >= Len(c)
         /\ \A i \in 1..Len(c) : Link(c, bodies)[i] = c[i]
<1> DEFINE n == Len(bodies)
<1>1. n \in Nat /\ Len(c) \in Nat /\ \A i \in 1..n : bodies[i] \in Bodies
  BY ElementOfSeq, LenProperties, ChainsFacts
<1>2. PICK f \in [0..n -> Chains] :
        /\ f[0] = c
        /\ \A i \in 1..n : f[i] = Append(f[i - 1], Forge(f[i - 1], bodies[i]))
        /\ f[n] = Link(c, bodies)
  BY LinkSteps
<1> HIDE DEF n
<1> DEFINE Keeps(d) == Len(d) >= Len(c) /\ \A i \in 1..Len(c) : d[i] = c[i]
           S == {i \in 0..n : Keeps(f[i])}
<1>3. 0 \in S
  BY <1>1, <1>2
<1>4. ASSUME NEW i \in 1..n, i - 1 \in S
      PROVE  i \in S
  <2> DEFINE d == f[i - 1]
             b == Forge(d, bodies[i])
  <2>1. d \in Chains /\ f[i] = Append(d, b) /\ bodies[i] \in Bodies /\ i \in 0..n
    BY <1>1, <1>2
  <2>2. b \in Block /\ b.height = Len(d) /\ DueRate(b) >= 1
    BY <2>1, ForgeFacts
  <2>3. Keeps(d)
    BY <1>4
  <2> HIDE DEF b, d
  <2>4. Len(f[i]) = Len(d) + 1 /\ \A j \in 1..Len(d) : f[i][j] = d[j]
    BY <2>1, <2>2, ChainsAppend
  <2>5. Len(d) \in Nat
    BY <2>1, ChainsFacts
  <2>6. Keeps(f[i])
    BY <1>1, <2>3, <2>4, <2>5
  <2> QED
    BY <2>1, <2>6
<1> HIDE DEF S
<1>5. 0..n \subseteq S
  BY <1>1, <1>3, <1>4, UpTo
<1>6. Keeps(f[n])
  BY <1>1, <1>5 DEF S
<1> QED
  BY <1>1, <1>2, <1>6

(* Peers build on our tip: the fork point is our whole chain.              *)
LEMMA RemoteContinues ==
  ASSUME HeightsFollow, NodeInv, MaxReorg = 0, NEW remote \in RemoteChains
  PROVE  /\ remote \in Chains
         /\ ForkPoint(cs.chain, remote) = Len(cs.chain)
         /\ Len(cs.chain) \in 1..Len(remote)
         /\ SubSeq(remote, 2, Len(cs.chain)) = Tail(cs.chain)
<1> DEFINE c == cs.chain
<1>1. /\ c \in Chains /\ c \in Seq(Block) /\ c # <<>> /\ Len(c) \in Nat /\ Len(c) >= 1
      /\ DOMAIN c = 1..Len(c)
  BY SoundFacts, ChainsFacts DEF NodeInv
<1>2. PICK k \in DOMAIN c, tail \in PeerTails :
        Len(c) - k <= 0 /\ remote = Link(SubSeq(c, 1, k), tail)
  BY DEF RemoteChains
<1> HIDE DEF c
<1>3. k = Len(c)
  BY <1>1, <1>2
<1>4. SubSeq(c, 1, k) = c
  <2>1. SubSeq(c, 1, k) \in Chains /\ Len(SubSeq(c, 1, k)) = k
        /\ \A i \in 1..k : SubSeq(c, 1, k)[i] = c[i]
    BY <1>1, <1>3, ChainsPrefix
  <2> DEFINE d == SubSeq(c, 1, k)
  <2>2. d \in Seq(Block)
    BY <2>1, ChainsFacts
  <2>3. Len(d) = Len(c) /\ \A i \in 1..Len(d) : d[i] = c[i]
    BY <1>3, <2>1
  <2> HIDE DEF d
  <2>4. d = c
    BY <1>1, <2>2, <2>3, SeqEqual
  <2> QED
    BY <2>4 DEF d
<1>5. tail \in Seq(Bodies)
  BY BodiesOfTail
<1>6. /\ remote \in Chains /\ Len(remote) >= Len(c)
      /\ \A i \in 1..Len(c) : remote[i] = c[i]
  BY <1>1, <1>2, <1>4, <1>5, LinkPrefix
<1>7. Len(remote) \in Nat /\ DOMAIN remote = 1..Len(remote)
  BY <1>6, ChainsFacts
<1>8. ForkPoint(c, remote) = Len(c)
  <2>1. {i \in DOMAIN c \cap DOMAIN remote : HashOf(c[i]) # HashOf(remote[i])} = {}
    BY <1>1, <1>6
  <2>2. ForkPoint(c, remote) = IF Len(c) < Len(remote) THEN Len(c) ELSE Len(remote)
    BY <2>1 DEF ForkPoint
  <2>3. Len(c) \in Nat /\ Len(remote) \in Nat /\ Len(remote) >= Len(c)
    BY <1>1, <1>6, <1>7
  <2>4. ~(Len(c) < Len(remote)) => Len(remote) = Len(c)
    BY <2>3
  <2> QED
    BY <2>2, <2>4
<1>9. SubSeq(remote, 2, Len(c)) = Tail(c)
  <2>1. SubSeq(c, 2, Len(c)) = SubSeq(remote, 2, Len(c))
    BY <1>1, <1>6, <1>7, SameSegments
  <2>2. SubSeq(c, 2, Len(c)) = Tail(c)
    BY <1>1, TailIsSubSeq
  <2> QED
    BY <2>1, <2>2
<1> QED
  BY <1>1, <1>6, <1>7, <1>8, <1>9 DEF c

-----------------------------------------------------------------------------
(* What the sender's pending transactions lead to. *)

(* An order of a set lists each of its elements once.                      *)
LEMMA OrderFacts ==
  ASSUME NEW p, IsFiniteSet(p), NEW order \in SetToSeqs(p)
  PROVE  /\ order \in Seq(p) /\ Len(order) \in Nat /\ DOMAIN order = 1..Len(order)
         /\ \A i, j \in 1..Len(order) : i # j => order[i] # order[j]
         /\ \A u \in p : \E i \in 1..Len(order) : order[i] = u
<1> DEFINE n == Cardinality(p)
           D == 1..n
<1>1. n \in Nat
  BY FS_CardinalityType
<1>2. order \in [D -> p] /\ \A i, j \in D : i # j => order[i] # order[j]
  BY DEF SetToSeqs
<1>3. IsFiniteSet(D) /\ Cardinality(D) = n
  <2>1. n \in Int /\ 1 \in Int
    BY <1>1
  <2>2. /\ IsFiniteSet(1..n)
        /\ Cardinality(1..n) = IF 1 > n THEN 0 ELSE n - 1 + 1
    BY <2>1, FS_Interval
  <2> QED
    BY <1>1, <2>2
<1>4. order \in Injection(D, p)
  BY <1>2 DEF Injection, IsInjective
<1>5. order \in Surjection(D, p)
  BY <1>3, <1>4, FS_Injection
<1>6. \A u \in p : \E i \in D : order[i] = u
  BY <1>5 DEF Surjection
<1>7. order \in Seq(p) /\ Len(order) = n /\ DOMAIN order = D
  BY <1>1, <1>2
<1> HIDE DEF n
<1> QED
  BY <1>1, <1>2, <1>6, <1>7

Of(p, a) == {t \in p : t.from = a}

Sorted(order) == \A i, j \in DOMAIN order : i < j => order[i].nonce <= order[j].nonce

(* The probe of a sender whose pending transactions are payable: none of   *)
(* them raises, and it is left with what they do not take.                 *)
LEMMA ProbeStep ==
  ASSUME OneTxPerNonce, NEW led \in LedgerState, NEW p \in SUBSET Txs, IsFiniteSet(p),
         Payable(p, led), NEW a \in Addr, NEW order \in SetToSeqs(Of(p, a)), Sorted(order)
  PROVE  LET probe == RunTxs(led, order)
         IN  /\ probe \in LedgerState
             /\ probe.bal[a] + NetOf(Of(p, a)) = led.bal[a]
             /\ probe.nonce[a] >= led.nonce[a]
             /\ \A t \in Of(p, a) : t.nonce <= probe.nonce[a]
             /\ \A n \in Nat : led.nonce[a] < n /\ n <= probe.nonce[a] =>
                  \E u \in p : u.from = a /\ u.nonce = n
<1> DEFINE own == Of(p, a)
           n == Len(order)
           Done(i) == {order[j] : j \in 1..i}
<1>1. own \in SUBSET Txs /\ own \subseteq p /\ IsFiniteSet(own) /\ \A t \in own : t.from = a
  BY FS_Subset DEF Of
<1>2. /\ order \in Seq(own) /\ n \in Nat /\ DOMAIN order = 1..n
      /\ \A i, j \in 1..n : i # j => order[i] # order[j]
      /\ \A u \in own : \E i \in 1..n : order[i] = u
      /\ \A i \in 1..n : order[i] \in own
  <2>1. /\ order \in Seq(own) /\ n \in Nat /\ DOMAIN order = 1..n
        /\ \A i, j \in 1..n : i # j => order[i] # order[j]
        /\ \A u \in own : \E i \in 1..n : order[i] = u
    BY <1>1, OrderFacts
  <2>2. \A i \in 1..n : order[i] \in own
    BY <2>1, ElementOfSeq
  <2> QED
    BY <2>1, <2>2
<1>3. order \in Seq(Txs) /\ led \in Ledgers
  BY <1>1, <1>2, SeqMonotonic DEF Ledgers
<1>4. PICK f \in [0..n -> Ledgers] :
        /\ f[0] = led
        /\ \A i \in 1..n : f[i] = ApplyTx(f[i - 1], order[i])
        /\ f[n] = RunTxs(led, order)
  BY <1>3, RunTxsSteps
<1>5. led.bal[a] \in Nat /\ led.nonce[a] \in Nat
  BY DEF LedgerState
<1> HIDE DEF n, own
<1> DEFINE Good(i, l) ==
             /\ l \in LedgerState
             /\ Payable(p \ Done(i), l)
             /\ l.bal[a] + NetOf(Done(i)) = led.bal[a]
             /\ l.nonce[a] >= led.nonce[a]
             /\ \A u \in Done(i) : u.nonce <= l.nonce[a]
             /\ \A m \in Nat : led.nonce[a] < m /\ m <= l.nonce[a] =>
                  \E u \in Done(i) : u.nonce = m
           S == {i \in 0..n : Good(i, f[i])}
<1>6. 0 \in S
  <2>1. Done(0) = {} /\ p \ Done(0) = p
    OBVIOUS
  <2> HIDE DEF Done
  <2>2. led.bal[a] + NetOf(Done(0)) = led.bal[a]
    <3>1. NetOf(Done(0)) = 0
      BY <2>1, NetOfNone
    <3> QED
      BY <1>5, <3>1
  <2>3. \A m \in Nat : ~(led.nonce[a] < m /\ m <= led.nonce[a])
    BY <1>5
  <2>4. Payable(p \ Done(0), led)
    BY <2>1
  <2>5. led.nonce[a] >= led.nonce[a] /\ \A u \in Done(0) : u.nonce <= led.nonce[a]
    BY <1>5, <2>1
  <2>6. Good(0, led)
    BY <2>2, <2>3, <2>4, <2>5
  <2> HIDE DEF Good
  <2> QED
    BY <1>2, <1>4, <2>6
<1>7. ASSUME NEW i \in 1..n, i - 1 \in S
      PROVE  i \in S
  <2> DEFINE t == order[i]
             l == f[i - 1]
             new == ApplyTx(l, t)
             before == Done(i - 1)
             q == p \ before
  <2>1. Good(i - 1, l)
    BY <1>7
  <2>2. i \in 0..n /\ f[i] = new /\ t \in own /\ t \in Txs /\ t.from = a /\ t \in p
    BY <1>1, <1>2, <1>4
  <2>3. /\ before \subseteq own /\ Done(i) = before \cup {t} /\ t \notin before
        /\ p \ Done(i) = q \ {t}
    <3>1. before \subseteq own
      BY <1>2
    <3>2. Done(i) = before \cup {t}
      <4>1. 1..i = (1..(i - 1)) \cup {i}
        OBVIOUS
      <4> QED
        BY <4>1
    <3>3. t \notin before
      BY <1>2
    <3> HIDE DEF Done, before, t
    <3> QED
      BY <3>1, <3>2, <3>3 DEF q
  <2>4. /\ before \in SUBSET Txs /\ IsFiniteSet(before)
        /\ q \in SUBSET Txs /\ IsFiniteSet(q) /\ t \in q
    <3> HIDE DEF before, t
    <3>1. IsFiniteSet(before)
      BY <1>1, <2>3, FS_Subset
    <3>2. IsFiniteSet(p \ before)
      BY FS_Difference
    <3> QED
      BY <1>1, <2>2, <2>3, <3>1, <3>2 DEF q
  <2>5. Before(q, t) = {}
    <3> SUFFICES ASSUME NEW u \in Before(q, t)
                 PROVE  FALSE
      OBVIOUS
    <3>1. u \in p /\ u \notin before /\ u.from = a /\ u.nonce < t.nonce
      BY <2>2 DEF Before
    <3>2. u \in own
      BY <3>1 DEF own, Of
    <3>3. PICK j \in 1..n : order[j] = u
      BY <1>2, <3>2
    <3>4. j \notin 1..(i - 1)
      BY <3>1, <3>3
    <3>5. t.nonce <= u.nonce
      <4>1. i <= j
        BY <1>2, <3>4
      <4>2. CASE i = j
        <5>1. t.nonce \in Nat
          BY <2>2, TxSize
        <5> QED
          BY <3>3, <4>2, <5>1
      <4>3. CASE i < j
        BY <1>2, <3>3, <4>3 DEF Sorted
      <4> QED
        BY <1>2, <4>1, <4>2, <4>3
    <3>6. t.nonce \in Nat /\ u.nonce \in Nat
      BY <2>2, <3>1, TxSize
    <3> QED
      BY <3>1, <3>5, <3>6
  <2> HIDE DEF l, q, t, before, Done
  <2>6. /\ l \in LedgerState /\ Payable(q, l)
        /\ l.bal[a] + NetOf(before) = led.bal[a] /\ l.nonce[a] >= led.nonce[a]
        /\ \A u \in before : u.nonce <= l.nonce[a]
        /\ \A m \in Nat : led.nonce[a] < m /\ m <= l.nonce[a] =>
             \E u \in before : u.nonce = m
    BY <2>1 DEF q, before
  <2>7. TxValid(t, l)
    BY <2>4, <2>5, <2>6, NextIsValid
  <2>8. Payable(q \ {t}, new)
    BY <2>2, <2>4, <2>6, <2>7, TxStep
  <2>9. /\ new \in LedgerState
        /\ new.nonce = [l.nonce EXCEPT ![a] = t.nonce]
        /\ new.bal[a] + Net(t) = l.bal[a]
    BY <2>2, <2>6, <2>7, ApplyTxBalances
  <2>10. /\ new.nonce[a] = t.nonce /\ t.nonce = l.nonce[a] + 1
         /\ t.nonce \in Nat /\ l.nonce[a] \in Nat
         /\ new.bal[a] \in Nat /\ l.bal[a] \in Nat
    <3>1. t.nonce \in Nat /\ l.nonce \in [Addr -> Nat] /\ l.bal[a] \in Nat /\ new.bal[a] \in Nat
      BY <2>2, <2>6, <2>9, TxSize DEF LedgerState
    <3> HIDE DEF new
    <3> QED
      BY <2>2, <2>7, <2>9, <3>1 DEF TxValid
  <2> HIDE DEF new
  <2>11. /\ NetOf(Done(i)) = NetOf(before) + Net(t)
         /\ NetOf(before) \in Nat /\ Net(t) \in Nat
    <3>1. Net(t) \in Nat
      BY <2>2, NetType
    <3> QED
      BY <2>2, <2>3, <2>4, <3>1, NetOfOne
  <2>12. new.bal[a] + NetOf(Done(i)) = led.bal[a]
    BY <1>5, <2>6, <2>9, <2>10, <2>11
  <2>13. \A u \in Done(i) : u.nonce <= new.nonce[a]
    <3> SUFFICES ASSUME NEW u \in before
                 PROVE  u.nonce <= new.nonce[a]
      BY <2>3, <2>10
    <3>1. u.nonce \in Nat /\ u.nonce <= l.nonce[a]
      BY <2>4, <2>6, TxSize
    <3> QED
      BY <2>10, <3>1
  <2>14. \A m \in Nat : led.nonce[a] < m /\ m <= new.nonce[a] => \E u \in Done(i) : u.nonce = m
    <3> SUFFICES ASSUME NEW m \in Nat, led.nonce[a] < m, m <= new.nonce[a]
                 PROVE  \E u \in Done(i) : u.nonce = m
      OBVIOUS
    <3>1. CASE m = t.nonce
      BY <2>3, <3>1
    <3>2. CASE m <= l.nonce[a]
      BY <2>3, <2>6, <3>2
    <3> QED
      BY <2>10, <3>1, <3>2
  <2>15. new.nonce[a] >= led.nonce[a]
    BY <1>5, <2>6, <2>10
  <2>16. Payable(p \ Done(i), new)
    BY <2>3, <2>8
  <2>17. Good(i, new)
    BY <2>9, <2>12, <2>13, <2>14, <2>15, <2>16
  <2> HIDE DEF Good
  <2> QED
    BY <2>2, <2>17
<1> HIDE DEF S, Good
<1>8. Good(n, f[n])
  <2>1. 0..n \subseteq S
    BY <1>2, <1>6, <1>7, UpTo
  <2> QED
    BY <1>2, <2>1 DEF S
<1>9. Done(n) = own
  BY <1>2
<1> HIDE DEF Done
<1>10. /\ f[n] \in LedgerState
       /\ f[n].bal[a] + NetOf(own) = led.bal[a]
       /\ f[n].nonce[a] >= led.nonce[a]
       /\ \A u \in own : u.nonce <= f[n].nonce[a]
       /\ \A m \in Nat : led.nonce[a] < m /\ m <= f[n].nonce[a] =>
            \E u \in own : u.nonce = m
  BY <1>8, <1>9 DEF Good
<1>11. \A m \in Nat : led.nonce[a] < m /\ m <= f[n].nonce[a] =>
         \E u \in p : u.from = a /\ u.nonce = m
  BY <1>1, <1>10
<1> QED
  BY <1>4, <1>10, <1>11 DEF own

(* The same of any state the probe may find for a sender: paid for, and     *)
(* right after the last nonce pending, with none missing before it.        *)
LEMMA ProbeFacts ==
  ASSUME OneTxPerNonce, NEW led \in LedgerState, NEW p \in PayablePools(led), NEW a \in Addr,
         NEW probe \in ProbeStatesFor(p, a, led)
  PROVE  /\ probe \in LedgerState
         /\ probe.bal[a] + NetOf(Of(p, a)) = led.bal[a]
         /\ probe.nonce[a] >= led.nonce[a]
         /\ \A t \in Of(p, a) : t.nonce <= probe.nonce[a]
         /\ \A n \in Nat : led.nonce[a] < n /\ n <= probe.nonce[a] =>
              \E u \in p : u.from = a /\ u.nonce = n
<1>1. p \in SUBSET Txs /\ IsFiniteSet(p) /\ Payable(p, led)
  BY DEF PayablePools, Pools
<1>2. PICK order \in SetToSeqs(Of(p, a)) : Sorted(order) /\ probe = RunTxs(led, order)
  BY DEF ProbeStatesFor, Of, Sorted
<1> QED
  BY <1>1, <1>2, ProbeStep

(* A transaction that submit_tx or the inbox takes in.                     *)
LEMMA TakenIn ==
  ASSUME HonestWorld, NEW led \in LedgerState, NEW p \in PayablePools(led), NEW tx \in Txs,
         NEW probe \in ProbeStatesFor(p, tx.from, led), TxValid(tx, probe)
  PROVE  Add(p, tx) \subseteq PayablePools(led)
<1> DEFINE a == tx.from
<1>1. OneTxPerNonce
  BY DEF HonestWorld, OneTxPerNonce
<1>2. /\ a \in Addr /\ tx.nonce \in Nat /\ Cost(tx) \in Nat /\ led.bal[a] \in Nat
      /\ led.nonce[a] \in Nat /\ p \in SUBSET Txs /\ IsFiniteSet(p) /\ Payable(p, led)
  BY TxSize, CostType DEF LedgerState, PayablePools, Pools
<1>3. /\ probe \in LedgerState
      /\ probe.bal[a] + NetOf(Of(p, a)) = led.bal[a]
      /\ probe.nonce[a] >= led.nonce[a]
      /\ \A t \in Of(p, a) : t.nonce <= probe.nonce[a]
      /\ \A n \in Nat : led.nonce[a] < n /\ n <= probe.nonce[a] =>
           \E u \in p : u.from = a /\ u.nonce = n
  BY <1>1, <1>2, ProbeFacts
<1>4. /\ tx.signed /\ tx.nonce = probe.nonce[a] + 1 /\ Cost(tx) <= probe.bal[a]
      /\ probe.nonce[a] \in Nat /\ probe.bal[a] \in Nat
  BY <1>2, <1>3 DEF TxValid, LedgerState
<1>5. Before(p, tx) = Of(p, a)
  <2> SUFFICES ASSUME NEW t \in Of(p, a)
               PROVE  t.nonce < tx.nonce
    BY DEF Before, Of
  <2>1. t.nonce \in Nat /\ t.nonce <= probe.nonce[a]
    BY <1>2, <1>3, TxSize DEF Of
  <2> QED
    BY <1>4, <2>1
<1>6. NetOf(Before(p, tx)) \in Nat
  BY <1>2, BeforeFacts
<1>7. NetOf(Before(p, tx)) + Cost(tx) <= led.bal[a]
  BY <1>2, <1>3, <1>4, <1>5, <1>6
<1>8. tx.nonce > led.nonce[a]
  BY <1>2, <1>3, <1>4
<1>9. \A n \in Nat : led.nonce[a] < n /\ n < tx.nonce => \E u \in p : u.from = a /\ u.nonce = n
  <2>1. \A n \in Nat : n < tx.nonce => n <= probe.nonce[a]
    BY <1>4
  <2> QED
    BY <1>3, <2>1
<1>10. Payable(p \cup {tx}, led)
  BY <1>1, <1>2, <1>4, <1>7, <1>8, <1>9, AddStep
<1> SUFFICES ASSUME NEW q \in Add(p, tx)
             PROVE  q \in PayablePools(led)
  OBVIOUS
<1>11. q = p \cup {tx} /\ q \in Pools
  BY <1>2, AddWithRoom DEF HonestWorld
<1> QED
  BY <1>10, <1>11 DEF PayablePools

-----------------------------------------------------------------------------
(* The mempool stays payable. *)

(* The inductive invariant, beside NodeInv.                                *)
HonestInv == pool \in PayablePools(cs.state)

(* What an honest world says of faults and nonces.                         *)
LEMMA HonestFaults ==
  ASSUME HonestWorld
  PROVE  /\ OneKindOfFault /\ "storage" \notin Faults /\ "expiry" \notin Faults
         /\ OneTxPerNonce /\ HeightsFollow
BY DEF HonestWorld, OneKindOfFault, OneTxPerNonce

(* The syncs.                                                              *)
LEMMA HonestSync ==
  ASSUME HonestWorld, NodeInv, HonestInv, Sync
  PROVE  HonestInv'
<1>1. "storage" \notin Faults /\ OneTxPerNonce /\ HeightsFollow /\ MaxReorg = 0
      /\ IsFiniteSet(Txs) /\ PoolBytes(Txs) <= MempoolMaxBytes
  BY HonestFaults DEF HonestWorld
<1>2. PICK remote \in RemoteChains :
        AdoptChain(remote) \/ AdoptFails(remote) \/ SalvageFork(remote)
  BY DEF Sync
<1>3. SoundState(cs) /\ cs.state \in LedgerState /\ cs.state = Replay(Tail(cs.chain))
      /\ cs.chain \in Chains
  BY SoundFacts DEF NodeInv
<1>4. pool \in SUBSET Txs /\ IsFiniteSet(pool) /\ Payable(pool, cs.state) /\ pool \in Pools
  BY DEF HonestInv, PayablePools, Pools
<1> DEFINE fork == ForkPoint(cs.chain, remote)
<1>5. Acceptable(remote)
  BY <1>1, <1>2 DEF AdoptChain, AdoptFails, SalvageFork
<1>6. /\ remote \in Chains /\ ValidTail(remote, 2) /\ SoundState(FromChain(remote))
      /\ fork \in Nat /\ fork <= Len(cs.chain) /\ fork <= Len(remote)
  BY <1>1, <1>5, RemoteFacts
<1>7. /\ fork = Len(cs.chain) /\ fork \in 1..Len(remote)
      /\ SubSeq(remote, 2, fork) = Tail(cs.chain)
  BY <1>1, RemoteContinues
<1> HIDE DEF fork
<1>8. CASE AdoptChain(remote)
  <2> DEFINE new == FromChain(remote)
             confirmed == ConfirmedFrom(remote, fork)
             back == TxsFrom(cs.chain, fork)
  <2>1. cs' = new /\ pool' \in Readd(pool \ confirmed, back, confirmed, new.state)
    BY <1>8 DEF AdoptChain, fork
  <2>2. new.state = Replay(Tail(remote)) /\ new.state \in LedgerState
    BY <1>6, SoundFacts, FromChainSound
  <2>3. back \in Seq(Txs)
    BY <1>3, <1>6, TxsFromType
  <2>4. Payable(pool \ confirmed, new.state)
    <3>1. Payable(pool, Replay(SubSeq(remote, 2, fork)))
      BY <1>3, <1>4, <1>7
    <3> QED
      BY <1>1, <1>4, <1>6, <1>7, <2>2, <3>1, SuffixStep
  <2> HIDE DEF new, confirmed, back
  <2>5. pool \ confirmed \in PayablePools(new.state)
    BY <1>4, <2>4, PoolsSubset DEF PayablePools
  <2>6. AddStays(PayablePools(new.state), confirmed, new.state)
    BY <1>1, <2>2, AddStaysPayable
  <2>7. Readd(pool \ confirmed, back, confirmed, new.state) \subseteq PayablePools(new.state)
    BY <2>3, <2>5, <2>6, ReaddClosed
  <2> QED
    BY <2>1, <2>7 DEF HonestInv
<1>9. CASE AdoptFails(remote)
  BY <1>1, <1>9 DEF AdoptFails
<1>10. CASE SalvageFork(remote)
  <2> DEFINE confirmed == ConfirmedFrom(cs.chain, fork)
             back == TxsFrom(remote, fork)
  <2>1. UNCHANGED cs /\ pool' \in Readd(pool, back, confirmed, cs.state)
    BY <1>10 DEF SalvageFork, fork
  <2>2. back \in Seq(Txs)
    BY <1>6, TxsFromType
  <2> HIDE DEF confirmed, back
  <2>3. AddStays(PayablePools(cs.state), confirmed, cs.state)
    BY <1>1, <1>3, AddStaysPayable
  <2>4. pool \in PayablePools(cs.state)
    BY DEF HonestInv
  <2>5. Readd(pool, back, confirmed, cs.state) \subseteq PayablePools(cs.state)
    BY <2>2, <2>3, <2>4, ReaddClosed
  <2> QED
    BY <2>1, <2>5 DEF HonestInv
<1> QED
  BY <1>2, <1>8, <1>9, <1>10

(* Every step.                                                             *)
LEMMA HonestStep ==
  ASSUME HonestWorld, NodeInv, HonestInv, [Next]_vars
  PROVE  HonestInv'
<1>1. "storage" \notin Faults /\ "expiry" \notin Faults /\ OneTxPerNonce /\ OneKindOfFault
  BY HonestFaults
<1>2. SoundState(cs) /\ cs.state \in LedgerState
  BY SoundFacts DEF NodeInv
<1>3. pool \in SUBSET Txs /\ IsFiniteSet(pool) /\ Payable(pool, cs.state) /\ pool \in Pools
  BY DEF HonestInv, PayablePools, Pools
<1>4. ASSUME UNCHANGED <<cs, pool>>
      PROVE  HonestInv'
  BY <1>4 DEF HonestInv
<1>5. CASE Inbox
  <2>1. ASSUME NEW tx \in Txs, HandleTx(tx)
        PROVE  HonestInv'
    <3>1. UNCHANGED cs /\ pool' \in Add(pool, tx)
      BY <2>1 DEF HandleTx
    <3>2. PICK probe \in ProbeStatesFor(pool, tx.from, cs.state) : TxValid(tx, probe)
      BY <2>1 DEF HandleTx
    <3>3. pool \in PayablePools(cs.state)
      BY DEF HonestInv
    <3>4. Add(pool, tx) \subseteq PayablePools(cs.state)
      BY <1>2, <3>2, <3>3, TakenIn
    <3> QED
      BY <3>1, <3>4 DEF HonestInv
  <2>2. ASSUME NEW tx \in Txs, HandleTxRaises(tx)
        PROVE  HonestInv'
    BY <1>4, <2>2 DEF HandleTxRaises
  <2>3. ASSUME NEW body \in PeerBodies, HandleBlock(body)
        PROVE  HonestInv'
    BY <1>4, <2>3 DEF HandleBlock
  <2>4. ASSUME HandleMalformed
        PROVE  HonestInv'
    BY <1>4, <2>4 DEF HandleMalformed
  <2> QED
    BY <1>5, <2>1, <2>2, <2>3, <2>4 DEF Inbox
<1>6. CASE Sync
  BY <1>6, HonestSync
<1>7. CASE StartVdf
  <2>1. UNCHANGED cs /\ pool' = PruneStale(pool, cs.state, {})
    BY <1>1, <1>7 DEF StartVdf
  <2>2. PruneStale(pool, cs.state, {}) = pool
    BY <1>3 DEF PruneStale, Payable
  <2> QED
    BY <1>4, <2>1, <2>2
<1>8. CASE DiscardVdf \/ OfferBlock \/ InvalidCandidate
  BY <1>4, <1>8 DEF DiscardVdf, OfferBlock, InvalidCandidate
<1>9. CASE Commit
  <2>1. pc = "offer"
    BY <1>9 DEF Commit
  <2>2. PICK winner \in Winners :
          cs' = ApplyBlock(cs, winner) /\ pool' = pool \ ToSet(winner.txs)
    BY <1>9 DEF Commit
  <2>3. winner \in Block /\ Valid(winner, cs.state, cs.chain)
    BY <2>1, WinnerFacts DEF Appendable
  <2>4. cs'.state = AddBlock(cs.state, winner)
    BY <2>2 DEF ApplyBlock
  <2>5. Payable(pool', cs'.state)
    BY <1>1, <1>2, <1>3, <2>2, <2>3, <2>4, BlockStep
  <2>6. pool' \in Pools
    BY <1>3, <2>2, PoolsSubset
  <2> QED
    BY <2>5, <2>6 DEF HonestInv, PayablePools
<1>10. CASE CommitFails
  BY <1>1, <1>10 DEF CommitFails
<1>11. CASE Crash
  <2>1. UNCHANGED cs /\ pool' = {}
    BY <1>11 DEF Crash
  <2> QED
    BY <2>1, EmptyPool DEF HonestInv, PayablePools, Payable
<1>12. CASE Restart
  <2>1. cs' = cs /\ pool' = pool
    BY <1>1, <1>12, CrashInv DEF Restart
  <2> QED
    BY <1>4, <2>1
<1>13. CASE UNCHANGED vars
  BY <1>4, <1>13 DEF vars
<1> QED
  BY <1>5, <1>6, <1>7, <1>8, <1>9, <1>10, <1>11, <1>12, <1>13 DEF Next

(* In an honest world the mempool is payable at every moment.              *)
THEOREM HonestInvariant == ASSUME HonestWorld PROVE Spec => [](NodeInv /\ HonestInv)
<1>1. OneKindOfFault /\ HeightsFollow
  BY HonestFaults
<1>2. Init => NodeInv /\ HonestInv
  <2>1. Init => pool = {}
    BY DEF Init
  <2>2. {} \in PayablePools(cs.state)
    BY EmptyPool DEF PayablePools, Payable
  <2> QED
    BY <2>1, <2>2, InitInv DEF HonestInv
<1>3. NodeInv /\ HonestInv /\ [Next]_vars => (NodeInv /\ HonestInv)'
  BY <1>1, NextInv, HonestStep
<1> QED
  BY <1>2, <1>3, PTL DEF Spec

(* A payable mempool lets every probe through.                             *)
LEMMA PayableIsAffordable ==
  ASSUME HonestWorld, NodeInv, HonestInv
  PROVE  PendingIsAffordable
<1>1. OneTxPerNonce /\ cs.state \in LedgerState /\ pool \in PayablePools(cs.state)
  BY HonestFaults, SoundFacts DEF NodeInv, HonestInv
<1> SUFFICES ASSUME NEW tx \in Txs, Raised \in ProbeStatesFor(pool, tx.from, cs.state)
             PROVE  FALSE
  BY DEF PendingIsAffordable
<1>2. tx.from \in Addr
  BY TxSize
<1>3. Raised \in LedgerState
  BY <1>1, <1>2, ProbeFacts
<1> QED
  BY <1>3, LedgerAssumption

(* In an honest world no transaction ends a cycle of the loop: none that   *)
(* pends is one its sender cannot pay when a client or a peer brings the   *)
(* next (mempool.probe_state_for under node._validate_for_mempool).        *)
THEOREM ProbesNeverRaise == ASSUME HonestWorld PROVE Spec => []PendingIsAffordable
<1>1. NodeInv /\ HonestInv => PendingIsAffordable
  BY PayableIsAffordable
<1> QED
  BY <1>1, HonestInvariant, PTL

-----------------------------------------------------------------------------
(* What is packed from a payable mempool. *)

(* The bytes of an empty list, and of a list with one more transaction.    *)
LEMMA BytesFacts ==
  /\ Bytes(<<>>) = 0
  /\ \A txs \in Seq(Txs), tx \in Txs :
       Bytes(txs) \in Nat /\ Bytes(Append(txs, tx)) = Bytes(txs) + tx.size
<1>1. Bytes(<<>>) = 0
  <2> DEFINE f == [i \in DOMAIN <<>> |-> <<>>[i].size]
  <2>1. f \in [{} -> Nat] /\ \A x \in {} : f[x] = 0
    OBVIOUS
  <2> HIDE DEF f
  <2>2. Total(f) = 0
    BY <2>1, TotalZero
  <2> QED
    BY <2>2 DEF Bytes, f
<1>2. ASSUME NEW txs \in Seq(Txs), NEW tx \in Txs
      PROVE  Bytes(txs) \in Nat /\ Bytes(Append(txs, tx)) = Bytes(txs) + tx.size
  <2> DEFINE n == Len(txs)
             more == Append(txs, tx)
             f == [i \in 1..(n + 1) |-> more[i].size]
             g == [i \in 1..n |-> txs[i].size]
  <2>1. /\ n \in Nat /\ DOMAIN txs = 1..n /\ DOMAIN more = 1..(n + 1)
        /\ \A i \in 1..n : more[i] = txs[i]
        /\ more[n + 1] = tx
        /\ \A i \in 1..n : txs[i] \in Txs
    BY LenProperties, AppendProperties, ElementOfSeq
  <2> HIDE DEF n, more
  <2>2. /\ g \in [1..n -> Nat] /\ f \in [1..(n + 1) -> Nat]
        /\ \A i \in 1..n : g[i] = f[i]
        /\ f[n + 1] = tx.size
    BY <2>1, TxSize
  <2>3. Bytes(more) = Total(f) /\ Bytes(txs) = Total(g)
    BY <2>1 DEF Bytes
  <2> HIDE DEF f, g
  <2>4. Total(f) = Total(g) + f[n + 1]
    BY <2>1, <2>2, TotalAppend
  <2>5. IsFiniteSet(1..n)
    BY <2>1, FS_Interval
  <2>6. Total(g) \in Nat
    BY <2>2, <2>5, UnitsFinite
  <2> QED
    BY <2>2, <2>3, <2>4, <2>6 DEF more
<1> QED
  BY <1>1, <1>2

(* The set of a list, and of a list with one more element.                 *)
LEMMA ToSetFacts ==
  /\ ToSet(<<>>) = {}
  /\ \A txs \in Seq(Txs), tx \in Txs :
       ToSet(txs) \in SUBSET Txs /\ ToSet(Append(txs, tx)) = ToSet(txs) \cup {tx}
<1>1. ASSUME NEW txs \in Seq(Txs), NEW tx \in Txs
      PROVE  ToSet(txs) \in SUBSET Txs /\ ToSet(Append(txs, tx)) = ToSet(txs) \cup {tx}
  <2> DEFINE n == Len(txs)
             more == Append(txs, tx)
  <2>1. /\ n \in Nat /\ DOMAIN txs = 1..n /\ DOMAIN more = 1..(n + 1)
        /\ \A i \in 1..n : more[i] = txs[i]
        /\ more[n + 1] = tx
        /\ \A i \in 1..n : txs[i] \in Txs
    BY LenProperties, AppendProperties, ElementOfSeq
  <2> HIDE DEF n, more
  <2>2. 1..(n + 1) = (1..n) \cup {n + 1}
    BY <2>1
  <2>3. ToSet(more) = {more[i] : i \in 1..(n + 1)} /\ ToSet(txs) = {txs[i] : i \in 1..n}
    BY <2>1 DEF ToSet
  <2>4. ToSet(more) = {txs[i] : i \in 1..n} \cup {tx}
    BY <2>1, <2>2, <2>3
  <2> QED
    BY <2>1, <2>3, <2>4 DEF more
<1>2. ToSet(<<>>) = {}
  BY DEF ToSet
<1> QED
  BY <1>1, <1>2

(* No transaction leaves the ledger as it is.                              *)
LEMMA ApplyTransactionsEmpty ==
  ASSUME NEW led \in LedgerState
  PROVE  ApplyTransactions(led, <<>>) = led
<1> DEFINE none == <<>>
<1>1. none \in Seq(Txs) /\ Len(none) = 0 /\ led \in Ledgers
  BY DEF Ledgers
<1> HIDE DEF none
<1>2. PICK f \in [0..Len(none) -> Ledgers] :
        f[0] = led /\ f[Len(none)] = ApplyTransactions(led, none)
  BY <1>1, ApplyTransactionsSteps
<1>3. ApplyTransactions(led, none) = led
  BY <1>1, <1>2
<1> QED
  BY <1>3 DEF none

(* One more transaction in a block that is validated.                      *)
LEMMA ApplyTransactionsAppend ==
  ASSUME NEW led \in LedgerState, NEW txs \in Seq(Txs), NEW tx \in Txs
  PROVE  ApplyTransactions(led, Append(txs, tx)) = ValidStep(ApplyTransactions(led, txs), tx)
<1>1. led \in Ledgers
  BY DEF Ledgers
<1> DEFINE n == Len(txs)
           more == Append(txs, tx)
<1>3. /\ n \in Nat /\ more \in Seq(Txs) /\ Len(more) = n + 1
      /\ \A i \in 1..n : more[i] = txs[i]
      /\ more[n + 1] = tx
  BY LenProperties, AppendProperties
<1> HIDE DEF n, more
<1>4. PICK f \in [0..n -> Ledgers] :
        /\ f[0] = led
        /\ \A i \in 1..n : f[i] = ValidStep(f[i - 1], txs[i])
        /\ f[n] = ApplyTransactions(led, txs)
  BY <1>1, ApplyTransactionsSteps DEF n
<1>5. PICK g \in [0..(n + 1) -> Ledgers] :
        /\ g[0] = led
        /\ \A i \in 1..(n + 1) : g[i] = ValidStep(g[i - 1], more[i])
        /\ g[n + 1] = ApplyTransactions(led, more)
  <2>1. \E g \in [0..Len(more) -> Ledgers] :
          /\ g[0] = led
          /\ \A i \in 1..Len(more) : g[i] = ValidStep(g[i - 1], more[i])
          /\ g[Len(more)] = ApplyTransactions(led, more)
    BY <1>1, <1>3, ApplyTransactionsSteps
  <2> QED
    BY <1>3, <2>1
<1>6. f[n] = g[n]
  <2> DEFINE S == {i \in 0..n : f[i] = g[i]}
  <2>1. 0 \in S /\ \A i \in 1..n : i - 1 \in S => i \in S
    BY <1>3, <1>4, <1>5
  <2> HIDE DEF S
  <2>2. 0..n \subseteq S
    BY <1>3, <2>1, UpTo
  <2> QED
    BY <1>3, <2>2 DEF S
<1>7. g[n + 1] = ValidStep(g[n], tx)
  BY <1>3, <1>5
<1> QED
  BY <1>4, <1>5, <1>6, <1>7 DEF more

(* After the first i transactions of the order: what was taken is some of  *)
(* them, a valid block so far that fits, and whoever was left out is left  *)
(* out from there on.                                                      *)
TakenWell(order, p, led, i, taken) ==
  /\ ToSet(taken.txs) \subseteq {order[j] : j \in 1..i}
  /\ \A j \in 1..i : order[j] \in ToSet(taken.txs) \/ order[j].from \in taken.full
  /\ IsFiniteSet(ToSet(taken.txs))
  /\ Bytes(taken.txs) = PoolBytes(ToSet(taken.txs)) /\ Bytes(taken.txs) <= BlockLimit
  /\ ApplyTransactions(led, taken.txs) \in LedgerState
  /\ Payable(p \ ToSet(taken.txs), ApplyTransactions(led, taken.txs))

(* The next transaction is taken or left out, and the block stays as good. *)
LEMMA PackingStep ==
  ASSUME OneTxPerNonce, NEW led \in LedgerState, NEW p \in SUBSET Txs, IsFiniteSet(p),
         NEW order \in SetToSeqs(p), PackingOrder(order),
         NEW i \in 1..Len(order), NEW taken \in Packed, TakenWell(order, p, led, i - 1, taken)
  PROVE  TakenWell(order, p, led, i, PackStep(taken, order[i]))
<1> DEFINE n == Len(order)
           t == order[i]
           set == ToSet(taken.txs)
           post == ApplyTransactions(led, taken.txs)
<1>1. /\ order \in Seq(p) /\ n \in Nat /\ DOMAIN order = 1..n
      /\ \A j, k \in 1..n : j # k => order[j] # order[k]
      /\ \A u \in p : \E j \in 1..n : order[j] = u
      /\ \A j \in 1..n : order[j] \in p
  <2>1. /\ order \in Seq(p) /\ n \in Nat /\ DOMAIN order = 1..n
        /\ \A j, k \in 1..n : j # k => order[j] # order[k]
        /\ \A u \in p : \E j \in 1..n : order[j] = u
    BY OrderFacts
  <2>2. \A j \in 1..n : order[j] \in p
    BY <2>1, ElementOfSeq
  <2> QED
    BY <2>1, <2>2
<1>2. t \in p /\ t \in Txs /\ t.from \in Addr /\ t.nonce \in Nat /\ t.size \in Nat
  BY <1>1, TxSize
<1>3. /\ set \subseteq {order[j] : j \in 1..(i - 1)}
      /\ \A j \in 1..(i - 1) : order[j] \in set \/ order[j].from \in taken.full
      /\ IsFiniteSet(set)
      /\ Bytes(taken.txs) = PoolBytes(set) /\ Bytes(taken.txs) <= BlockLimit
      /\ post \in LedgerState /\ Payable(p \ set, post)
  BY DEF TakenWell
<1>4. taken.txs \in Seq(Txs) /\ taken.full \in SUBSET Addr
      /\ taken = [txs |-> taken.txs, full |-> taken.full]
  BY DEF Packed
<1>5. (1..i) = (1..(i - 1)) \cup {i}
  OBVIOUS
<1> HIDE DEF n, t, set, post
<1>6. CASE t.from \in taken.full
  <2>1. PackStep(taken, t) = taken
    BY <1>6 DEF PackStep
  <2>2. \A j \in 1..i : order[j] \in set \/ order[j].from \in taken.full
    BY <1>3, <1>5, <1>6 DEF t
  <2>3. set \subseteq {order[j] : j \in 1..i}
    BY <1>3, <1>5
  <2> QED
    BY <1>3, <2>1, <2>2, <2>3 DEF TakenWell, t, set, post
<1>7. CASE t.from \notin taken.full /\ Bytes(taken.txs) + t.size > BlockLimit
  <2> DEFINE new == PackStep(taken, t)
  <2>1. new.txs = taken.txs /\ new.full = taken.full \cup {t.from}
    BY <1>4, <1>7 DEF PackStep
  <2> HIDE DEF new
  <2>2. \A j \in 1..i : order[j] \in set \/ order[j].from \in new.full
    BY <1>3, <1>5, <2>1 DEF t
  <2>3. set \subseteq {order[j] : j \in 1..i}
    BY <1>3, <1>5
  <2>4. ToSet(new.txs) = set /\ Bytes(new.txs) = Bytes(taken.txs)
        /\ ApplyTransactions(led, new.txs) = post
    BY <2>1 DEF set, post
  <2>5. TakenWell(order, p, led, i, new)
    BY <1>3, <2>2, <2>3, <2>4 DEF TakenWell
  <2> QED
    BY <2>5 DEF new, t
<1>8. CASE t.from \notin taken.full /\ ~(Bytes(taken.txs) + t.size > BlockLimit)
  <2> DEFINE new == PackStep(taken, t)
             q == p \ set
  <2>1. new.txs = Append(taken.txs, t) /\ new.full = taken.full
    BY <1>4, <1>8 DEF PackStep
  <2>2. set \in SUBSET Txs /\ ToSet(new.txs) = set \cup {t}
    BY <1>2, <1>4, <2>1, ToSetFacts DEF set
  <2>3. Bytes(taken.txs) \in Nat /\ Bytes(new.txs) = Bytes(taken.txs) + t.size
    BY <1>2, <1>4, <2>1, BytesFacts
  <2>4. ApplyTransactions(led, new.txs) = ValidStep(post, t)
    BY <1>2, <1>4, <2>1, ApplyTransactionsAppend DEF post
  <2>5. t \notin set
    BY <1>1, <1>3 DEF t, n
  <2>6. q \in SUBSET Txs /\ IsFiniteSet(q) /\ t \in q
    BY <1>2, <2>5, FS_Difference
  <2>7. Before(q, t) = {}
    <3> SUFFICES ASSUME NEW u \in Before(q, t)
                 PROVE  FALSE
      OBVIOUS
    <3>1. u \in p /\ u \notin set /\ u.from = t.from /\ u.nonce < t.nonce /\ u.nonce \in Nat
      BY TxSize DEF Before
    <3>2. PICK j \in 1..n : order[j] = u
      BY <1>1, <3>1
    <3>3. ~(j < i)
      <4> SUFFICES ASSUME j < i
                   PROVE  FALSE
        OBVIOUS
      <4>1. j \in 1..(i - 1)
        BY <1>1
      <4> QED
        BY <1>3, <1>8, <3>1, <3>2, <4>1
    <3>4. j # i
      BY <1>2, <3>1, <3>2 DEF t
    <3>5. i < j /\ i \in DOMAIN order /\ j \in DOMAIN order
      BY <1>1, <3>3, <3>4 DEF n
    <3>6. order[i].from = order[j].from
      BY <3>1, <3>2 DEF t
    <3>7. order[i].nonce <= order[j].nonce
      BY <3>5, <3>6 DEF PackingOrder
    <3> QED
      BY <1>2, <3>1, <3>2, <3>7 DEF t
  <2> HIDE DEF new, q
  <2>8. TxValid(t, post)
    BY <1>3, <2>6, <2>7, NextIsValid DEF q
  <2>9. post # Raised
    BY <1>3, LedgerAssumption
  <2>10. ApplyTransactions(led, new.txs) = ApplyTx(post, t)
    BY <2>4, <2>8, <2>9 DEF ValidStep
  <2>11. ApplyTx(post, t) \in LedgerState
    BY <1>2, <1>3, <2>8, ApplyTxFacts
  <2>12. Payable(q \ {t}, ApplyTx(post, t))
    BY <1>2, <1>3, <2>6, <2>8, TxStep DEF q
  <2>13. q \ {t} = p \ ToSet(new.txs)
    BY <2>2 DEF q
  <2>14. PoolBytes(set \cup {t}) = PoolBytes(set) + t.size
    BY <1>2, <1>3, <2>2, <2>5, PoolBytesOne
  <2>15. IsFiniteSet(set \cup {t})
    BY <1>3, FS_AddElement
  <2>16. Bytes(new.txs) = PoolBytes(ToSet(new.txs)) /\ Bytes(new.txs) <= BlockLimit
    <3>1. BlockLimit \in Nat
      BY ChainAssumption
    <3> QED
      BY <1>2, <1>3, <1>8, <2>2, <2>3, <2>14, <3>1
  <2>17. ToSet(new.txs) \subseteq {order[j] : j \in 1..i}
    BY <1>3, <1>5, <2>2 DEF t
  <2>18. \A j \in 1..i : order[j] \in ToSet(new.txs) \/ order[j].from \in new.full
    BY <1>3, <1>5, <2>1, <2>2 DEF t
  <2>19. /\ ApplyTransactions(led, new.txs) \in LedgerState
         /\ Payable(p \ ToSet(new.txs), ApplyTransactions(led, new.txs))
    BY <2>10, <2>11, <2>12, <2>13
  <2>20. TakenWell(order, p, led, i, new)
    BY <2>2, <2>15, <2>16, <2>17, <2>18, <2>19 DEF TakenWell
  <2> QED
    BY <2>20 DEF new, t
<1> QED
  BY <1>6, <1>7, <1>8

(* What is packed fits, transactions that are there once, and passes the   *)
(* validation of a block.                                                  *)
LEMMA PackingFacts ==
  ASSUME OneTxPerNonce, NEW led \in LedgerState, NEW p \in PayablePools(led),
         NEW txs \in Packings(p)
  PROVE  /\ txs \in Seq(Txs) /\ ToSet(txs) \in SUBSET Txs
         /\ Bytes(txs) = PoolBytes(ToSet(txs)) /\ Bytes(txs) <= BlockLimit
         /\ ApplyTransactions(led, txs) \in LedgerState
<1>1. p \in SUBSET Txs /\ IsFiniteSet(p) /\ Payable(p, led) /\ p \in Pools
  BY DEF PayablePools, Pools
<1>2. PICK order \in SetToSeqs(p) : PackingOrder(order) /\ txs = Pack(order)
  BY DEF Packings
<1> DEFINE n == Len(order)
<1>3. n \in Nat /\ order \in Seq(Txs)
  BY <1>1, OrderFacts, SeqMonotonic
<1>4. PICK f \in [0..n -> Packed] :
        /\ f[0] = [txs |-> <<>>, full |-> {}]
        /\ \A i \in 1..n : f[i] = PackStep(f[i - 1], order[i])
        /\ f[n].txs = Pack(order)
  BY <1>3, PackSteps
<1> DEFINE S == {i \in 0..n : TakenWell(order, p, led, i, f[i])}
<1>5. 0 \in S
  <2>1. f[0].txs = <<>>
    BY <1>4
  <2>2. ToSet(f[0].txs) = {} /\ Bytes(f[0].txs) = 0
    BY <2>1, ToSetFacts, BytesFacts
  <2>3. PoolBytes({}) = 0
    <3> DEFINE g == [t \in {} |-> t.size]
    <3>1. g \in [{} -> Nat] /\ \A x \in {} : g[x] = 0
      OBVIOUS
    <3>2. PoolBytes({}) = Total(g)
      BY DEF PoolBytes
    <3> HIDE DEF g
    <3> QED
      BY <3>1, <3>2, TotalZero
  <2>4. ApplyTransactions(led, f[0].txs) = led
    BY <2>1, ApplyTransactionsEmpty
  <2>5. 0 <= BlockLimit /\ IsFiniteSet({})
    BY ChainAssumption, FS_EmptySet
  <2>6. p \ ToSet(f[0].txs) = p
    BY <2>2
  <2>7. \A j \in 1..0 : FALSE
    OBVIOUS
  <2>8. TakenWell(order, p, led, 0, f[0])
    BY <1>1, <2>2, <2>3, <2>4, <2>5, <2>6, <2>7 DEF TakenWell
  <2> QED
    BY <1>3, <2>8
<1>6. ASSUME NEW i \in 1..n, i - 1 \in S
      PROVE  i \in S
  <2>1. i \in 0..n /\ i - 1 \in 0..n /\ f[i] = PackStep(f[i - 1], order[i])
        /\ TakenWell(order, p, led, i - 1, f[i - 1])
    BY <1>3, <1>4, <1>6
  <2>2. f[i - 1] \in Packed
    BY <1>4, <2>1
  <2>3. TakenWell(order, p, led, i, PackStep(f[i - 1], order[i]))
    BY <1>1, <1>2, <2>1, <2>2, PackingStep
  <2> QED
    BY <2>1, <2>3
<1> HIDE DEF S
<1>7. TakenWell(order, p, led, n, f[n])
  <2>1. 0..n \subseteq S
    BY <1>3, <1>5, <1>6, UpTo
  <2> QED
    BY <1>3, <2>1 DEF S
<1>8. txs = f[n].txs /\ f[n] \in Packed
  BY <1>2, <1>3, <1>4
<1>9. txs \in Seq(Txs)
  BY <1>8 DEF Packed
<1>10. \A i \in 1..n : order[i] \in Txs
  BY <1>3, ElementOfSeq
<1> QED
  BY <1>7, <1>8, <1>9, <1>10 DEF TakenWell

(* A candidate made from a payable mempool on the chain it belongs to is   *)
(* valid.                                                                  *)
LEMMA CandidateIsValid ==
  ASSUME HonestWorld, NEW s, SoundState(s), NEW p \in PayablePools(s.state),
         NEW txs \in Packings(p), NEW dt \in OwnDelays
  PROVE  Valid(Forge(s.chain, [builder |-> Me, txs |-> txs, dt |-> dt, sound |-> TRUE,
                               extra |-> 0, rated |-> TRUE, zero |-> FALSE, claimed |-> 0]),
               s.state, s.chain)
<1> DEFINE body == [builder |-> Me, txs |-> txs, dt |-> dt, sound |-> TRUE, extra |-> 0,
                    rated |-> TRUE, zero |-> FALSE, claimed |-> 0]
           b == Forge(s.chain, body)
<1>1. s.chain \in Chains /\ s.state \in LedgerState /\ OneTxPerNonce
  BY SoundFacts, HonestFaults
<1>2. /\ txs \in Seq(Txs) /\ ToSet(txs) \in SUBSET Txs
      /\ Bytes(txs) = PoolBytes(ToSet(txs)) /\ Bytes(txs) <= BlockLimit
      /\ ApplyTransactions(s.state, txs) \in LedgerState
  BY <1>1, PackingFacts
<1>3. Bytes(txs) + SealBytes <= BlockLimit
  BY <1>2 DEF HonestWorld
<1>4. dt >= SkewSeconds
  BY DEF HonestWorld
<1>5. GetVdfIterations(s.chain) \in Nat
  BY <1>1, IterationsFacts
<1>6. /\ b.txs = txs /\ b.sound = TRUE /\ b.dt = dt
      /\ b.prev = HashOf(Last(s.chain)) /\ b.height = Last(s.chain).height + 1
      /\ b.rated /\ b.iters = GetVdfIterations(s.chain)
  BY <1>5 DEF Forge
<1> HIDE DEF b
<1>7. HeaderOk(b, s.chain)
  BY <1>3, <1>4, <1>6 DEF HeaderOk, DueRate
<1>8. Valid(b, s.state, s.chain)
  BY <1>2, <1>6, <1>7 DEF Valid
<1> QED
  BY <1>8 DEF b, body

(* In an honest world a VDF whose tip stands never ends without a block of *)
(* our own to offer, whatever was submitted, confirmed and synced while it *)
(* ran: every candidate that may be packed passes the node's own check     *)
(* (node._reorg_mempool and _readd_valid_txs, block.assemble).             *)
THEOREM OwnBlocksAreValid == ASSUME HonestWorld PROVE Spec => []OwnBlockIsValid
<1>1. ASSUME NodeInv, HonestInv
      PROVE  OwnBlockIsValid
  <2> SUFFICES ASSUME TipUnchanged, NEW txs \in Packings(pool), NEW dt \in OwnDelays
               PROVE  Valid(Candidate(txs, dt), base.state, base.chain)
    BY DEF OwnBlockIsValid
  <2>1. SoundState(base) /\ pool \in PayablePools(base.state)
    BY <1>1 DEF NodeInv, HonestInv, TipUnchanged
  <2> QED
    BY <2>1, CandidateIsValid DEF Candidate
<1>2. NodeInv /\ HonestInv => OwnBlockIsValid
  BY <1>1
<1> QED
  BY <1>2, HonestInvariant, PTL

=============================================================================
