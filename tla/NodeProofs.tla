------------------------------ MODULE NodeProofs ------------------------------
(***************************************************************************)
(* Proofs about the node's loop, for every set of addresses, transactions  *)
(* and bounds, with one hypothesis on the faults (OneKindOfFault).         *)
(*                                                                         *)
(* The argument goes from the inside out.                                  *)
(*   - Lists of transactions and chains of blocks: what the operators of   *)
(*     Ledger and Chain return, that forging makes valid blocks, and that  *)
(*     a chain that joins a valid one is valid.                            *)
(*   - The database: what a save, a replacement and a load do to the rows. *)
(*   - The mempool: what an eviction leaves, and that whatever holds after *)
(*     each transaction that is added again holds after a whole reorg.     *)
(*   - NodeInv, the inductive invariant, one lemma per kind of step, and   *)
(*     the safety properties that follow from it.                          *)
(*   - The refinement: the node implements a durable BestChain.            *)
(*   - Three properties with an argument of their own: the winner of a     *)
(*     cycle, the victims of an eviction, the freshness of the pool; and   *)
(*     the transaction index, with the invariant IndexInv.                 *)
(***************************************************************************)
EXTENDS NodeProperties, LedgerTheorems

-----------------------------------------------------------------------------
(* Lists of transactions. *)

(* One transaction of a block: validated, then applied.                    *)
ValidStep(led, tx) == IF led # Raised /\ TxValid(tx, led) THEN ApplyTx(led, tx) ELSE Raised

(* The ledgers that ApplyTransactions goes through.                        *)
LEMMA ApplyTransactionsSteps ==
  ASSUME NEW led \in Ledgers, NEW txs \in Seq(Txs)
  PROVE  \E f \in [0..Len(txs) -> Ledgers] :
           /\ f[0] = led
           /\ \A i \in 1..Len(txs) : f[i] = ValidStep(f[i - 1], txs[i])
           /\ f[Len(txs)] = ApplyTransactions(led, txs)
<1> DEFINE n == Len(txs)
           H == [i \in 1..n |-> [l \in Ledgers |-> ValidStep(l, txs[i])]]
           Run(g) == [i \in 0..n |-> IF i = 0 THEN led ELSE ValidStep(g[i - 1], txs[i])]
<1>1. n \in Nat /\ \A i \in 1..n : txs[i] \in Txs
  BY ElementOfSeq, LenProperties
<1>2. \A l \in Ledgers, tx \in Txs : ValidStep(l, tx) \in Ledgers
  BY ApplyTxType DEF Ledgers, ValidStep
<1>3. H \in [1..n -> [Ledgers -> Ledgers]]
  <2> HIDE DEF n
  <2> QED
    BY <1>1, <1>2
<1> HIDE DEF n
<1>4. PICK f \in [0..n -> Ledgers] : f[0] = led /\ \A i \in 1..n : f[i] = H[i][f[i - 1]]
  <2> HIDE DEF H
  <2> QED
    BY <1>1, <1>3, LedgerSteps, Zenon
<1>5. ASSUME NEW i \in 1..n
      PROVE  f[i] = ValidStep(f[i - 1], txs[i])
  <2>1. f[i] = H[i][f[i - 1]] /\ f[i - 1] \in Ledgers
    BY <1>1, <1>4
  <2> QED
    BY <2>1
<1>6. f = Run(f)
  BY <1>1, <1>4, <1>5
<1> DEFINE after == CHOOSE g : g = Run(g)
<1>7. after = Run(after)
  BY <1>6
<1>8. ApplyTransactions(led, txs) = after[n]
  BY DEF ApplyTransactions, n, ValidStep
<1> HIDE DEF after
<1>9. /\ after[0] = led
      /\ \A i \in 1..n : after[i] = ValidStep(after[i - 1], txs[i])
  BY <1>1, <1>7
<1> DEFINE S == {i \in 0..n : after[i] \in Ledgers}
<1>10. 0 \in S /\ \A i \in 1..n : i - 1 \in S => i \in S
  BY <1>1, <1>2, <1>9
<1> HIDE DEF S
<1>11. 0..n \subseteq S
  BY <1>1, <1>10, UpTo
<1>12. after \in [0..n -> Ledgers]
  BY <1>7, <1>11 DEF S
<1> QED
  BY <1>8, <1>9, <1>12 DEF n

(* A list of transactions that passes validation one by one leads to the   *)
(* ledger that applying them unvalidated leads to (block._apply_transactions *)
(* against ChainState.apply_block).                                        *)
LEMMA ApplyTransactionsFacts ==
  ASSUME NEW led \in Ledgers, NEW txs \in Seq(Txs),
         ApplyTransactions(led, txs) \in LedgerState
  PROVE  /\ led \in LedgerState
         /\ RunTxs(led, txs) = ApplyTransactions(led, txs)
<1> DEFINE n == Len(txs)
<1>1. n \in Nat
  BY LenProperties
<1>2. PICK f \in [0..n -> Ledgers] :
        /\ f[0] = led
        /\ \A i \in 1..n : f[i] = ValidStep(f[i - 1], txs[i])
        /\ f[n] = ApplyTransactions(led, txs)
  BY ApplyTransactionsSteps
<1>3. PICK g \in [0..n -> Ledgers] :
        /\ g[0] = led
        /\ \A i \in 1..n : g[i] = ApplyTx(g[i - 1], txs[i])
        /\ g[n] = RunTxs(led, txs)
  BY RunTxsSteps
<1> HIDE DEF n
<1>4. f[n] = Raised \/ (f[n] = g[n] /\ led # Raised)
  <2> DEFINE S == {i \in 0..n : f[i] = Raised \/ (f[i] = g[i] /\ led # Raised)}
  <2>1. 0 \in S
    BY <1>1, <1>2, <1>3
  <2>2. \A i \in 1..n : i - 1 \in S => i \in S
    BY <1>1, <1>2, <1>3 DEF ValidStep
  <2> HIDE DEF S
  <2>3. 0..n \subseteq S
    BY <1>1, <2>1, <2>2, UpTo
  <2> QED
    BY <1>1, <2>3 DEF S
<1> QED
  BY <1>2, <1>3, <1>4, LedgerAssumption DEF Ledgers

-----------------------------------------------------------------------------
(* Blocks and chains. *)

(* The rates a block may be read to state are numbers. *)
LEMMA RatesType == \A b \in Block : DueRate(b) \in Nat /\ StatedRate(b) \in Nat
  BY ChainAssumption DEF Block, DueRate, StatedRate

(* A chain that starts at genesis and whose blocks are where they say.     *)
Chains == {c \in Seq(Block) : /\ c # <<>> /\ c[1] = Genesis
                              /\ \A i \in 1..Len(c) : c[i].height = i - 1 /\ DueRate(c[i]) >= 1}

(* Genesis is a block, and alone it is a chain.                            *)
LEMMA GenesisFacts == Genesis \in Block /\ <<Genesis>> \in Chains /\ DueRate(Genesis) >= 1
<1>1. VdfIterations \in Nat /\ VdfIterations >= 1
  BY ChainAssumption
<1>2. Genesis \in Block /\ Genesis.height = 0 /\ DueRate(Genesis) = VdfIterations
  BY <1>1 DEF Genesis, Block, Hash, DueRate
<1> DEFINE c == <<Genesis>>
<1>3. c \in Seq(Block) /\ c # <<>> /\ Len(c) = 1 /\ c[1] = Genesis
  BY <1>2
<1> HIDE DEF c
<1>4. \A i \in 1..Len(c) : c[i].height = i - 1 /\ DueRate(c[i]) >= 1
  BY <1>1, <1>2, <1>3
<1>5. c \in Chains
  BY <1>3, <1>4 DEF Chains
<1> QED
  BY <1>1, <1>2, <1>5 DEF c

(* Facts to read off a chain. *)
LEMMA ChainsFacts ==
  ASSUME NEW c \in Chains
  PROVE  /\ c \in Seq(Block) /\ Len(c) \in Nat /\ Len(c) >= 1 /\ DOMAIN c = 1..Len(c)
         /\ c # <<>> /\ c[1] = Genesis
         /\ \A i \in 1..Len(c) : c[i] \in Block /\ c[i].height = i - 1 /\ DueRate(c[i]) >= 1
         /\ Last(c) = c[Len(c)] /\ Last(c) \in Block /\ Last(c).height = Len(c) - 1
<1>1. c \in Seq(Block) /\ c # <<>> /\ c[1] = Genesis
  BY DEF Chains
<1>2. Len(c) \in Nat /\ Len(c) >= 1 /\ DOMAIN c = 1..Len(c)
  BY <1>1, LenProperties, EmptySeq
<1>3. \A i \in 1..Len(c) : c[i] \in Block
  BY <1>1, ElementOfSeq
<1> QED
  BY <1>1, <1>2, <1>3 DEF Chains, Last

(* A block in its place extends a chain. *)
LEMMA ChainsAppend ==
  ASSUME NEW c \in Chains, NEW b \in Block, b.height = Len(c), DueRate(b) >= 1
  PROVE  /\ Append(c, b) \in Chains
         /\ Len(Append(c, b)) = Len(c) + 1
         /\ \A i \in 1..Len(c) : Append(c, b)[i] = c[i]
         /\ Append(c, b)[Len(c) + 1] = b
         /\ Last(Append(c, b)) = b
<1> DEFINE d == Append(c, b)
<1>1. /\ c \in Seq(Block) /\ Len(c) \in Nat /\ Len(c) >= 1 /\ c[1] = Genesis
      /\ \A i \in 1..Len(c) : c[i].height = i - 1 /\ DueRate(c[i]) >= 1
  BY ChainsFacts
<1>2. /\ d \in Seq(Block) /\ Len(d) = Len(c) + 1 /\ d # <<>>
      /\ \A i \in 1..Len(c) : d[i] = c[i]
      /\ d[Len(c) + 1] = b
  BY <1>1, AppendProperties
<1> HIDE DEF d
<1>3. d \in Chains
  BY <1>1, <1>2 DEF Chains
<1> QED
  BY <1>2, <1>3 DEF d, Last

(* The first blocks of a chain are a chain. *)
LEMMA ChainsPrefix ==
  ASSUME NEW c \in Chains, NEW k \in 1..Len(c)
  PROVE  /\ SubSeq(c, 1, k) \in Chains
         /\ Len(SubSeq(c, 1, k)) = k
         /\ \A i \in 1..k : SubSeq(c, 1, k)[i] = c[i]
<1> DEFINE d == SubSeq(c, 1, k)
<1>1. /\ c \in Seq(Block) /\ Len(c) \in Nat /\ c[1] = Genesis
      /\ \A i \in 1..Len(c) : c[i] \in Block /\ c[i].height = i - 1 /\ DueRate(c[i]) >= 1
  BY ChainsFacts
<1>2. d = [i \in 1..k |-> c[i]]
  BY <1>1
<1>3. d \in Seq(Block) /\ Len(d) = k /\ \A i \in 1..k : d[i] = c[i]
  BY <1>1, <1>2
<1>4. d # <<>>
  BY <1>3
<1> HIDE DEF d
<1>5. d \in Chains
  <2>1. d[1] = Genesis
    BY <1>1, <1>3
  <2>2. \A i \in 1..Len(d) : d[i].height = i - 1 /\ DueRate(d[i]) >= 1
    BY <1>1, <1>3
  <2> QED
    BY <1>3, <1>4, <2>1, <2>2 DEF Chains
<1> QED
  BY <1>3, <1>5 DEF d

(* A block's hash tells it, and all the blocks before it, from any other.  *)
LEMMA HashOfInjective ==
  ASSUME NEW a \in Block, NEW b \in Block, HashOf(a) = HashOf(b)
  PROVE  a = b
<1> DEFINE ca == [height |-> a.height, txs |-> a.txs, builder |-> a.builder,
                  iters |-> a.iters, rated |-> a.rated, claimed |-> a.claimed,
                  dt |-> a.dt, sound |-> a.sound]
           cb == [height |-> b.height, txs |-> b.txs, builder |-> b.builder,
                  iters |-> b.iters, rated |-> b.rated, claimed |-> b.claimed,
                  dt |-> b.dt, sound |-> b.sound]
<1>1. /\ a.prev \in Seq(Content) /\ b.prev \in Seq(Content)
      /\ ca \in Content /\ cb \in Content
  BY DEF Block, Hash, Content
<1>2. Append(a.prev, ca) = Append(b.prev, cb)
  BY DEF HashOf
<1> HIDE DEF ca, cb
<1>3. a.prev = b.prev /\ ca = cb
  <2>1. ASSUME NEW S, NEW x \in S, NEW s \in Seq(S), NEW y \in S, NEW t \in Seq(S),
               Append(s, x) = Append(t, y)
        PROVE  s = t /\ x = y
    BY <2>1, AppendInjective
  <2> QED
    BY <1>1, <1>2, <2>1
<1>4. /\ a.height = b.height /\ a.txs = b.txs /\ a.builder = b.builder
      /\ a.iters = b.iters /\ a.rated = b.rated /\ a.claimed = b.claimed
      /\ a.dt = b.dt /\ a.sound = b.sound
  BY <1>3 DEF ca, cb
<1> QED
  BY <1>3, <1>4 DEF Block

(* A block's identity is a hash.                                           *)
LEMMA HashOfType == ASSUME NEW b \in Block PROVE HashOf(b) \in Hash
<1> DEFINE cb == [height |-> b.height, txs |-> b.txs, builder |-> b.builder,
                  iters |-> b.iters, rated |-> b.rated, claimed |-> b.claimed,
                  dt |-> b.dt, sound |-> b.sound]
<1>1. b.prev \in Seq(Content) /\ cb \in Content
  BY DEF Block, Hash, Content
<1>2. HashOf(b) = Append(b.prev, cb)
  BY DEF HashOf
<1> HIDE DEF cb
<1> QED
  BY <1>1, <1>2, AppendProperties DEF Hash

(* The multiple of a at or below n. *)
LEMMA MultipleBelow ==
  ASSUME NEW n \in Nat, NEW a \in Nat \ {0}
  PROVE  (n \div a) * a \in Nat /\ (n \div a) * a <= n
<1> DEFINE q == n \div a
<1>1. q \in Nat /\ a * q <= n
  OBVIOUS
<1> HIDE DEF q
<1>2. q * a \in Nat /\ q * a <= n
  BY <1>1
<1> QED
  BY <1>2 DEF q

(* A slower rate is never below the one before it. *)
LEMMA SlowerRate ==
  ASSUME NEW prior \in Nat, prior >= 1
  PROVE  /\ (prior * FactorNum) \div FactorDen \in Nat
         /\ (prior * FactorNum) \div FactorDen >= 1
<1>1. /\ FactorNum \in Nat /\ FactorDen \in Nat /\ FactorDen >= 1
      /\ FactorDen <= FactorNum
  BY ChainAssumption
<1> DEFINE p == prior * FactorNum
<1>2. p \in Nat /\ p >= FactorNum
  BY <1>1
<1> HIDE DEF p
<1>3. p \div FactorDen \in Nat /\ p \div FactorDen >= 1
  BY <1>1, <1>2
<1> QED
  BY <1>3 DEF p

(* A block always proves some work (get_vdf_iterations). *)
LEMMA IterationsFacts ==
  ASSUME NEW c \in Chains
  PROVE  GetVdfIterations(c) \in Nat /\ GetVdfIterations(c) >= 1
<1> DEFINE next == Len(c)
           boundary == (next \div AdjustInterval) * AdjustInterval
           start == boundary - AdjustInterval
<1>1. /\ next \in Nat /\ next >= 1
      /\ \A i \in 1..next : DueRate(c[i]) \in Nat /\ DueRate(c[i]) >= 1
  BY ChainsFacts, RatesType
<1>2. /\ VdfIterations \in Nat /\ VdfIterations >= 1
      /\ AdjustInterval \in Nat \ {0}
  BY ChainAssumption
<1>3. boundary \in Nat /\ boundary <= next
  BY <1>1, <1>2, MultipleBelow
<1>4. CASE next < AdjustInterval
  BY <1>2, <1>4 DEF GetVdfIterations
<1>5. CASE ~(next < AdjustInterval) /\ next > boundary
  <2>1. GetVdfIterations(c) = DueRate(c[boundary + 1])
    BY <1>5 DEF GetVdfIterations
  <2> HIDE DEF boundary, next
  <2>2. boundary + 1 \in 1..next
    BY <1>1, <1>3, <1>5
  <2> QED
    BY <1>1, <2>1, <2>2
<1>6. CASE ~(next < AdjustInterval) /\ ~(next > boundary)
  <2> DEFINE prior == DueRate(c[start + 1])
  <2>1. \/ GetVdfIterations(c) = prior
        \/ GetVdfIterations(c) = (prior * FactorNum) \div FactorDen
    BY <1>6 DEF GetVdfIterations
  <2> HIDE DEF boundary, next
  <2>2. start + 1 \in 1..next
    BY <1>1, <1>2, <1>3, <1>6
  <2>3. prior \in Nat /\ prior >= 1
    BY <1>1, <2>2
  <2> HIDE DEF prior
  <2> QED
    BY <2>1, <2>3, SlowerRate
<1> QED
  BY <1>4, <1>5, <1>6

(* A block made on top of a chain is a block; it takes its place there,    *)
(* unless it claims to be genesis.                                         *)
LEMMA ForgeType ==
  ASSUME NEW c \in Chains, NEW body \in BlockBody
  PROVE  /\ Forge(c, body) \in Block
         /\ Forge(c, body).rated = body.rated
         /\ Forge(c, body).iters = IF body.rated THEN GetVdfIterations(c) + body.extra ELSE 0
         /\ ~body.zero => Forge(c, body).height = Len(c)
<1>1. /\ Len(c) \in Nat /\ Last(c) \in Block /\ Last(c).height = Len(c) - 1
      /\ GetVdfIterations(c) \in Nat /\ GetVdfIterations(c) >= 1
  BY ChainsFacts, IterationsFacts
<1>2. /\ body.txs \in Seq(Txs) /\ body.builder \in Addr /\ body.dt \in Nat
      /\ body.sound \in BOOLEAN /\ body.extra \in Nat /\ body.rated \in BOOLEAN
      /\ body.claimed \in Nat
  BY DEF BlockBody
<1>3. HashOf(Last(c)) \in Hash
  BY <1>1, HashOfType
<1> DEFINE it == GetVdfIterations(c)
           rate == IF body.rated THEN it + body.extra ELSE 0
           at == IF body.zero THEN 0 ELSE Len(c)
           says == IF body.zero THEN body.claimed ELSE 0
           b == [height  |-> at, txs |-> body.txs, builder |-> body.builder,
                 iters   |-> rate, rated |-> body.rated, claimed |-> says,
                 dt      |-> body.dt, sound |-> body.sound,
                 prev    |-> HashOf(Last(c))]
<1>4. Forge(c, body) = b
  <2>1. Last(c).height + 1 = Len(c)
    BY <1>1
  <2> QED
    BY <2>1 DEF Forge
<1>5. rate \in Nat /\ at \in Nat /\ says \in Nat /\ (~body.zero => at = Len(c))
  BY <1>1, <1>2
<1> HIDE DEF it, rate, at, says
<1>6. b \in Block /\ b.height = at /\ b.iters = rate /\ b.rated = body.rated
  BY <1>1, <1>2, <1>3, <1>5 DEF Block
<1> HIDE DEF b
<1> QED
  BY <1>4, <1>5, <1>6 DEF it, rate

Bodies == {body \in BlockBody : ~body.zero}

(* And it states no less than some work.                                   *)
LEMMA ForgeFacts ==
  ASSUME NEW c \in Chains, NEW body \in Bodies
  PROVE  /\ Forge(c, body) \in Block
         /\ Forge(c, body).height = Len(c)
         /\ DueRate(Forge(c, body)) >= 1
         /\ body.rated /\ body.extra = 0 => DueRate(Forge(c, body)) = GetVdfIterations(c)
<1> DEFINE b == Forge(c, body)
           it == GetVdfIterations(c)
<1>1. body \in BlockBody /\ ~body.zero /\ body.extra \in Nat
  BY DEF Bodies, BlockBody
<1>2. /\ b \in Block /\ b.rated = body.rated /\ b.height = Len(c)
      /\ b.iters = IF body.rated THEN it + body.extra ELSE 0
  BY <1>1, ForgeType
<1>3. it \in Nat /\ it >= 1
  BY IterationsFacts
<1> HIDE DEF b, it
<1>4. DueRate(b) >= 1
  BY <1>1, <1>2, <1>3, ChainAssumption DEF DueRate
<1>5. body.rated /\ body.extra = 0 => DueRate(b) = it
  BY <1>2, <1>3 DEF DueRate
<1> QED
  BY <1>2, <1>4, <1>5 DEF b, it

(* A list of bodies none of which claims to be genesis.                    *)
LEMMA BodiesOfTail ==
  ASSUME HeightsFollow, NEW tail \in PeerTails
  PROVE  tail \in Seq(Bodies)
<1>1. tail \in Seq(BlockBody)
  BY NodeAssumption
<1>2. /\ Len(tail) \in Nat /\ DOMAIN tail = 1..Len(tail)
      /\ tail = [i \in 1..Len(tail) |-> tail[i]]
  BY <1>1, LenProperties
<1>3. \A i \in 1..Len(tail) : tail[i] \in Bodies
  BY <1>1, <1>2, ElementOfSeq DEF HeightsFollow, Bodies
<1> DEFINE n == Len(tail)
<1> HIDE DEF n
<1>4. [i \in 1..n |-> tail[i]] \in Seq(Bodies)
  BY <1>2, <1>3 DEF n
<1> QED
  BY <1>2, <1>4 DEF n

(* Any m steps on L can be composed, from any start.  It is the form in     *)
(* which the loops of the code (sync, readd, pack, insert) are reasoned on. *)
Composable(L) ==
  \A x \in L : \A m \in Nat : \A G \in [1..m -> [L -> L]] :
    \E f \in [0..m -> L] : f[0] = x /\ \A i \in 1..m : f[i] = G[i][f[i - 1]]

(* Steps on any set can be composed. *)
LEMMA Compose == \A L : Composable(L)
<1> SUFFICES ASSUME NEW L, NEW x \in L
             PROVE  \A m \in Nat : \A G \in [1..m -> [L -> L]] :
                      \E f \in [0..m -> L] :
                        f[0] = x /\ \A i \in 1..m : f[i] = G[i][f[i - 1]]
  BY DEF Composable
<1> QED
  BY Iterate

(* What Link goes through: chains, each one more block than the last.      *)
LEMMA LinkSteps ==
  ASSUME NEW c \in Chains, NEW bodies \in Seq(Bodies)
  PROVE  \E f \in [0..Len(bodies) -> Chains] :
           /\ f[0] = c
           /\ \A i \in 1..Len(bodies) : f[i] = Append(f[i - 1], Forge(f[i - 1], bodies[i]))
           /\ f[Len(bodies)] = Link(c, bodies)
<1> DEFINE n == Len(bodies)
           step(l, body) == Append(l, Forge(l, body))
           H == [i \in 1..n |-> [l \in Chains |-> step(l, bodies[i])]]
           Run(g) == [i \in 0..n |-> IF i = 0 THEN c ELSE step(g[i - 1], bodies[i])]
<1>1. n \in Nat /\ \A i \in 1..n : bodies[i] \in Bodies
  BY ElementOfSeq, LenProperties
<1>2. \A l \in Chains, body \in Bodies : step(l, body) \in Chains
  BY ForgeFacts, ChainsAppend
<1>3. H \in [1..n -> [Chains -> Chains]]
  <2> HIDE DEF step, n
  <2> QED
    BY <1>1, <1>2
<1> HIDE DEF n
<1>4. PICK f \in [0..n -> Chains] : f[0] = c /\ \A i \in 1..n : f[i] = H[i][f[i - 1]]
  <2> HIDE DEF H
  <2>1. Composable(Chains)
    BY Compose
  <2> QED
    BY <1>1, <1>3, <2>1, Zenon DEF Composable
<1>5. ASSUME NEW i \in 1..n
      PROVE  f[i] = step(f[i - 1], bodies[i])
  <2> HIDE DEF step
  <2>1. f[i] = H[i][f[i - 1]] /\ f[i - 1] \in Chains
    BY <1>1, <1>4
  <2> QED
    BY <2>1
<1>6. f = Run(f)
  <2> HIDE DEF step
  <2> QED
    BY <1>1, <1>4, <1>5
<1> DEFINE linked == CHOOSE g : g = Run(g)
<1>7. linked = Run(linked)
  BY <1>6
<1>8. Link(c, bodies) = linked[n]
  BY DEF Link, n
<1> HIDE DEF linked
<1>9. linked[0] = c /\ \A i \in 1..n : linked[i] = step(linked[i - 1], bodies[i])
  <2> HIDE DEF step
  <2> QED
    BY <1>1, <1>7
<1> DEFINE S == {i \in 0..n : linked[i] \in Chains}
<1>10. 0 \in S /\ \A i \in 1..n : i - 1 \in S => i \in S
  <2> HIDE DEF step
  <2> QED
    BY <1>1, <1>2, <1>9
<1> HIDE DEF S
<1>11. 0..n \subseteq S
  BY <1>1, <1>10, UpTo
<1>12. linked \in [0..n -> Chains]
  <2> HIDE DEF step
  <2> QED
    BY <1>7, <1>11 DEF S
<1> QED
  BY <1>8, <1>9, <1>12 DEF n

(* What peers send as a chain is a sequence of blocks at their heights.    *)
LEMMA LinkType ==
  ASSUME NEW c \in Chains, NEW bodies \in Seq(Bodies)
  PROVE  Link(c, bodies) \in Chains
<1> DEFINE n == Len(bodies)
<1>1. n \in Nat
  BY LenProperties
<1>2. PICK f \in [0..n -> Chains] : f[n] = Link(c, bodies)
  BY LinkSteps
<1> HIDE DEF n
<1>3. n \in 0..n
  BY <1>1
<1> QED
  BY <1>2, <1>3

-----------------------------------------------------------------------------
(* What makes a chain valid. *)

(* The blocks after genesis. *)
LEMMA TailFacts ==
  ASSUME NEW c \in Chains
  PROVE  /\ Tail(c) \in Seq(Block) /\ Len(Tail(c)) = Len(c) - 1
         /\ \A i \in 1..Len(Tail(c)) : Tail(c)[i] = c[i + 1]
         /\ \A b \in Block : Tail(Append(c, b)) = Append(Tail(c), b)
<1>1. c \in Seq(Block) /\ c # <<>> /\ Len(c) \in Nat /\ Len(c) >= 1
  BY ChainsFacts
<1>2. /\ Tail(c) \in Seq(Block) /\ Len(Tail(c)) = Len(c) - 1
      /\ \A i \in 1..Len(Tail(c)) : Tail(c)[i] = c[i + 1]
  BY <1>1, HeadTailProperties
<1>3. ASSUME NEW b \in Block
      PROVE  Tail(Append(c, b)) = Append(Tail(c), b)
  <2> DEFINE d == Append(c, b)
             t == Append(Tail(c), b)
  <2>1. /\ d \in Seq(Block) /\ Len(d) = Len(c) + 1 /\ d # <<>>
        /\ \A i \in 1..Len(c) : d[i] = c[i]
        /\ d[Len(c) + 1] = b
    BY <1>1, AppendProperties
  <2>2. /\ t \in Seq(Block) /\ Len(t) = Len(c)
        /\ \A i \in 1..(Len(c) - 1) : t[i] = c[i + 1]
        /\ t[Len(c)] = b
    <3>1. /\ t \in Seq(Block) /\ Len(t) = Len(Tail(c)) + 1
          /\ \A i \in 1..Len(Tail(c)) : t[i] = Tail(c)[i]
          /\ t[Len(Tail(c)) + 1] = b
      BY <1>2, AppendProperties
    <3> HIDE DEF t
    <3> QED
      BY <1>1, <1>2, <3>1
  <2> HIDE DEF d, t
  <2>3. /\ Tail(d) \in Seq(Block) /\ Len(Tail(d)) = Len(c)
        /\ \A i \in 1..Len(Tail(d)) : Tail(d)[i] = d[i + 1]
    BY <1>1, <2>1, HeadTailProperties
  <2>4. \A i \in 1..Len(Tail(d)) : Tail(d)[i] = t[i]
    <3> SUFFICES ASSUME NEW i \in 1..Len(c)
                 PROVE  d[i + 1] = t[i]
      BY <2>3
    <3>1. CASE i = Len(c)
      BY <2>1, <2>2, <3>1
    <3>2. CASE i # Len(c)
      <4>1. i \in 1..(Len(c) - 1) /\ i + 1 \in 1..Len(c)
        BY <1>1, <3>2
      <4> QED
        BY <2>1, <2>2, <4>1
    <3> QED
      BY <3>1, <3>2
  <2>5. Tail(d) = t
    BY <2>2, <2>3, <2>4, SeqEqual
  <2> QED
    BY <2>5 DEF d, t
<1> QED
  BY <1>2, <1>3

(* Two chains with the same first blocks have the same first segments. *)
LEMMA SameSegments ==
  ASSUME NEW c \in Chains, NEW d \in Chains, NEW a \in 1..2, NEW m \in Nat,
         m <= Len(c), m <= Len(d), \A i \in 1..m : c[i] = d[i]
  PROVE  /\ SubSeq(c, a, m) = SubSeq(d, a, m)
         /\ SubSeq(c, a, m) \in Seq(Block)
<1>1. /\ Len(c) \in Nat /\ Len(d) \in Nat
      /\ \A i \in 1..Len(c) : c[i] \in Block
      /\ \A i \in 1..Len(d) : d[i] \in Block
  BY ChainsFacts
<1> DEFINE s == SubSeq(c, a, m)
           t == SubSeq(d, a, m)
<1>2. a \in Int /\ m \in Int /\ \A i \in a..m : c[i] \in Block /\ d[i] \in Block /\ c[i] = d[i]
  BY <1>1
<1>3. /\ s \in Seq(Block) /\ Len(s) = (IF a <= m THEN m - a + 1 ELSE 0)
      /\ \A i \in 1..(m - a + 1) : s[i] = c[a + i - 1]
  BY <1>2, SubSeqProperties
<1>4. /\ t \in Seq(Block) /\ Len(t) = (IF a <= m THEN m - a + 1 ELSE 0)
      /\ \A i \in 1..(m - a + 1) : t[i] = d[a + i - 1]
  BY <1>2, SubSeqProperties
<1> HIDE DEF s, t
<1>5. \A i \in 1..Len(s) : s[i] = t[i]
  <2> SUFFICES ASSUME NEW i \in 1..Len(s)
               PROVE  s[i] = t[i]
    OBVIOUS
  <2>1. i \in 1..(m - a + 1) /\ a + i - 1 \in a..m
    BY <1>2, <1>3
  <2> QED
    BY <1>2, <1>3, <1>4, <2>1
<1>6. s = t
  BY <1>3, <1>4, <1>5, SeqEqual
<1> QED
  BY <1>3, <1>6 DEF s, t

(* The transactions of a block are a list of transactions.                 *)
LEMMA BlockTxs == \A b \in Block : b.txs \in Seq(Txs)
  BY DEF Block

(* The ledger after the first i blocks that follow genesis, and one more.  *)
LEMMA ReplayOneMore ==
  ASSUME NEW c \in Chains, NEW i \in 1..(Len(c) - 1)
  PROVE  /\ SubSeq(c, 2, i) \in Seq(Block)
         /\ Replay(SubSeq(c, 2, i)) \in Ledgers
         /\ Replay(SubSeq(c, 2, i + 1)) = AddBlock(Replay(SubSeq(c, 2, i)), c[i + 1])
<1> DEFINE s == SubSeq(c, 2, i)
           t == SubSeq(c, 2, i + 1)
           b == c[i + 1]
<1>0. /\ c \in Seq(Block) /\ Len(c) \in Nat /\ \A j \in 1..Len(c) : c[j] \in Block
  BY ChainsFacts
<1>1. /\ s \in Seq(Block) /\ Len(s) = i - 1 /\ \A j \in 1..(i - 1) : s[j] = c[j + 1]
      /\ t \in Seq(Block) /\ Len(t) = i /\ \A j \in 1..i : t[j] = c[j + 1]
      /\ b \in Block
  <2>1. \A j \in 2..(i + 1) : c[j] \in Block
    BY <1>0
  <2>2. /\ s \in Seq(Block) /\ Len(s) = (IF 2 <= i THEN i - 2 + 1 ELSE 0)
        /\ \A j \in 1..(i - 2 + 1) : s[j] = c[2 + j - 1]
    BY <2>1, SubSeqProperties
  <2>3. /\ t \in Seq(Block) /\ Len(t) = (IF 2 <= i + 1 THEN i + 1 - 2 + 1 ELSE 0)
        /\ \A j \in 1..(i + 1 - 2 + 1) : t[j] = c[2 + j - 1]
    BY <2>1, SubSeqProperties
  <2>4. b \in Block
    BY <1>0
  <2> HIDE DEF s, t, b
  <2> QED
    BY <1>0, <2>2, <2>3, <2>4
<1> HIDE DEF s, t
<1>2. t = Append(s, b)
  <2> DEFINE u == Append(s, b)
  <2>1. /\ u \in Seq(Block) /\ Len(u) = i
        /\ \A j \in 1..(i - 1) : u[j] = s[j]
        /\ u[i] = b
    <3>1. /\ u \in Seq(Block) /\ Len(u) = Len(s) + 1
          /\ \A j \in 1..Len(s) : u[j] = s[j]
          /\ u[Len(s) + 1] = b
      BY <1>1, AppendProperties
    <3> HIDE DEF u, b
    <3> QED
      BY <1>0, <1>1, <3>1
  <2> HIDE DEF u
  <2>2. \A j \in 1..Len(t) : t[j] = u[j]
    <3> SUFFICES ASSUME NEW j \in 1..i
                 PROVE  t[j] = u[j]
      BY <1>1
    <3>1. CASE j = i
      BY <1>1, <2>1, <3>1
    <3>2. CASE j \in 1..(i - 1)
      BY <1>1, <2>1, <3>2
    <3> QED
      BY <1>0, <3>1, <3>2
  <2>3. t = u
    BY <1>1, <2>1, <2>2, SeqEqual
  <2> QED
    BY <2>3 DEF u
<1>3. Replay(s) \in Ledgers /\ Replay(t) = AddBlock(Replay(s), b)
  BY <1>1, <1>2, BlockTxs, ReplayAppend
<1> QED
  BY <1>1, <1>3 DEF s, t

(* Where heights follow, from_chain skips genesis and nothing else, so it  *)
(* and the validation of a tail behind genesis apply the same blocks.      *)
LEMMA TailLedgerFacts ==
  ASSUME NEW c \in Chains, NEW from \in Nat, from >= 2
  PROVE  \A i \in 1..Len(c) : TailLedger(c, from)[i] = Replay(SubSeq(c, 2, i))
<1> DEFINE n == Len(c)
           R(g) == [i \in 0..n |->
                      IF i = 0 THEN EmptyLedger
                      ELSE IF i < from /\ c[i].height = 0 THEN g[i - 1]
                      ELSE AddBlock(g[i - 1], c[i])]
           f == [i \in 0..n |-> IF i = 0 THEN EmptyLedger ELSE Replay(SubSeq(c, 2, i))]
<1>1. n \in Nat /\ n >= 1 /\ \A i \in 1..n : c[i].height = i - 1
  BY ChainsFacts
<1>2. Replay(SubSeq(c, 2, 1)) = EmptyLedger
  <2>1. SubSeq(c, 2, 1) = <<>>
    BY SubSeqEmpty
  <2> QED
    BY <2>1, ReplayEmpty
<1>3. ASSUME NEW i \in 2..n
      PROVE  Replay(SubSeq(c, 2, i)) = AddBlock(Replay(SubSeq(c, 2, i - 1)), c[i])
  <2>1. i - 1 \in 1..(Len(c) - 1) /\ (i - 1) + 1 = i
    BY <1>1
  <2>2. Replay(SubSeq(c, 2, (i - 1) + 1))
          = AddBlock(Replay(SubSeq(c, 2, i - 1)), c[(i - 1) + 1])
    BY <2>1, ReplayOneMore
  <2> QED
    BY <2>1, <2>2
<1> HIDE DEF n
<1>4. f[0] = EmptyLedger /\ f[1] = EmptyLedger
  BY <1>1, <1>2
<1>5. ASSUME NEW i \in 2..n
      PROVE  f[i] = AddBlock(f[i - 1], c[i])
  <2>1. i \in 0..n /\ i # 0 /\ i - 1 \in 0..n /\ i - 1 # 0
    BY <1>1
  <2>2. f[i] = Replay(SubSeq(c, 2, i)) /\ f[i - 1] = Replay(SubSeq(c, 2, i - 1))
    BY <2>1
  <2> QED
    BY <1>3, <2>2
<1>6. f = [i \in 0..n |-> f[i]]
  OBVIOUS
<1> HIDE DEF f
<1>7. f = R(f)
  <2>1. ASSUME NEW i \in 0..n
        PROVE  f[i] = R(f)[i]
    <3>1. CASE i = 0
      BY <1>4, <3>1
    <3>2. CASE i = 1
      BY <1>1, <1>4, <3>2
    <3>3. CASE i \in 2..n
      BY <1>1, <1>5, <3>3
    <3> QED
      BY <3>1, <3>2, <3>3
  <2> HIDE DEF R
  <2>2. R(f) = [i \in 0..n |-> R(f)[i]]
    BY DEF R
  <2> QED
    BY <1>6, <2>1, <2>2
<1> DEFINE led == CHOOSE g : g = R(g)
<1>8. led = R(led)
  BY <1>7
<1>9. TailLedger(c, from) = led
  BY DEF TailLedger, n
<1> HIDE DEF led
<1>10. led[0] = EmptyLedger /\ led[1] = led[0]
       /\ \A i \in 2..n : led[i] = AddBlock(led[i - 1], c[i])
  <2>1. led[0] = R(led)[0] /\ led[1] = R(led)[1] /\ \A i \in 2..n : led[i] = R(led)[i]
    BY <1>8
  <2>2. R(led)[0] = EmptyLedger
    BY <1>1
  <2>3. R(led)[1] = led[0]
    BY <1>1
  <2>4. ASSUME NEW i \in 2..n
        PROVE  R(led)[i] = AddBlock(led[i - 1], c[i])
    <3>1. i \in 0..n /\ i # 0 /\ c[i].height # 0
      BY <1>1
    <3> QED
      BY <3>1
  <2> HIDE DEF R
  <2> QED
    BY <2>1, <2>2, <2>3, <2>4
<1> DEFINE S == {i \in 0..n : led[i] = f[i]}
<1>11. 0 \in S /\ \A i \in 1..n : i - 1 \in S => i \in S
  <2>1. 0 \in S
    BY <1>1, <1>4, <1>10
  <2>2. ASSUME NEW i \in 1..n, i - 1 \in S
        PROVE  i \in S
    <3>1. CASE i = 1
      BY <1>1, <1>4, <1>10, <3>1
    <3>2. CASE i # 1
      <4>1. i \in 2..n /\ led[i - 1] = f[i - 1]
        BY <2>2, <3>2
      <4> QED
        BY <1>5, <1>10, <4>1
    <3> QED
      BY <3>1, <3>2
  <2> QED
    BY <2>1, <2>2
<1> HIDE DEF S
<1>12. 0..n \subseteq S
  BY <1>1, <1>11, UpTo
<1>13. ASSUME NEW i \in 1..n
       PROVE  led[i] = Replay(SubSeq(c, 2, i))
  <2>1. led[i] = f[i] /\ i \in 0..n /\ i # 0
    BY <1>1, <1>12 DEF S
  <2> QED
    BY <2>1 DEF f
<1> QED
  BY <1>9, <1>13 DEF n

(* So a tail is valid when each block is on what the blocks before it give. *)
LEMMA ValidTailFacts ==
  ASSUME NEW c \in Chains, NEW from \in Nat, from >= 2
  PROVE  ValidTail(c, from) <=>
           \A i \in from..Len(c) :
             Valid(c[i], Replay(SubSeq(c, 2, i - 1)), SubSeq(c, 1, i - 1))
<1> DEFINE led == TailLedger(c, from)
<1>1. \A i \in from..Len(c) : led[i - 1] = Replay(SubSeq(c, 2, i - 1))
  <2>1. Len(c) \in Nat
    BY ChainsFacts
  <2>2. ASSUME NEW i \in from..Len(c)
        PROVE  led[i - 1] = Replay(SubSeq(c, 2, i - 1))
    <3>1. i - 1 \in 1..Len(c)
      BY <2>1
    <3> QED
      BY <3>1, TailLedgerFacts
  <2> QED
    BY <2>2
<1>2. ValidTail(c, from) <=>
        \A i \in from..Len(c) : Valid(c[i], led[i - 1], SubSeq(c, 1, i - 1))
  BY DEF ValidTail
<1> HIDE DEF led
<1> QED
  BY <1>1, <1>2

(* And from_chain comes to the ledger of the blocks that follow genesis.   *)
LEMMA ReplayChainFacts ==
  ASSUME NEW c \in Chains
  PROVE  /\ ReplayChain(c) = Replay(Tail(c))
         /\ FromChain(c) = [chain |-> c, state |-> Replay(Tail(c)), work |-> Work(c)]
<1>1. c \in Seq(Block) /\ c # <<>> /\ Len(c) \in Nat /\ Len(c) >= 1
  BY ChainsFacts
<1> DEFINE n == Len(c)
<1>2. n + 1 \in Nat /\ n + 1 >= 2 /\ n \in 1..n
  BY <1>1
<1>3. TailLedger(c, n + 1)[n] = Replay(SubSeq(c, 2, n))
  BY <1>2, TailLedgerFacts
<1>4. SubSeq(c, 2, n) = Tail(c)
  BY <1>1, TailIsSubSeq
<1>5. ReplayChain(c) = Replay(Tail(c))
  BY <1>3, <1>4 DEF ReplayChain
<1> QED
  BY <1>5 DEF FromChain

(* Whether a chain is valid from some block on depends on the blocks only: *)
(* a valid chain may be extended, and a valid tail may be joined to a      *)
(* valid chain that shares the blocks before it.                           *)
LEMMA ValidTailAppend ==
  ASSUME NEW c \in Chains, NEW b \in Block, b.height = Len(c), DueRate(b) >= 1,
         ValidTail(c, 2), Valid(b, Replay(Tail(c)), c)
  PROVE  ValidTail(Append(c, b), 2)
<1> DEFINE d == Append(c, b)
           n == Len(c)
<1>1. /\ c \in Seq(Block) /\ c # <<>> /\ n \in Nat /\ n >= 1
  BY ChainsFacts
<1>2. /\ d \in Chains /\ Len(d) = n + 1 /\ \A i \in 1..n : d[i] = c[i] /\ d[n + 1] = b
  BY ChainsAppend
<1> HIDE DEF d
<1>3. ASSUME NEW m \in 0..n, NEW a \in 1..2
      PROVE  SubSeq(d, a, m) = SubSeq(c, a, m)
  BY <1>1, <1>2, SameSegments
<1>4. SubSeq(c, 2, n) = Tail(c) /\ SubSeq(c, 1, n) = c
  BY <1>1, TailIsSubSeq, SubSeqFull
<1>5. ASSUME NEW i \in 2..(n + 1)
      PROVE  Valid(d[i], Replay(SubSeq(d, 2, i - 1)), SubSeq(d, 1, i - 1))
  <2>1. /\ i - 1 \in 0..n
        /\ SubSeq(d, 2, i - 1) = SubSeq(c, 2, i - 1)
        /\ SubSeq(d, 1, i - 1) = SubSeq(c, 1, i - 1)
    BY <1>1, <1>3
  <2>2. CASE i = n + 1
    <3>1. d[i] = b /\ i - 1 = n
      BY <1>1, <1>2, <2>2
    <3> QED
      BY <1>4, <2>1, <3>1
  <2>3. CASE i # n + 1
    <3>1. i \in 2..n /\ d[i] = c[i]
      BY <1>1, <1>2, <2>3
    <3>2. Valid(c[i], Replay(SubSeq(c, 2, i - 1)), SubSeq(c, 1, i - 1))
      BY <3>1, ValidTailFacts DEF n
    <3> QED
      BY <2>1, <3>1, <3>2
  <2> QED
    BY <2>2, <2>3
<1>6. ValidTail(d, 2)
  BY <1>1, <1>2, <1>5, ValidTailFacts
<1> QED
  BY <1>6 DEF d

(* A chain that shares a valid prefix with another and is valid behind it  *)
(* is valid as a whole: why a download is checked from the fork point only *)
(* (sync.fetch).                                                           *)
LEMMA ValidTailJoin ==
  ASSUME NEW c \in Chains, NEW d \in Chains, NEW k \in Nat, k >= 1,
         k <= Len(c), k <= Len(d), \A i \in 1..k : c[i] = d[i],
         ValidTail(c, 2), ValidTail(d, k + 1)
  PROVE  ValidTail(d, 2)
<1>1. Len(c) \in Nat /\ Len(d) \in Nat
  BY ChainsFacts
<1>2. ASSUME NEW i \in 2..Len(d)
      PROVE  Valid(d[i], Replay(SubSeq(d, 2, i - 1)), SubSeq(d, 1, i - 1))
  <2>1. CASE i \in 1..k
    <3>1. i - 1 \in Nat /\ i - 1 <= Len(c) /\ i - 1 <= Len(d) /\ i \in 2..Len(c)
          /\ \A j \in 1..(i - 1) : c[j] = d[j]
      BY <1>1, <2>1
    <3>2. SubSeq(c, 1, i - 1) = SubSeq(d, 1, i - 1) /\ SubSeq(c, 2, i - 1) = SubSeq(d, 2, i - 1)
      BY <3>1, SameSegments
    <3>3. Valid(c[i], Replay(SubSeq(c, 2, i - 1)), SubSeq(c, 1, i - 1))
      BY <3>1, ValidTailFacts
    <3> QED
      BY <2>1, <3>2, <3>3
  <2>2. CASE i \in (k + 1)..Len(d)
    <3>1. k + 1 \in Nat /\ k + 1 >= 2
      OBVIOUS
    <3> QED
      BY <2>2, <3>1, ValidTailFacts
  <2> QED
    BY <1>1, <2>1, <2>2
<1> QED
  BY <1>2, ValidTailFacts

(* The ledger of a valid chain: no transaction of it raises. *)
LEMMA ValidBlockLedger ==
  ASSUME NEW led \in Ledgers, NEW b \in Block, NEW c, Valid(b, led, c)
  PROVE  /\ led \in LedgerState
         /\ AddBlock(led, b) \in LedgerState
         /\ RunTxs(led, b.txs) = ApplyTransactions(led, b.txs)
<1>1. b.txs \in Seq(Txs)
  BY DEF Block
<1>2. ApplyTransactions(led, b.txs) \in LedgerState
  BY DEF Valid
<1>3. led \in LedgerState /\ RunTxs(led, b.txs) = ApplyTransactions(led, b.txs)
  BY <1>1, <1>2, ApplyTransactionsFacts
<1> QED
  BY <1>1, <1>2, <1>3, AddBlockType

(* The ledger of a valid chain is a ledger: no block of it makes the       *)
(* replay raise.                                                           *)
LEMMA ValidChainLedger ==
  ASSUME NEW c \in Chains, ValidTail(c, 2)
  PROVE  /\ Replay(Tail(c)) \in LedgerState
         /\ \A k \in 1..Len(c) : Replay(SubSeq(c, 2, k)) \in LedgerState
<1> DEFINE n == Len(c)
           S == {i \in 0..(n - 1) : Replay(SubSeq(c, 2, i + 1)) \in LedgerState}
<1>1. /\ c \in Seq(Block) /\ c # <<>> /\ n \in Nat /\ n >= 1
      /\ \A i \in 1..n : c[i] \in Block
  BY ChainsFacts
<1>2. 0 \in S
  <2>1. SubSeq(c, 2, 0 + 1) = <<>>
    BY SubSeqEmpty
  <2>2. EmptyLedger \in LedgerState
    BY DEF EmptyLedger, LedgerState
  <2>3. Replay(SubSeq(c, 2, 0 + 1)) \in LedgerState
    BY <2>1, <2>2, ReplayEmpty
  <2>4. 0 \in 0..(n - 1)
    BY <1>1
  <2> QED
    BY <2>3, <2>4
<1>3. ASSUME NEW i \in 1..(n - 1), i - 1 \in S
      PROVE  i \in S
  <2> DEFINE b == c[i + 1]
             s == Replay(SubSeq(c, 2, i))
  <2>1. b \in Block
    BY <1>1
  <2>2. s \in LedgerState
    BY <1>1, <1>3
  <2>3. Valid(b, s, SubSeq(c, 1, i))
    <3>1. i + 1 \in 2..Len(c) /\ (i + 1) - 1 = i
      BY <1>1
    <3>2. Valid(c[i + 1], Replay(SubSeq(c, 2, (i + 1) - 1)), SubSeq(c, 1, (i + 1) - 1))
      BY <3>1, ValidTailFacts
    <3> QED
      BY <3>1, <3>2
  <2>4. Replay(SubSeq(c, 2, i + 1)) = AddBlock(s, b)
    BY ReplayOneMore
  <2> HIDE DEF s, b
  <2>5. AddBlock(s, b) \in LedgerState
    BY <2>1, <2>2, <2>3, ValidBlockLedger DEF Ledgers
  <2> QED
    BY <1>1, <2>4, <2>5
<1> HIDE DEF S
<1>4. 0..(n - 1) \subseteq S
  <2> DEFINE m == n - 1
  <2>1. m \in Nat /\ \A i \in 1..m : i - 1 \in S => i \in S
    BY <1>1, <1>3
  <2> HIDE DEF m
  <2>2. 0..m \subseteq S
    BY <1>2, <2>1, UpTo
  <2> QED
    BY <2>2 DEF m
<1>5. ASSUME NEW k \in 1..n
      PROVE  Replay(SubSeq(c, 2, k)) \in LedgerState
  <2>1. k - 1 \in 0..(n - 1) /\ (k - 1) + 1 = k
    BY <1>1
  <2> QED
    BY <1>4, <2>1 DEF S
<1>6. SubSeq(c, 2, n) = Tail(c)
  BY <1>1, TailIsSubSeq
<1>7. Replay(Tail(c)) \in LedgerState
  <2>1. n \in 1..n
    BY <1>1
  <2>2. Replay(SubSeq(c, 2, n)) \in LedgerState
    BY <1>5, <2>1
  <2> QED
    BY <1>6, <2>2
<1> QED
  BY <1>5, <1>7

-----------------------------------------------------------------------------
(* Chain states. *)

(* Work is a natural number.                                               *)
LEMMA WorkType ==
  ASSUME NEW c \in Chains
  PROVE  Work(c) \in Nat
<1> DEFINE f == [i \in DOMAIN c |-> IF c[i].height = 0 THEN 0 ELSE StatedRate(c[i])]
<1>1. Len(c) \in Nat /\ DOMAIN c = 1..Len(c) /\ \A i \in 1..Len(c) : StatedRate(c[i]) \in Nat
  BY ChainsFacts, RatesType
<1>2. IsFiniteSet(1..Len(c))
  <2>1. 1 \in Int /\ Len(c) \in Int
    BY <1>1
  <2> QED
    BY <2>1, FS_Interval
<1>3. f \in [1..Len(c) -> Nat]
  BY <1>1
<1> HIDE DEF f
<1>4. Total(f) \in Nat
  BY <1>2, <1>3, UnitsFinite
<1> QED
  BY <1>4 DEF Work, f

(* One more block moves a chain state on to that of the longer chain       *)
(* (apply_block against from_chain).                                       *)
LEMMA ApplyBlockFacts ==
  ASSUME NEW c \in Chains, NEW b \in Block, b.height = Len(c), DueRate(b) >= 1
  PROVE  /\ ApplyBlock(FromChain(c), b) = FromChain(Append(c, b))
         /\ Work(Append(c, b)) = Work(c) + StatedRate(b)
<1> DEFINE n == Len(c)
           d == Append(c, b)
           rate(e) == [i \in DOMAIN e |-> IF e[i].height = 0 THEN 0 ELSE StatedRate(e[i])]
           f == rate(d)
           g == rate(c)
<1>1. /\ n \in Nat /\ n >= 1 /\ StatedRate(b) \in Nat /\ b.height # 0
      /\ DOMAIN c = 1..n /\ \A i \in 1..n : StatedRate(c[i]) \in Nat
  BY ChainsFacts, RatesType
<1>2. /\ d \in Chains /\ Len(d) = n + 1 /\ d[n + 1] = b /\ \A i \in 1..n : d[i] = c[i]
      /\ DOMAIN d = 1..(n + 1)
  BY ChainsAppend, ChainsFacts
<1>3. Work(d) = Work(c) + StatedRate(b)
  <2> HIDE DEF d
  <2>1. IsFiniteSet(1..n)
    BY <1>1, FS_Interval
  <2>2. 1..(n + 1) = (1..n) \cup {n + 1} /\ n + 1 \notin 1..n
    BY <1>1
  <2>3. /\ f \in [1..(n + 1) -> Nat] /\ g \in [1..n -> Nat]
        /\ \A i \in 1..n : g[i] = f[i]
        /\ f[n + 1] = StatedRate(b)
    <3>1. \A i \in 1..(n + 1) : StatedRate(d[i]) \in Nat
      BY <1>2, ChainsFacts, RatesType
    <3>2. \A i \in 1..n : d[i] = c[i]
      BY <1>2
    <3> HIDE DEF n
    <3> QED
      BY <1>1, <1>2, <2>2, <3>1, <3>2
  <2>4. Work(d) = Total(f) /\ Work(c) = Total(g)
    BY DEF Work
  <2> HIDE DEF f, g, n
  <2>5. Total(f) = Total(g) + f[n + 1]
    <3>1. f \in [(1..n) \cup {n + 1} -> Nat]
      BY <2>2, <2>3
    <3>2. \A S, x : IsFiniteSet(S) /\ x \notin S =>
            \A F \in [S \cup {x} -> Nat], G \in [S -> Nat] :
              (\A i \in S : G[i] = F[i]) => Total(F) = Total(G) + F[x]
      BY TotalNewPoint
    <3>3. \A F \in [(1..n) \cup {n + 1} -> Nat], G \in [1..n -> Nat] :
            (\A i \in 1..n : G[i] = F[i]) => Total(F) = Total(G) + F[n + 1]
      BY <2>1, <2>2, <3>2
    <3> QED
      BY <2>3, <3>1, <3>3
  <2> QED
    BY <2>3, <2>4, <2>5
<1>4. Replay(Tail(d)) = AddBlock(Replay(Tail(c)), b)
  BY TailFacts, BlockTxs, ReplayAppend
<1>5. ApplyBlock(FromChain(c), b) = FromChain(d)
  <2>1. FromChain(d) = [chain |-> d, state |-> Replay(Tail(d)), work |-> Work(d)]
    BY <1>2, ReplayChainFacts
  <2> HIDE DEF d
  <2>2. FromChain(c) = [chain |-> c, state |-> Replay(Tail(c)), work |-> Work(c)]
    BY ReplayChainFacts
  <2>3. ApplyBlock(FromChain(c), b) = [chain |-> d, state |-> AddBlock(Replay(Tail(c)), b),
                                       work |-> Work(c) + StatedRate(b)]
    BY <2>2 DEF ApplyBlock, d
  <2> QED
    BY <1>3, <1>4, <2>1, <2>3
<1> QED
  BY <1>3, <1>5

(* Where two chains part: they are the same up to there. *)
LEMMA ForkPointFacts ==
  ASSUME NEW c \in Chains, NEW d \in Chains
  PROVE  LET k == ForkPoint(c, d)
         IN  /\ k \in Nat /\ k >= 1 /\ k <= Len(c) /\ k <= Len(d)
             /\ \A i \in 1..k : c[i] = d[i]
<1> DEFINE k == ForkPoint(c, d)
           differ == {i \in DOMAIN c \cap DOMAIN d : HashOf(c[i]) # HashOf(d[i])}
           shorter == IF Len(c) < Len(d) THEN Len(c) ELSE Len(d)
<1>1. /\ Len(c) \in Nat /\ Len(c) >= 1 /\ DOMAIN c = 1..Len(c) /\ c[1] = Genesis
      /\ Len(d) \in Nat /\ Len(d) >= 1 /\ DOMAIN d = 1..Len(d) /\ d[1] = Genesis
      /\ \A i \in 1..Len(c) : c[i] \in Block
      /\ \A i \in 1..Len(d) : d[i] \in Block
  BY ChainsFacts
<1>2. k = IF differ = {} THEN shorter ELSE Min(differ) - 1
  BY DEF ForkPoint
<1>3. /\ k \in Nat /\ k >= 1 /\ k <= Len(c) /\ k <= Len(d)
      /\ \A i \in 1..k : i \notin differ
  <2>1. CASE differ = {}
    <3> HIDE DEF k, differ
    <3> QED
      BY <1>1, <1>2, <2>1
  <2>2. CASE differ # {}
    <3>1. /\ differ \subseteq Nat /\ 1 \notin differ
          /\ \A i \in differ : i \in 1..Len(c) /\ i \in 1..Len(d)
      BY <1>1
    <3> HIDE DEF k, differ
    <3>2. \E m \in differ : \A i \in differ : m <= i
      BY <2>2, <3>1, Least
    <3>3. Min(differ) \in differ /\ \A i \in differ : Min(differ) <= i
      BY <3>2 DEF Min
    <3> DEFINE m == Min(differ)
    <3>4. m \in Nat /\ m # 1 /\ m \in 1..Len(c) /\ m \in 1..Len(d) /\ k = m - 1
      BY <1>2, <2>2, <3>1, <3>3
    <3>5. \A i \in 1..(m - 1) : i \notin differ
      BY <3>1, <3>3, <3>4
    <3> HIDE DEF m
    <3> QED
      BY <1>1, <3>4, <3>5
  <2> QED
    BY <2>1, <2>2
<1> HIDE DEF k
<1>4. ASSUME NEW i \in 1..k
      PROVE  c[i] = d[i]
  <2>1. i \in 1..Len(c) /\ i \in 1..Len(d) /\ i \notin differ
    BY <1>1, <1>3
  <2>2. HashOf(c[i]) = HashOf(d[i])
    BY <1>1, <2>1
  <2> QED
    BY <1>1, <2>1, <2>2, HashOfInjective
<1> QED
  BY <1>3, <1>4 DEF k

-----------------------------------------------------------------------------
(* The database. *)

(* The rows of a database are blocks of chain c, each at its own height.   *)
Rows(d, c) ==
  /\ d = [blocks |-> d.blocks, state |-> d.state, index |-> d.index]
  /\ d.state \in LedgerState
  /\ \A h \in DOMAIN d.blocks : h \in Nat /\ h < Len(c) /\ d.blocks[h] = c[h + 1]

(* They are all of them, and the stored ledger is the one they give.       *)
Full(d, c) == DOMAIN d.blocks = 0..(Len(c) - 1) /\ d.state = Replay(Tail(c))

(* What InsertBlocks does with blocks of different heights. *)
LEMMA InsertBlocksFacts ==
  ASSUME NEW table, NEW blks \in Seq(Block),
         \A i, j \in DOMAIN blks : blks[i].height = blks[j].height => i = j
  PROVE  LET new == InsertBlocks(table, blks)
             heights == {b.height : b \in ToSet(blks)}
         IN  /\ DOMAIN new = DOMAIN table \cup heights
             /\ \A b \in ToSet(blks) : new[b.height] = b
             /\ \A h \in DOMAIN table : h \notin heights => new[h] = table[h]
<1> DEFINE new == InsertBlocks(table, blks)
           heights == {b.height : b \in ToSet(blks)}
           claims(h) == {i \in DOMAIN blks : blks[i].height = h}
<1>1. new = [h \in DOMAIN table \cup {blks[i].height : i \in DOMAIN blks} |->
               IF claims(h) = {} THEN table[h] ELSE blks[Max(claims(h))]]
  BY DEF InsertBlocks
<1>2. heights = {blks[i].height : i \in DOMAIN blks}
  BY DEF ToSet
<1>3. DOMAIN blks \subseteq Nat
  <2>1. DOMAIN blks = 1..Len(blks) /\ Len(blks) \in Nat
    BY LenProperties
  <2> QED
    BY <2>1
<1> HIDE DEF new
<1>4. ASSUME NEW i \in DOMAIN blks
      PROVE  new[blks[i].height] = blks[i]
  <2>1. claims(blks[i].height) = {i}
    OBVIOUS
  <2>2. Max({i}) = i
    <3>1. i >= i
      BY <1>3
    <3>2. \E x \in {i} : \A y \in {i} : x >= y
      BY <3>1
    <3> QED
      BY <3>2 DEF Max
  <2> HIDE DEF claims
  <2> QED
    BY <1>1, <2>1, <2>2
<1>5. ASSUME NEW b \in ToSet(blks)
      PROVE  new[b.height] = b
  <2>1. PICK i \in DOMAIN blks : b = blks[i]
    BY DEF ToSet
  <2> QED
    BY <1>4, <2>1
<1>6. DOMAIN new = DOMAIN table \cup heights
  BY <1>1, <1>2
<1>7. \A h \in DOMAIN table : h \notin heights => new[h] = table[h]
  BY <1>1, <1>2
<1> QED
  BY <1>5, <1>6, <1>7 DEF new

(* A list of one block. *)
LEMMA OneBlock ==
  ASSUME NEW b \in Block
  PROVE  /\ <<b>> \in Seq(Block) /\ DOMAIN <<b>> = {1} /\ <<b>>[1] = b
         /\ ToSet(<<b>>) = {b}
<1>1. <<b>> \in Seq(Block) /\ Len(<<b>>) = 1 /\ <<b>>[1] = b
  OBVIOUS
<1> DEFINE s == <<b>>
<1>2. s \in Seq(Block) /\ Len(s) = 1 /\ s[1] = b
  BY <1>1
<1> HIDE DEF s
<1>3. DOMAIN s = {1}
  BY <1>2, LenProperties
<1>4. ToSet(s) = {b}
  BY <1>2, <1>3 DEF ToSet
<1> QED
  BY <1>2, <1>3, <1>4 DEF s

(* save_block_and_state appends a row. *)
LEMMA RowsSave ==
  ASSUME NEW d, NEW c \in Chains, Rows(d, c),
         NEW b \in Block, b.height = Len(c), DueRate(b) >= 1, NEW led \in LedgerState
  PROVE  LET new == SaveBlockAndState(d, b, led)
         IN  /\ Rows(new, Append(c, b))
             /\ Full(d, c) /\ led = Replay(Tail(Append(c, b))) => Full(new, Append(c, b))
             /\ new.state = led
             /\ new.index = IndexBlocks(d.index, <<b>>)
<1> DEFINE new == SaveBlockAndState(d, b, led)
           rows == InsertBlocks(d.blocks, <<b>>)
           e == Append(c, b)
           n == Len(c)
<1>1. new = [blocks |-> rows, state |-> led, index |-> IndexBlocks(d.index, <<b>>)]
  <2> DEFINE index == IndexBlocks(d.index, <<b>>)
  <2>1. d = [blocks |-> d.blocks, state |-> d.state, index |-> d.index]
    BY DEF Rows
  <2>2. SaveBlock(d, b) = [d EXCEPT !.blocks = rows, !.index = index]
    BY DEF SaveBlock
  <2> HIDE DEF rows, index
  <2>3. SaveBlock(d, b) = [blocks |-> rows, state |-> d.state, index |-> index]
    BY <2>1, <2>2
  <2>4. new = [blocks |-> rows, state |-> led, index |-> index]
    BY <2>3 DEF SaveBlockAndState
  <2> QED
    BY <2>4 DEF index
<1>2. /\ n \in Nat /\ e \in Chains /\ Len(e) = n + 1
      /\ \A i \in 1..n : e[i] = c[i]
      /\ e[n + 1] = b
  BY ChainsFacts, ChainsAppend
<1>3. /\ DOMAIN rows = DOMAIN d.blocks \cup {n}
      /\ rows[n] = b
      /\ \A h \in DOMAIN d.blocks : h # n => rows[h] = d.blocks[h]
  <2> DEFINE s == <<b>>
             heights == {x.height : x \in ToSet(s)}
  <2>1. s \in Seq(Block) /\ DOMAIN s = {1} /\ ToSet(s) = {b}
    BY OneBlock
  <2>2. heights = {n}
    BY <2>1
  <2> HIDE DEF s
  <2>3. \A i, j \in DOMAIN s : s[i].height = s[j].height => i = j
    BY <2>1
  <2>4. /\ DOMAIN rows = DOMAIN d.blocks \cup heights
        /\ \A x \in ToSet(s) : rows[x.height] = x
        /\ \A h \in DOMAIN d.blocks : h \notin heights => rows[h] = d.blocks[h]
    BY <2>1, <2>3, InsertBlocksFacts DEF s
  <2> HIDE DEF rows, heights
  <2> QED
    BY <2>1, <2>2, <2>4
<1> HIDE DEF rows, e, n, new
<1>4. \A h \in DOMAIN rows : h \in Nat /\ h < Len(e) /\ rows[h] = e[h + 1]
  <2> SUFFICES ASSUME NEW h \in DOMAIN rows
               PROVE  h \in Nat /\ h < Len(e) /\ rows[h] = e[h + 1]
    OBVIOUS
  <2>1. CASE h = n
    BY <1>2, <1>3, <2>1
  <2>2. CASE h # n
    <3>1. h \in DOMAIN d.blocks /\ rows[h] = d.blocks[h]
      BY <1>3, <2>2
    <3>2. h \in Nat /\ h < n /\ d.blocks[h] = c[h + 1]
      BY <3>1 DEF Rows, n
    <3>3. h + 1 \in 1..n
      BY <1>2, <3>2
    <3> QED
      BY <1>2, <3>1, <3>2, <3>3
  <2> QED
    BY <2>1, <2>2
<1>5. Rows(new, e)
  BY <1>1, <1>4 DEF Rows
<1>6. ASSUME Full(d, c), led = Replay(Tail(e))
      PROVE  Full(new, e)
  <2>1. DOMAIN d.blocks = 0..(n - 1)
    BY <1>6 DEF Full, n
  <2>2. DOMAIN rows = 0..(Len(e) - 1)
    BY <1>2, <1>3, <2>1
  <2> QED
    BY <1>1, <1>6, <2>2 DEF Full
<1>7. new.state = led /\ new.index = IndexBlocks(d.index, <<b>>)
  BY <1>1
<1> QED
  BY <1>5, <1>6, <1>7 DEF e, new

(* The blocks of a chain from position k + 1 on. *)
LEMMA SuffixFacts ==
  ASSUME NEW r \in Chains, NEW k \in Nat, k <= Len(r)
  PROVE  LET s    == SubSeq(r, k + 1, Len(r))
             tail == ToSet(s)
         IN  /\ s \in Seq(Block)
             /\ \A b \in tail : \E i \in (k + 1)..Len(r) : b = r[i]
             /\ \A i \in (k + 1)..Len(r) : r[i] \in tail
             /\ tail \subseteq Block
             /\ {b.height : b \in tail} = k..(Len(r) - 1)
             /\ \A i, j \in DOMAIN s : s[i].height = s[j].height => i = j
             /\ DOMAIN s = 1..(Len(r) - k) /\ \A i \in 1..(Len(r) - k) : s[i] = r[k + i]
<1> DEFINE n == Len(r)
           s == SubSeq(r, k + 1, n)
           tail == ToSet(s)
<1>1. /\ n \in Nat /\ n >= 1
      /\ \A i \in 1..n : r[i] \in Block /\ r[i].height = i - 1
  BY ChainsFacts
<1>2. /\ s \in Seq(Block) /\ Len(s) = (IF k + 1 <= n THEN n - (k + 1) + 1 ELSE 0)
      /\ \A i \in 1..(n - (k + 1) + 1) : s[i] = r[k + 1 + i - 1]
  BY <1>1, SubSeqProperties
<1> HIDE DEF n, s
<1>3. DOMAIN s = 1..(n - k) /\ \A i \in 1..(n - k) : s[i] = r[k + i]
  <2>1. DOMAIN s = 1..Len(s) /\ Len(s) = n - k
    BY <1>1, <1>2, LenProperties DEF n
  <2>2. ASSUME NEW i \in 1..(n - k)
        PROVE  s[i] = r[k + i]
    <3>1. i \in 1..(n - (k + 1) + 1) /\ k + 1 + i - 1 = k + i
      BY <1>1
    <3> QED
      BY <1>2, <3>1
  <2> QED
    BY <2>1, <2>2
<1>4. \A b \in tail : \E i \in (k + 1)..n : b = r[i]
  <2> SUFFICES ASSUME NEW j \in 1..(n - k)
               PROVE  \E i \in (k + 1)..n : s[j] = r[i]
    BY <1>3 DEF ToSet
  <2>1. k + j \in (k + 1)..n
    BY <1>1
  <2> QED
    BY <1>3, <2>1
<1>5. ASSUME NEW i \in (k + 1)..n
      PROVE  r[i] \in tail
  <2>1. i - k \in DOMAIN s /\ k + (i - k) = i
    BY <1>1, <1>3
  <2>2. s[i - k] = r[i]
    BY <1>3, <2>1
  <2> QED
    BY <2>1, <2>2 DEF ToSet
<1> HIDE DEF tail
<1>6. tail \subseteq Block
  BY <1>1, <1>4
<1>7. {b.height : b \in tail} = k..(n - 1)
  <2>1. ASSUME NEW b \in tail
        PROVE  b.height \in k..(n - 1)
    BY <1>1, <1>4
  <2>2. ASSUME NEW h \in k..(n - 1)
        PROVE  \E b \in tail : b.height = h
    <3>1. h + 1 \in (k + 1)..n /\ h + 1 \in 1..n
      BY <1>1
    <3>2. r[h + 1] \in tail /\ r[h + 1].height = h
      BY <1>1, <1>5, <3>1
    <3> QED
      BY <3>2
  <2> QED
    BY <2>1, <2>2
<1>8. \A i, j \in DOMAIN s : s[i].height = s[j].height => i = j
  <2>1. ASSUME NEW i \in 1..(n - k)
        PROVE  s[i].height = k + i - 1
    <3>1. k + i \in 1..n /\ s[i] = r[k + i]
      BY <1>1, <1>3
    <3> QED
      BY <1>1, <3>1
  <2> QED
    BY <1>3, <2>1
<1> QED
  BY <1>2, <1>3, <1>4, <1>5, <1>6, <1>7, <1>8 DEF tail, s, n

(* replace_chain_and_state leaves the rows of the new chain. *)
LEMMA RowsReplace ==
  ASSUME NEW d, NEW c \in Chains, Rows(d, c), NEW r \in Chains, NEW k \in Nat,
         k <= Len(c), k <= Len(r), \A i \in 1..k : c[i] = r[i], NEW led \in LedgerState
  PROVE  LET tail == SubSeq(r, k + 1, Len(r))
             new == ReplaceChainAndState(d, k, tail, led)
         IN  /\ Rows(new, r)
             /\ 0..(k - 1) \subseteq DOMAIN d.blocks /\ led = Replay(Tail(r)) => Full(new, r)
             /\ new.state = led
             /\ new.index = IndexBlocks([tx \in {x \in DOMAIN d.index : d.index[x] < k}
                                           |-> d.index[tx]], tail)
<1> DEFINE n == Len(r)
           seq == SubSeq(r, k + 1, n)
           tail == ToSet(seq)
           kept == [h \in {x \in DOMAIN d.blocks : x < k} |-> d.blocks[h]]
           rows == InsertBlocks(kept, seq)
           index == IndexBlocks([tx \in {x \in DOMAIN d.index : d.index[x] < k}
                                   |-> d.index[tx]], seq)
           new == ReplaceChainAndState(d, k, seq, led)
<1>1. new = [blocks |-> rows, index |-> index, state |-> led]
  BY DEF ReplaceChainAndState
<1>2. n \in Nat /\ n >= 1 /\ \A i \in 1..n : r[i] \in Block /\ r[i].height = i - 1
  BY ChainsFacts
<1>3. /\ \A b \in tail : \E i \in (k + 1)..n : b = r[i]
      /\ \A i \in (k + 1)..n : r[i] \in tail
      /\ {b.height : b \in tail} = k..(n - 1)
      /\ seq \in Seq(Block) /\ tail = ToSet(seq)
      /\ \A i, j \in DOMAIN seq : seq[i].height = seq[j].height => i = j
  BY SuffixFacts
<1> HIDE DEF tail, seq, n
<1>4. /\ DOMAIN rows = DOMAIN kept \cup (k..(n - 1))
      /\ \A b \in tail : rows[b.height] = b
      /\ \A h \in DOMAIN kept : h \notin k..(n - 1) => rows[h] = kept[h]
  <2> HIDE DEF kept
  <2>1. /\ DOMAIN rows = DOMAIN kept \cup {b.height : b \in tail}
        /\ \A b \in tail : rows[b.height] = b
        /\ \A h \in DOMAIN kept : h \notin {b.height : b \in tail} => rows[h] = kept[h]
    BY <1>3, InsertBlocksFacts
  <2> HIDE DEF rows
  <2> QED
    BY <1>3, <2>1
<1>5. \A h \in DOMAIN kept : h \in Nat /\ h < k /\ kept[h] = r[h + 1]
  <2> SUFFICES ASSUME NEW h \in DOMAIN d.blocks, h < k
               PROVE  h \in Nat /\ d.blocks[h] = r[h + 1]
    OBVIOUS
  <2>1. h \in Nat /\ d.blocks[h] = c[h + 1]
    BY DEF Rows
  <2>2. h + 1 \in 1..k
    BY <2>1
  <2> QED
    BY <2>1, <2>2
<1>6. 0..(k - 1) \subseteq DOMAIN d.blocks => DOMAIN kept = 0..(k - 1)
  <2> SUFFICES ASSUME 0..(k - 1) \subseteq DOMAIN d.blocks
               PROVE  DOMAIN kept = 0..(k - 1)
    OBVIOUS
  <2>1. \A h \in DOMAIN kept : h \in 0..(k - 1)
    <3> HIDE DEF kept
    <3> QED
      BY <1>5
  <2>2. \A h \in 0..(k - 1) : h \in DOMAIN kept
    OBVIOUS
  <2> HIDE DEF kept
  <2> QED
    BY <2>1, <2>2
<1> HIDE DEF kept, rows, index, new
<1>7. \A h \in DOMAIN rows : h \in Nat /\ h < n /\ rows[h] = r[h + 1]
  <2> SUFFICES ASSUME NEW h \in DOMAIN rows
               PROVE  h \in Nat /\ h < n /\ rows[h] = r[h + 1]
    OBVIOUS
  <2>1. CASE h \in k..(n - 1)
    <3>1. h + 1 \in (k + 1)..n /\ h + 1 \in 1..n
      BY <1>2, <2>1
    <3>2. r[h + 1] \in tail
      BY <1>3, <3>1
    <3>4. r[h + 1].height = h
      BY <1>2, <2>1, <3>1
    <3>3. rows[h] = r[h + 1]
      BY <1>4, <3>2, <3>4
    <3> QED
      BY <1>2, <2>1, <3>3
  <2>2. CASE h \notin k..(n - 1)
    <3>1. h \in DOMAIN kept /\ rows[h] = kept[h]
      BY <1>4, <2>2
    <3>2. h \in Nat /\ h < k /\ kept[h] = r[h + 1]
      BY <1>5, <3>1
    <3> QED
      BY <1>2, <3>1, <3>2 DEF n
  <2> QED
    BY <2>1, <2>2
<1>8. Rows(new, r)
  BY <1>1, <1>7 DEF Rows, n
<1>9. ASSUME 0..(k - 1) \subseteq DOMAIN d.blocks, led = Replay(Tail(r))
      PROVE  Full(new, r)
  <2>1. DOMAIN rows = (0..(k - 1)) \cup (k..(n - 1))
    BY <1>4, <1>6, <1>9
  <2>2. k <= n
    BY DEF n
  <2>3. DOMAIN rows = 0..(n - 1)
    BY <1>2, <2>1, <2>2
  <2> QED
    BY <1>1, <1>9, <2>3 DEF Full, n
<1>10. new.state = led /\ new.index = index
  BY <1>1
<1> QED
  BY <1>8, <1>9, <1>10 DEF new, index, tail, seq, n

(* A database that holds all rows of a chain brings the whole chain back.  *)
LEMMA LoadFull ==
  ASSUME NEW d, NEW c \in Chains, Rows(d, c), Full(d, c)
  PROVE  /\ LoadAllBlocks(d) = c
         /\ LoadChainState(d) = FromChain(c)
<1> DEFINE n == Len(c)
           rows == DOMAIN d.blocks
           below(h) == Cardinality({x \in rows : x < h})
<1>1. /\ c \in Seq(Block) /\ n \in Nat /\ n >= 1
      /\ rows = 0..(n - 1) /\ \A h \in rows : d.blocks[h] = c[h + 1]
      /\ d.state = Replay(Tail(c))
  BY ChainsFacts DEF Rows, Full
<1> HIDE DEF n, rows
<1>2. Cardinality(rows) = n
  <2>1. Cardinality(0..(n - 1)) = IF 0 > n - 1 THEN 0 ELSE (n - 1) - 0 + 1
    BY <1>1, FS_Interval
  <2> QED
    BY <1>1, <2>1
<1>3. ASSUME NEW h \in rows
      PROVE  below(h) = h
  <2>1. h \in Nat /\ {x \in rows : x < h} = 0..(h - 1)
    BY <1>1
  <2>2. Cardinality(0..(h - 1)) = IF 0 > h - 1 THEN 0 ELSE (h - 1) - 0 + 1
    BY <2>1, FS_Interval
  <2>3. Cardinality(0..(h - 1)) = h
    BY <2>1, <2>2
  <2> QED
    BY <2>1, <2>3
<1> DEFINE at(i) == CHOOSE h \in rows : below(h) = i - 1
           loaded == [i \in 1..n |-> d.blocks[at(i)]]
<1>4. ASSUME NEW i \in 1..n
      PROVE  at(i) = i - 1
  <2> HIDE DEF below
  <2>1. i - 1 \in rows /\ below(i - 1) = i - 1
    BY <1>1, <1>3
  <2>2. at(i) \in rows /\ below(at(i)) = i - 1
    BY <2>1
  <2> QED
    BY <1>3, <2>2
<1>5. LoadAllBlocks(d) = loaded
  BY <1>2 DEF LoadAllBlocks, rows
<1> HIDE DEF at, below
<1>6. loaded = c
  <2>1. c = [i \in 1..n |-> c[i]]
    BY <1>1, LenProperties DEF n
  <2>2. \A i \in 1..n : d.blocks[at(i)] = c[i]
    <3> SUFFICES ASSUME NEW i \in 1..n
                 PROVE  d.blocks[at(i)] = c[i]
      OBVIOUS
    <3>1. at(i) = i - 1 /\ i - 1 \in rows /\ (i - 1) + 1 = i
      BY <1>1, <1>4
    <3> QED
      BY <1>1, <3>1
  <2> QED
    BY <2>1, <2>2
<1>7. LoadAllBlocks(d) = c
  BY <1>5, <1>6
<1> QED
  BY <1>1, <1>7, ReplayChainFacts DEF LoadChainState, FromStorage

-----------------------------------------------------------------------------
(* The mempool. *)

(* A total splits into the totals of two parts of the domain. *)
LEMMA TotalSplit ==
  ASSUME NEW S, IsFiniteSet(S), NEW T \in SUBSET S, NEW f \in [S -> Nat]
  PROVE  /\ Total(f) = Total([x \in T |-> f[x]]) + Total([x \in S \ T |-> f[x]])
         /\ Total([x \in T |-> f[x]]) \in Nat
         /\ Total([x \in S \ T |-> f[x]]) \in Nat
<1> DEFINE g == [x \in T |-> f[x]]
           h == [x \in S \ T |-> f[x]]
<1>1. IsFiniteSet(T) /\ IsFiniteSet(S \ T)
  BY FS_Subset
<1>2. g \in [T -> Nat] /\ h \in [S \ T -> Nat]
  OBVIOUS
<1>3. Units(f) = Units(g) \cup Units(h) /\ Units(g) \cap Units(h) = {}
  BY DEF Units
<1> HIDE DEF g, h
<1>4. IsFiniteSet(Units(g)) /\ IsFiniteSet(Units(h)) /\ Total(g) \in Nat /\ Total(h) \in Nat
  BY <1>1, <1>2, UnitsFinite
<1>5. Cardinality(Units(g) \cup Units(h)) = Cardinality(Units(g)) + Cardinality(Units(h))
  BY <1>3, <1>4, DisjointUnion
<1> QED
  BY <1>3, <1>4, <1>5 DEF Total, g, h

(* The pools of transactions that fit the mempool. *)
Pools == {p \in SUBSET Txs : IsFiniteSet(p) /\ PoolBytes(p) <= MempoolMaxBytes}

(* The fields of a transaction, as LedgerAssumption types them.            *)
LEMMA TxSize == \A t \in Txs : t.size \in Nat /\ t.size >= 1 /\ t.fee \in Nat
                               /\ t.from \in Addr /\ t.nonce \in Nat
  BY LedgerAssumption DEF Transaction

(* The bytes of a pool are those of a part of it and of the rest.          *)
LEMMA PoolBytesSplit ==
  ASSUME NEW p \in SUBSET Txs, IsFiniteSet(p), NEW out \in SUBSET p
  PROVE  /\ PoolBytes(p) = PoolBytes(out) + PoolBytes(p \ out)
         /\ PoolBytes(p) \in Nat /\ PoolBytes(out) \in Nat /\ PoolBytes(p \ out) \in Nat
<1> DEFINE f == [t \in p |-> t.size]
<1>1. f \in [p -> Nat]
  BY TxSize
<1>2. /\ [x \in out |-> f[x]] = [t \in out |-> t.size]
      /\ [x \in p \ out |-> f[x]] = [t \in p \ out |-> t.size]
  OBVIOUS
<1>3. /\ Total(f) = Total([x \in out |-> f[x]]) + Total([x \in p \ out |-> f[x]])
      /\ Total([x \in out |-> f[x]]) \in Nat
      /\ Total([x \in p \ out |-> f[x]]) \in Nat
  <2> HIDE DEF f
  <2> QED
    BY <1>1, TotalSplit
<1>4. /\ Total(f) = PoolBytes(out) + PoolBytes(p \ out)
      /\ PoolBytes(out) \in Nat /\ PoolBytes(p \ out) \in Nat
  BY <1>2, <1>3 DEF PoolBytes
<1>5. PoolBytes(p) = Total(f)
  BY DEF PoolBytes
<1> HIDE DEF f
<1> QED
  BY <1>4, <1>5

(* A transaction adds its own size to the bytes of a pool.                 *)
LEMMA PoolBytesOne ==
  ASSUME NEW p \in SUBSET Txs, IsFiniteSet(p), NEW tx \in Txs, tx \notin p
  PROVE  PoolBytes(p \cup {tx}) = PoolBytes(p) + tx.size
<1> DEFINE f == [t \in p \cup {tx} |-> t.size]
           g == [t \in p |-> t.size]
<1>1. f \in [p \cup {tx} -> Nat] /\ g \in [p -> Nat] /\ \A y \in p : g[y] = f[y]
  BY TxSize
<1>2. f[tx] = tx.size /\ PoolBytes(p \cup {tx}) = Total(f) /\ PoolBytes(p) = Total(g)
  BY DEF PoolBytes
<1> HIDE DEF f, g
<1>3. Total(f) = Total(g) + f[tx]
  BY <1>1, TotalNewPoint
<1> QED
  BY <1>2, <1>3

(* mempool.add keeps the mempool within its cap and lets a transaction     *)
(* displace only transactions of a lower rate.                             *)
LEMMA AddFacts ==
  ASSUME NEW p \in Pools, NEW tx \in Txs, NEW q \in Add(p, tx)
  PROVE  /\ q \in Pools
         /\ \/ q = p
            \/ /\ tx \notin p
               /\ \E out \in SUBSET {t \in p : LowerRate(t, tx)} : q = (p \ out) \cup {tx}
<1>1. p \in SUBSET Txs /\ IsFiniteSet(p) /\ PoolBytes(p) <= MempoolMaxBytes
  BY DEF Pools
<1>2. tx.size \in Nat /\ MempoolMaxBytes \in Nat
  BY TxSize, MempoolAssumption
<1>3. ASSUME tx \notin p, NEW out \in Evictions(p, tx), q = (p \ out) \cup {tx}
      PROVE  q \in Pools /\ out \in SUBSET {t \in p : LowerRate(t, tx)}
  <2> DEFINE overflow == PoolBytes(p) + tx.size - MempoolMaxBytes
  <2>1. /\ out \in SUBSET {t \in p : LowerRate(t, tx)}
        /\ overflow <= 0 => out = {}
        /\ ~(overflow <= 0) => PoolBytes(out) >= overflow
    BY <1>3 DEF Evictions
  <2>2. /\ PoolBytes(p) = PoolBytes(out) + PoolBytes(p \ out)
        /\ PoolBytes(p) \in Nat /\ PoolBytes(out) \in Nat /\ PoolBytes(p \ out) \in Nat
    <3>1. out \in SUBSET p
      BY <2>1
    <3> QED
      BY <1>1, <3>1, PoolBytesSplit
  <2>3. p \ out \in SUBSET Txs /\ IsFiniteSet(p \ out) /\ tx \notin p \ out
    BY <1>1, <1>3, FS_Difference
  <2>4. PoolBytes(q) = PoolBytes(p \ out) + tx.size
    BY <1>3, <2>3, PoolBytesOne
  <2>5. PoolBytes(q) <= MempoolMaxBytes
    <3>1. CASE overflow <= 0
      <4>1. p \ out = p
        BY <2>1, <3>1
      <4> QED
        BY <1>2, <2>2, <2>4, <3>1, <4>1
    <3>2. CASE ~(overflow <= 0)
      <4>1. PoolBytes(out) >= overflow
        BY <2>1, <3>2
      <4> QED
        BY <1>2, <2>2, <2>4, <4>1
    <3> QED
      BY <3>1, <3>2
  <2>6. IsFiniteSet(q)
    BY <1>3, <2>3, FS_AddElement
  <2>7. q \in SUBSET Txs
    BY <1>3, <2>3
  <2> QED
    BY <2>1, <2>5, <2>6, <2>7 DEF Pools
<1>4. CASE tx \in p \/ Evictions(p, tx) = {}
  BY <1>4 DEF Add
<1>5. CASE ~(tx \in p \/ Evictions(p, tx) = {})
  <2>1. PICK out \in Evictions(p, tx) : q = (p \ out) \cup {tx}
    BY <1>5 DEF Add
  <2> QED
    BY <1>3, <1>5, <2>1
<1> QED
  BY <1>4, <1>5

(* Fewer transactions fit as well. *)
LEMMA PoolsSubset ==
  ASSUME NEW p \in Pools, NEW q \in SUBSET p
  PROVE  q \in Pools
<1>1. p \in SUBSET Txs /\ IsFiniteSet(p) /\ PoolBytes(p) <= MempoolMaxBytes
  BY DEF Pools
<1>2. /\ PoolBytes(p) = PoolBytes(q) + PoolBytes(p \ q)
      /\ PoolBytes(p) \in Nat /\ PoolBytes(q) \in Nat /\ PoolBytes(p \ q) \in Nat
  BY <1>1, PoolBytesSplit
<1>3. PoolBytes(q) <= MempoolMaxBytes
  BY <1>1, <1>2, MempoolAssumption
<1> QED
  BY <1>1, <1>3, FS_Subset DEF Pools

(* The empty pool fits.                                                    *)
LEMMA EmptyPool == {} \in Pools
<1> DEFINE f == [t \in {} |-> t.size]
<1>1. f \in [{} -> Nat] /\ \A x \in {} : f[x] = 0
  OBVIOUS
<1>2. PoolBytes({}) = Total(f)
  BY DEF PoolBytes
<1> HIDE DEF f
<1>3. Total(f) = 0
  BY <1>1, TotalZero
<1> QED
  BY <1>2, <1>3, FS_EmptySet, MempoolAssumption DEF Pools

(* Adding a transaction that is valid on led does not leave the set K of   *)
(* pools.                                                                  *)
AddStays(K, except, led) ==
  \A p \in K : \A tx \in Txs :
    tx \notin except /\ TxValid(tx, led) => Add(p, tx) \subseteq K

(* _readd_valid_txs stays within any such set of pools.                    *)
LEMMA ReaddClosed ==
  ASSUME NEW K, NEW pending \in K, NEW txs \in Seq(Txs), NEW except, NEW led,
         AddStays(K, except, led)
  PROVE  Readd(pending, txs, except, led) \subseteq K
<1> DEFINE n == Len(txs)
           L == SUBSET K
           step(pools, tx) == IF tx \notin except /\ TxValid(tx, led)
                              THEN UNION {Add(p, tx) : p \in pools}
                              ELSE pools
           H == [i \in 1..n |-> [l \in L |-> step(l, txs[i])]]
           e == {pending}
           Run(g) == [i \in 0..n |-> IF i = 0 THEN e ELSE step(g[i - 1], txs[i])]
<1>1. n \in Nat /\ \A i \in 1..n : txs[i] \in Txs
  BY ElementOfSeq, LenProperties
<1>2. e \in L /\ \A l \in L, tx \in Txs : step(l, tx) \in L
  BY DEF AddStays
<1>3. H \in [1..n -> [L -> L]]
  <2> HIDE DEF step, n, L
  <2> QED
    BY <1>1, <1>2
<1> HIDE DEF n, L, e
<1>4. PICK f \in [0..n -> L] : f[0] = e /\ \A i \in 1..n : f[i] = H[i][f[i - 1]]
  <2> HIDE DEF H, step
  <2>1. Composable(L)
    BY Compose
  <2> QED
    BY <1>1, <1>2, <1>3, <2>1, Zenon DEF Composable
<1>5. ASSUME NEW i \in 1..n
      PROVE  f[i] = step(f[i - 1], txs[i])
  <2> HIDE DEF step
  <2>1. f[i] = H[i][f[i - 1]] /\ f[i - 1] \in L
    BY <1>1, <1>4
  <2> QED
    BY <2>1
<1>6. f = Run(f)
  <2> HIDE DEF step
  <2> QED
    BY <1>1, <1>4, <1>5
<1> DEFINE after == CHOOSE g : g = Run(g)
<1>7. after = Run(after)
  BY <1>6
<1>8. Readd(pending, txs, except, led) = after[n]
  BY DEF Readd, n, e
<1> HIDE DEF after
<1>9. after[0] = e /\ \A i \in 1..n : after[i] = step(after[i - 1], txs[i])
  <2> HIDE DEF step
  <2> QED
    BY <1>1, <1>7
<1> DEFINE S == {i \in 0..n : after[i] \in L}
<1>10. 0 \in S /\ \A i \in 1..n : i - 1 \in S => i \in S
  <2> HIDE DEF step
  <2> QED
    BY <1>1, <1>2, <1>9
<1> HIDE DEF S
<1>11. 0..n \subseteq S
  BY <1>1, <1>10, UpTo
<1> QED
  BY <1>1, <1>8, <1>11 DEF S, L

(* The lists of a list of lists, one after the other. *)
LEMMA FlattenType ==
  ASSUME NEW seqs \in Seq(Seq(Txs))
  PROVE  FlattenSeq(seqs) \in Seq(Txs)
<1> DEFINE n == Len(seqs)
           L == Seq(Txs)
           step(i, l) == IF i = 1 THEN seqs[i] ELSE l \o seqs[i]
           H == [i \in 1..n |-> [l \in L |-> step(i, l)]]
           Run(g) == [i \in 1..n |-> IF i = 1 THEN seqs[i] ELSE g[i - 1] \o seqs[i]]
<1>1. n \in Nat /\ \A i \in 1..n : seqs[i] \in L
  BY ElementOfSeq, LenProperties
<1>2. \A i \in 1..n, l \in L : step(i, l) \in L
  BY <1>1, ConcatProperties
<1>3. CASE n = 0
  <2>1. FlattenSeq(seqs) = <<>>
    BY <1>3, EmptySeq DEF FlattenSeq
  <2> QED
    BY <2>1
<1>4. CASE n # 0
  <2> HIDE DEF n
  <2>1. PICK f \in [0..n -> L] : \A i \in 1..n : f[i] = step(i, f[i - 1])
    <3>1. H \in [1..n -> [L -> L]]
      <4> HIDE DEF step, L
      <4> QED
        BY <1>2
    <3> DEFINE e == <<>>
    <3>2. e \in L
      OBVIOUS
    <3> HIDE DEF H, e
    <3>3. PICK f \in [0..n -> L] : f[0] = e /\ \A i \in 1..n : f[i] = H[i][f[i - 1]]
      <4> HIDE DEF L
      <4>1. Composable(L)
        BY Compose
      <4> QED
        BY <1>1, <3>1, <3>2, <4>1, Zenon DEF Composable
    <3>4. ASSUME NEW i \in 1..n
          PROVE  f[i] = step(i, f[i - 1])
      <4> HIDE DEF step, L
      <4>1. f[i] = H[i][f[i - 1]] /\ f[i - 1] \in L
        BY <1>1, <3>3
      <4> QED
        BY <4>1 DEF H
    <3> QED
      BY <3>4
  <2> DEFINE h == [i \in 1..n |-> f[i]]
  <2>2. h = Run(h)
    <3>1. ASSUME NEW i \in 1..n
          PROVE  f[i] = IF i = 1 THEN seqs[i] ELSE h[i - 1] \o seqs[i]
      <4>1. f[i] = step(i, f[i - 1])
        BY <2>1
      <4>2. i # 1 => h[i - 1] = f[i - 1]
        BY <1>1
      <4> QED
        BY <4>1, <4>2
    <3> QED
      BY <3>1
  <2> DEFINE flatten == CHOOSE g : g = Run(g)
  <2> HIDE DEF h
  <2>3. flatten = Run(flatten)
    BY <2>2
  <2>4. FlattenSeq(seqs) = flatten[n]
    BY <1>4 DEF FlattenSeq, n
  <2> HIDE DEF flatten
  <2>5. \A i \in 1..n : flatten[i] = step(i, flatten[i - 1])
    BY <2>3
  <2> DEFINE S == {i \in 0..n : i = 0 \/ flatten[i] \in L}
  <2>6. 0 \in S
    BY <1>1
  <2>7. ASSUME NEW i \in 1..n, i - 1 \in S
        PROVE  i \in S
    <3>1. CASE i = 1
      <4>1. flatten[i] = seqs[i] /\ seqs[i] \in L
        BY <1>1, <2>5, <3>1
      <4> QED
        BY <4>1
    <3>2. CASE i # 1
      <4>1. flatten[i - 1] \in L
        BY <2>7, <3>2
      <4> HIDE DEF step, L
      <4> QED
        BY <1>1, <1>2, <2>5, <4>1
    <3> QED
      BY <3>1, <3>2
  <2> HIDE DEF S
  <2>8. 0..n \subseteq S
    BY <1>1, <2>6, <2>7, UpTo
  <2> QED
    BY <1>1, <1>4, <2>4, <2>8 DEF S
<1> QED
  BY <1>3, <1>4

(* The transactions of abandoned blocks are transactions.                  *)
LEMMA TxsFromType ==
  ASSUME NEW c \in Chains, NEW fork \in Nat, fork <= Len(c)
  PROVE  TxsFrom(c, fork) \in Seq(Txs)
<1> DEFINE s == [i \in 1..(Len(c) - fork) |-> c[fork + i].txs]
<1>1. Len(c) \in Nat /\ Len(c) - fork \in Nat /\ \A i \in 1..Len(c) : c[i].txs \in Seq(Txs)
  BY ChainsFacts, BlockTxs
<1>2. \A i \in 1..(Len(c) - fork) : c[fork + i].txs \in Seq(Txs)
  BY <1>1
<1>3. s \in Seq(Seq(Txs))
  BY <1>1, <1>2
<1> HIDE DEF s
<1>4. FlattenSeq(s) \in Seq(Txs)
  BY <1>3, FlattenType
<1> QED
  BY <1>4 DEF TxsFrom, s

(* What Pack works on: the transactions taken so far, and the senders that *)
(* are left off.                                                           *)
Packed == [txs : Seq(Txs), full : SUBSET Addr]

PackStep(taken, tx) ==
  IF tx.from \in taken.full THEN taken
  ELSE IF Bytes(taken.txs) + tx.size > BlockLimit
       THEN [taken EXCEPT !.full = @ \cup {tx.from}]
       ELSE [taken EXCEPT !.txs = Append(@, tx)]

(* What Pack goes through.                                                 *)
LEMMA PackSteps ==
  ASSUME NEW order \in Seq(Txs)
  PROVE  \E f \in [0..Len(order) -> Packed] :
           /\ f[0] = [txs |-> <<>>, full |-> {}]
           /\ \A i \in 1..Len(order) : f[i] = PackStep(f[i - 1], order[i])
           /\ f[Len(order)].txs = Pack(order)
<1> DEFINE n == Len(order)
           e == [txs |-> <<>>, full |-> {}]
           H == [i \in 1..n |-> [l \in Packed |-> PackStep(l, order[i])]]
           Run(g) == [i \in 0..n |-> IF i = 0 THEN e ELSE PackStep(g[i - 1], order[i])]
<1>1. n \in Nat /\ \A i \in 1..n : order[i] \in Txs
  BY ElementOfSeq, LenProperties
<1>2. e \in Packed /\ \A l \in Packed, tx \in Txs : PackStep(l, tx) \in Packed
  <2>1. e \in Packed
    BY DEF Packed
  <2>2. ASSUME NEW l \in Packed, NEW tx \in Txs
        PROVE  PackStep(l, tx) \in Packed
    <3>1. /\ l.txs \in Seq(Txs) /\ l.full \in SUBSET Addr /\ tx.from \in Addr
          /\ l.full \cup {tx.from} \in SUBSET Addr
          /\ Append(l.txs, tx) \in Seq(Txs)
      BY TxSize, AppendProperties DEF Packed
    <3>2. [l EXCEPT !.full = @ \cup {tx.from}] \in Packed
      BY <3>1 DEF Packed
    <3>3. [l EXCEPT !.txs = Append(@, tx)] \in Packed
      BY <3>1 DEF Packed
    <3> QED
      BY <3>2, <3>3 DEF PackStep
  <2> QED
    BY <2>1, <2>2
<1>3. H \in [1..n -> [Packed -> Packed]]
  <2> HIDE DEF n
  <2> QED
    BY <1>1, <1>2
<1> HIDE DEF n
<1>4. PICK f \in [0..n -> Packed] : f[0] = e /\ \A i \in 1..n : f[i] = H[i][f[i - 1]]
  <2> HIDE DEF H, e
  <2>1. Composable(Packed)
    BY Compose
  <2>2. e \in Packed
    BY <1>2
  <2> QED
    BY <1>1, <1>3, <2>1, <2>2, Zenon DEF Composable
<1> HIDE DEF e
<1>5. ASSUME NEW i \in 1..n
      PROVE  f[i] = PackStep(f[i - 1], order[i])
  <2>1. f[i] = H[i][f[i - 1]] /\ f[i - 1] \in Packed
    BY <1>1, <1>4
  <2> QED
    BY <2>1
<1>6. f = Run(f)
  BY <1>1, <1>4, <1>5
<1> DEFINE packed == CHOOSE g : g = Run(g)
<1>7. packed = Run(packed)
  BY <1>6
<1>8. Pack(order) = packed[n].txs
  BY DEF Pack, n, PackStep, e
<1> HIDE DEF packed
<1>9. packed[0] = e /\ \A i \in 1..n : packed[i] = PackStep(packed[i - 1], order[i])
  BY <1>1, <1>7
<1> DEFINE S == {i \in 0..n : packed[i] \in Packed}
<1>10. 0 \in S /\ \A i \in 1..n : i - 1 \in S => i \in S
  BY <1>1, <1>2, <1>9
<1> HIDE DEF S
<1>11. 0..n \subseteq S
  BY <1>1, <1>10, UpTo
<1>12. packed \in [0..n -> Packed]
  BY <1>7, <1>11 DEF S
<1> QED
  BY <1>8, <1>9, <1>12 DEF n, e

(* Packing picks transactions from the order it is given.                  *)
LEMMA PackType ==
  ASSUME NEW order \in Seq(Txs)
  PROVE  Pack(order) \in Seq(Txs)
<1>1. Len(order) \in Nat
  BY LenProperties
<1>2. PICK f \in [0..Len(order) -> Packed] : f[Len(order)].txs = Pack(order)
  BY PackSteps
<1>3. f[Len(order)] \in Packed
  BY <1>1, <1>2
<1> QED
  BY <1>2, <1>3 DEF Packed

(* An order of a set is a sequence over it.                                *)
LEMMA SetToSeqsType ==
  ASSUME NEW p, IsFiniteSet(p), NEW order \in SetToSeqs(p)
  PROVE  order \in Seq(p)
<1>1. Cardinality(p) \in Nat /\ order \in [1..Cardinality(p) -> p]
  BY FS_CardinalityType DEF SetToSeqs
<1> QED
  BY <1>1

(* What a candidate is packed from is a list of transactions.              *)
LEMMA PackingsType ==
  ASSUME NEW p \in Pools
  PROVE  Packings(p) \subseteq Seq(Txs)
<1> SUFFICES ASSUME NEW order \in SetToSeqs(p)
             PROVE  Pack(order) \in Seq(Txs)
  BY DEF Packings
<1>1. p \subseteq Txs /\ order \in Seq(p)
  BY SetToSeqsType DEF Pools
<1>2. order \in Seq(Txs)
  BY <1>1, SeqMonotonic
<1> QED
  BY <1>2, PackType

-----------------------------------------------------------------------------
(* The inductive invariant. *)

(* A chain state the node may hold: a valid chain with its own ledger and  *)
(* work.                                                                   *)
SoundState(s) ==
  /\ s.chain \in Chains
  /\ ValidTail(s.chain, 2)
  /\ s = FromChain(s.chain)

(* The block on offer is one the next commit may append. *)
Appendable(b, s) ==
  /\ b \in Block
  /\ b.height = Len(s.chain)
  /\ DueRate(b) >= 1
  /\ Valid(b, s.state, s.chain)

(* The inductive invariant. *)
NodeInv ==
  /\ pc \in {"drain", "start", "vdf", "offer", "down"}
  /\ SoundState(cs) /\ SoundState(base) /\ SoundState(view)
  /\ acc \subseteq Block
  /\ cand \in Block
  /\ pc = "offer" => base = cs /\ Appendable(cand, cs)
  /\ pc = "down" => "crash" \in Faults
  /\ pool \in Pools
  /\ Rows(disk, cs.chain)
  /\ "storage" \notin Faults => Full(disk, cs.chain) /\ view = cs

(* Only one of the two kinds of faults: a failed write leaves the database *)
(* behind the node, and a crash then brings the older chain back.          *)
OneKindOfFault == ~({"storage", "crash"} \subseteq Faults)

(* What a sound state is made of.                                          *)
LEMMA SoundFacts ==
  ASSUME NEW s, SoundState(s)
  PROVE  /\ s.chain \in Chains /\ ValidTail(s.chain, 2)
         /\ s = FromChain(s.chain)
         /\ s.state = Replay(Tail(s.chain)) /\ s.state \in LedgerState
         /\ s.work = Work(s.chain) /\ s.work \in Nat
<1>1. s.chain \in Chains /\ ValidTail(s.chain, 2) /\ s = FromChain(s.chain)
  BY DEF SoundState
<1>2. s.state = Replay(Tail(s.chain)) /\ s.work = Work(s.chain)
  <2> DEFINE c == s.chain
  <2>1. s = [chain |-> c, state |-> Replay(Tail(c)), work |-> Work(c)]
    BY <1>1, ReplayChainFacts
  <2> HIDE DEF c
  <2> QED
    BY <2>1 DEF c
<1>3. Replay(Tail(s.chain)) \in LedgerState /\ Work(s.chain) \in Nat
  BY <1>1, ValidChainLedger, WorkType
<1> QED
  BY <1>1, <1>2, <1>3

(* A sound chain, replayed, is a sound state. *)
LEMMA FromChainSound ==
  ASSUME NEW c \in Chains, ValidTail(c, 2)
  PROVE  /\ SoundState(FromChain(c))
         /\ FromChain(c).chain = c /\ FromChain(c).state = Replay(Tail(c))
         /\ FromChain(c).work = Work(c)
<1>1. /\ FromChain(c).chain = c /\ FromChain(c).state = Replay(Tail(c))
      /\ FromChain(c).work = Work(c)
  BY ReplayChainFacts
<1> QED
  BY <1>1 DEF SoundState

(* A block the checks let through proves what the retarget rule asks for.  *)
LEMMA ValidIters ==
  ASSUME NEW c \in Chains, NEW b \in Block, b.height = Len(c), NEW led, Valid(b, led, c)
  PROVE  DueRate(b) = GetVdfIterations(c) /\ DueRate(b) >= 1
<1>1. b.height # 0
  BY ChainsFacts
<1>2. DueRate(b) = GetVdfIterations(c)
  BY <1>1 DEF Valid, HeaderOk
<1> QED
  BY <1>2, IterationsFacts

(* Appending a valid block leaves a sound state, with more work if the     *)
(* block states any.                                                       *)
LEMMA AppendFacts ==
  ASSUME NEW s, SoundState(s), NEW b, Appendable(b, s)
  PROVE  LET new == ApplyBlock(s, b)
         IN  /\ SoundState(new)
             /\ new.chain = Append(s.chain, b)
             /\ new.state = Replay(Tail(new.chain)) /\ new.state \in LedgerState
             /\ new.work \in Nat /\ new.work = s.work + StatedRate(b)
             /\ b.rated => new.work > s.work
<1> DEFINE c == s.chain
           d == Append(c, b)
<1>1. /\ c \in Chains /\ ValidTail(c, 2) /\ s = FromChain(c)
      /\ s.state = Replay(Tail(c)) /\ s.work = Work(c) /\ s.work \in Nat
  BY SoundFacts
<1>2. b \in Block /\ b.height = Len(c) /\ DueRate(b) >= 1 /\ Valid(b, Replay(Tail(c)), c)
  BY <1>1 DEF Appendable
<1> HIDE DEF c
<1>3. d \in Chains /\ ValidTail(d, 2)
  BY <1>1, <1>2, ChainsAppend, ValidTailAppend
<1>4. ApplyBlock(s, b) = FromChain(d) /\ Work(d) = Work(c) + StatedRate(b)
  BY <1>1, <1>2, ApplyBlockFacts
<1>5. /\ SoundState(FromChain(d)) /\ FromChain(d).chain = d
      /\ FromChain(d).state = Replay(Tail(d)) /\ FromChain(d).work = Work(d)
  BY <1>3, FromChainSound
<1>6. FromChain(d).state \in LedgerState /\ FromChain(d).work \in Nat
  BY <1>5, SoundFacts
<1>7. StatedRate(b) \in Nat /\ (b.rated => StatedRate(b) = DueRate(b))
  BY <1>2, RatesType DEF StatedRate, DueRate
<1>8. FromChain(d).work = s.work + StatedRate(b) /\ (b.rated => FromChain(d).work > s.work)
  BY <1>1, <1>2, <1>4, <1>5, <1>7
<1> QED
  BY <1>4, <1>5, <1>6, <1>8 DEF c

(* Whatever is picked can be appended. *)
LEMMA WinnerFacts ==
  ASSUME NodeInv, pc = "offer", NEW winner \in Winners
  PROVE  Appendable(winner, cs)
<1>1. base = cs /\ Appendable(cand, cs) /\ SoundState(cs) /\ acc \subseteq Block
  BY DEF NodeInv
<1>2. CASE winner = cand
  BY <1>1, <1>2
<1>3. CASE winner # cand
  <2>1. winner \in ValidPeers(acc)
    BY <1>3 DEF Winners
  <2>2. /\ winner \in Block /\ winner.height = Last(cs.chain).height + 1
        /\ Valid(winner, cs.state, cs.chain)
    BY <1>1, <2>1 DEF ValidPeers
  <2>3. cs.chain \in Chains
    BY <1>1, SoundFacts
  <2>4. winner.height = Len(cs.chain)
    BY <2>2, <2>3, ChainsFacts
  <2>5. DueRate(winner) >= 1
    BY <2>2, <2>3, <2>4, ValidIters
  <2> QED
    BY <2>2, <2>4, <2>5 DEF Appendable
<1> QED
  BY <1>2, <1>3

(* A chain of a peer that passes _evaluate_remote_chain is valid as a      *)
(* whole, and shares its first blocks with ours.                           *)
LEMMA RemoteFacts ==
  ASSUME HeightsFollow, NodeInv, NEW remote \in RemoteChains, Acceptable(remote)
  PROVE  LET k == ForkPoint(cs.chain, remote)
         IN  /\ remote \in Chains /\ ValidTail(remote, 2)
             /\ k \in Nat /\ k >= 1 /\ k <= Len(cs.chain) /\ k <= Len(remote)
             /\ \A i \in 1..k : cs.chain[i] = remote[i]
             /\ SoundState(FromChain(remote))
<1> DEFINE c == cs.chain
           k == ForkPoint(c, remote)
<1>1. c \in Chains /\ ValidTail(c, 2)
  BY SoundFacts DEF NodeInv
<1>2. remote \in Chains
  <2>1. PICK i \in DOMAIN c, tail \in PeerTails : remote = Link(SubSeq(c, 1, i), tail)
    BY DEF RemoteChains
  <2>2. i \in 1..Len(c) /\ tail \in Seq(Bodies)
    BY <1>1, ChainsFacts, BodiesOfTail
  <2> HIDE DEF c
  <2>3. SubSeq(c, 1, i) \in Chains
    BY <1>1, <2>2, ChainsPrefix
  <2> QED
    BY <2>1, <2>2, <2>3, LinkType
<1>3. /\ k \in Nat /\ k >= 1 /\ k <= Len(c) /\ k <= Len(remote)
      /\ \A i \in 1..k : c[i] = remote[i]
  BY <1>1, <1>2, ForkPointFacts
<1>4. ValidTail(remote, k + 1)
  BY DEF Acceptable
<1> HIDE DEF c, k
<1>5. ValidTail(remote, 2)
  BY <1>1, <1>2, <1>3, <1>4, ValidTailJoin
<1>6. SoundState(FromChain(remote))
  BY <1>2, <1>5, FromChainSound
<1> QED
  BY <1>2, <1>3, <1>5, <1>6 DEF c, k

(* A rejected, pruned or re-added transaction leaves a pool that fits. *)
LEMMA AddStaysPools ==
  ASSUME NEW except, NEW led
  PROVE  AddStays(Pools, except, led)
<1>1. ASSUME NEW p \in Pools, NEW tx \in Txs
      PROVE  Add(p, tx) \subseteq Pools
  <2> SUFFICES ASSUME NEW q \in Add(p, tx)
               PROVE  q \in Pools
    OBVIOUS
  <2> QED
    BY AddFacts
<1> QED
  BY <1>1 DEF AddStays

(* The database is created with the chain it starts from. *)
LEMMA InitInv == Init => NodeInv /\ cs.chain = InitChain
<1> SUFFICES ASSUME Init
             PROVE  NodeInv /\ cs.chain = InitChain
  OBVIOUS
<1> DEFINE c == InitChain
           led == Replay(Tail(c))
<1>1. c \in Seq(Block) /\ c # <<>> /\ c[1] = Genesis /\ ValidTail(c, 2)
  BY NodeAssumption
<1>2. c \in Chains
  <2>1. Len(c) \in Nat /\ DOMAIN c = 1..Len(c) /\ \A i \in 1..Len(c) : c[i] \in Block
    BY <1>1, LenProperties, ElementOfSeq
  <2>2. \A i \in 1..Len(c) : c[i].height = i - 1
    BY <2>1, NodeAssumption
  <2> DEFINE S == {i \in 0..Len(c) : \A j \in 1..i : DueRate(c[j]) >= 1}
  <2>3. 0 \in S
    BY <2>1
  <2>4. ASSUME NEW i \in 1..Len(c), i - 1 \in S
        PROVE  i \in S
    <3>1. \A j \in 1..(i - 1) : DueRate(c[j]) >= 1
      BY <2>4
    <3>2. DueRate(c[i]) >= 1
      <4>1. CASE i = 1
        BY <1>1, <4>1, GenesisFacts
      <4>2. CASE i # 1
        <5> DEFINE p == SubSeq(c, 1, i - 1)
        <5>1. /\ p \in Seq(Block) /\ Len(p) = i - 1
              /\ \A j \in 1..(i - 1) : p[j] = c[j]
          BY <1>1, <2>1, <4>2, SubSeqProperties
        <5>2. i - 1 \in Nat /\ i - 1 >= 1
          BY <2>1, <4>2
        <5> HIDE DEF p, c
        <5>3. p \in Chains
          <6>1. p # <<>> /\ p[1] = Genesis
            BY <1>1, <5>1, <5>2
          <6>2. \A j \in 1..Len(p) : p[j].height = j - 1 /\ DueRate(p[j]) >= 1
            BY <2>1, <2>2, <3>1, <5>1, <5>2
          <6> QED
            BY <5>1, <6>1, <6>2 DEF Chains
        <5>4. Valid(c[i], TailLedger(c, 2)[i - 1], p)
          BY <1>1, <2>1, <4>2 DEF ValidTail, p
        <5>5. c[i] \in Block /\ c[i].height = Len(p)
          BY <2>1, <2>2, <5>1
        <5> QED
          BY <5>3, <5>4, <5>5, ValidIters
      <4> QED
        BY <4>1, <4>2
    <3> QED
      BY <2>1, <3>1, <3>2
  <2> HIDE DEF S
  <2>5. 0..Len(c) \subseteq S
    BY <2>1, <2>3, <2>4, UpTo
  <2>6. \A i \in 1..Len(c) : DueRate(c[i]) >= 1
    BY <2>1, <2>5 DEF S
  <2> QED
    BY <1>1, <2>2, <2>6 DEF Chains
<1>3. SoundState(FromChain(c)) /\ FromChain(c).chain = c /\ led \in LedgerState
  BY <1>1, <1>2, FromChainSound, ValidChainLedger
<1>4. Rows(disk, c) /\ Full(disk, c)
  <2>1. Rows(EmptyDisk, c)
    <3>1. EmptyLedger \in LedgerState
      BY DEF EmptyLedger, LedgerState
    <3> QED
      BY <3>1 DEF Rows, EmptyDisk
  <2>2. Len(c) \in Nat /\ SubSeq(c, 0 + 1, Len(c)) = c
    <3>1. Len(c) \in Nat /\ SubSeq(c, 1, Len(c)) = c /\ 0 + 1 = 1
      BY <1>1, LenProperties, SubSeqFull
    <3> HIDE DEF c
    <3> QED
      BY <3>1
  <2>3. disk = ReplaceChainAndState(EmptyDisk, 0, SubSeq(c, 0 + 1, Len(c)), led)
    <3>1. disk = ReplaceChainAndState(EmptyDisk, 0, c, led)
      BY <1>2, ReplayChainFacts DEF Init
    <3> HIDE DEF c, led
    <3> QED
      BY <2>2, <3>1
  <2>4. 0 \in Nat /\ 0 <= Len(c) /\ (\A i \in 1..0 : c[i] = c[i])
        /\ 0..(0 - 1) \subseteq DOMAIN EmptyDisk.blocks
    BY <2>2
  <2> HIDE DEF c
  <2>5. /\ Rows(ReplaceChainAndState(EmptyDisk, 0, SubSeq(c, 0 + 1, Len(c)), led), c)
        /\ 0..(0 - 1) \subseteq DOMAIN EmptyDisk.blocks /\ led = Replay(Tail(c))
             => Full(ReplaceChainAndState(EmptyDisk, 0, SubSeq(c, 0 + 1, Len(c)), led), c)
    BY <1>2, <1>3, <2>1, <2>2, <2>4, RowsReplace
  <2> QED
    BY <2>3, <2>4, <2>5
<1> HIDE DEF c
<1>5. LoadChainState(disk) = FromChain(c)
  BY <1>2, <1>4, LoadFull
<1>6. cs = FromChain(c) /\ view = cs /\ base = cs
  BY <1>5 DEF Init
<1>7. SoundState(cs) /\ SoundState(base) /\ SoundState(view) /\ cs.chain = c
  BY <1>3, <1>6
<1>8. pc = "drain" /\ pool \in Pools /\ acc \subseteq Block /\ cand \in Block
  BY EmptyPool, GenesisFacts DEF Init
<1> QED
  BY <1>4, <1>6, <1>7, <1>8 DEF NodeInv, c

(* What an operation that only gives the mempool something to do keeps. *)
LEMMA PoolOnlyInv ==
  ASSUME NodeInv, pool' \in Pools, UNCHANGED <<cs, view, disk>>,
         \/ UNCHANGED <<pc, base, acc, cand>>
         \/ /\ UNCHANGED <<base, acc, cand>>
            /\ pc' \in {"drain", "start", "vdf"}
         \/ EndCycle
         \/ UNCHANGED cand /\ base' = cs /\ acc' = {} /\ pc' = "vdf"
  PROVE  NodeInv'
<1>1. /\ pc' \in {"drain", "start", "vdf", "offer", "down"}
      /\ SoundState(base') /\ acc' \subseteq Block /\ cand' \in Block
      /\ pc' = "offer" => base' = cs /\ Appendable(cand', cs)
      /\ pc' = "down" => "crash" \in Faults
  BY GenesisFacts DEF NodeInv, EndCycle
<1>2. /\ SoundState(cs') /\ SoundState(view') /\ Rows(disk', cs'.chain)
      /\ "storage" \notin Faults => Full(disk', cs'.chain) /\ view' = cs'
      /\ pc' = "offer" => base' = cs' /\ Appendable(cand', cs')
  BY <1>1 DEF NodeInv
<1> QED
  BY <1>1, <1>2 DEF NodeInv

(* The inbox is drained: blocks and transactions are applied, the pool is  *)
(* pruned (node._drain_inbox).                                             *)
LEMMA InboxInv == ASSUME NodeInv, Inbox PROVE NodeInv'
<1>1. ASSUME NEW tx \in Txs, HandleTx(tx)
      PROVE  NodeInv'
  <2>1. pool \in Pools /\ pool' \in Add(pool, tx)
    BY <1>1 DEF HandleTx, NodeInv
  <2>2. pool' \in Pools
    BY <2>1, AddFacts
  <2> QED
    BY <1>1, <2>2, PoolOnlyInv DEF HandleTx
<1>2. ASSUME NEW tx \in Txs, HandleTxRaises(tx)
      PROVE  NodeInv'
  <2>1. pool' \in Pools
    BY <1>2 DEF HandleTxRaises, NodeInv
  <2> QED
    BY <1>2, <2>1, PoolOnlyInv DEF HandleTxRaises
<1>3. ASSUME NEW body \in PeerBodies, HandleBlock(body)
      PROVE  NodeInv'
  <2>1. PICK chain \in {cs.chain, Front(cs.chain)} \ {<<>>} :
          acc' = acc \cup {Forge(chain, body)}
    BY <1>3 DEF HandleBlock
  <2>2. cs.chain \in Chains /\ body \in BlockBody
    BY SoundFacts, NodeAssumption DEF NodeInv
  <2>3. chain \in Chains
    <3>1. CASE chain = cs.chain
      BY <2>2, <3>1
    <3>2. CASE chain # cs.chain
      <4> DEFINE c == cs.chain
      <4>1. chain = SubSeq(c, 1, Len(c) - 1) /\ chain # <<>>
        BY <3>2 DEF Front
      <4>2. Len(c) \in Nat /\ c \in Seq(Block)
        BY <2>2, ChainsFacts
      <4> HIDE DEF c
      <4>3. Len(c) - 1 \in 1..Len(c)
        <5> SUFFICES ASSUME Len(c) - 1 < 1
                     PROVE  FALSE
          BY <4>2
        <5>1. SubSeq(c, 1, Len(c) - 1) = <<>>
          BY <4>2, SubSeqEmpty
        <5> QED
          BY <4>1, <5>1
      <4> QED
        BY <2>2, <4>1, <4>3, ChainsPrefix DEF c
    <3> QED
      BY <3>1, <3>2
  <2>4. acc' \subseteq Block
    BY <2>1, <2>2, <2>3, ForgeType DEF NodeInv
  <2>5. UNCHANGED <<pc, cs, view, pool, disk, base, cand>>
    BY <1>3 DEF HandleBlock
  <2> QED
    BY <2>4, <2>5 DEF NodeInv
<1>4. CASE HandleMalformed
  <2>1. pool' \in Pools
    BY <1>4 DEF HandleMalformed, NodeInv
  <2> QED
    BY <1>4, <2>1, PoolOnlyInv DEF HandleMalformed
<1> QED
  BY <1>1, <1>2, <1>3, <1>4 DEF Inbox

(* A peer's chain: the three ways apply_better_chain ends. *)
LEMMA SyncInv == ASSUME HeightsFollow, NodeInv, Sync PROVE NodeInv'
<1> SUFFICES ASSUME NEW remote \in RemoteChains,
                    AdoptChain(remote) \/ AdoptFails(remote) \/ SalvageFork(remote)
             PROVE  NodeInv'
  BY DEF Sync
<1> DEFINE c == cs.chain
           k == ForkPoint(c, remote)
           new == FromChain(remote)
<1>1. Acceptable(remote)
  BY DEF AdoptChain, AdoptFails, SalvageFork
<1>2. /\ remote \in Chains /\ ValidTail(remote, 2)
      /\ k \in Nat /\ k >= 1 /\ k <= Len(c) /\ k <= Len(remote)
      /\ \A i \in 1..k : c[i] = remote[i]
      /\ SoundState(new)
  BY <1>1, RemoteFacts
<1>3. c \in Chains /\ pool \in Pools /\ Rows(disk, c)
  BY SoundFacts DEF NodeInv
<1>4. CASE AdoptChain(remote)
  <2> DEFINE confirmed == ConfirmedFrom(remote, k)
  <2>1. /\ pc \in {"drain", "vdf"}
        /\ disk' = ReplaceChainAndState(disk, k, SubSeq(remote, k + 1, Len(remote)), new.state)
        /\ cs' = new /\ view' = new
        /\ pool' \in Readd(pool \ confirmed, TxsFrom(c, k), confirmed, new.state)
        /\ pc' = IF pc = "drain" THEN "start" ELSE pc
        /\ base' = IF pc = "drain" THEN new ELSE base
        /\ acc' = acc /\ cand' = cand
    BY <1>4 DEF AdoptChain, SyncReturns
  <2>2. new.chain = remote /\ new.state = Replay(Tail(remote)) /\ new.state \in LedgerState
    BY <1>2, FromChainSound, SoundFacts
  <2>3. pool' \in Pools
    <3>1. pool \ confirmed \in Pools
      BY <1>3, PoolsSubset
    <3>2. TxsFrom(c, k) \in Seq(Txs)
      BY <1>2, <1>3, TxsFromType
    <3>3. AddStays(Pools, confirmed, new.state)
      BY AddStaysPools
    <3> HIDE DEF c, k, new, confirmed
    <3>4. Readd(pool \ confirmed, TxsFrom(c, k), confirmed, new.state) \subseteq Pools
      BY <3>1, <3>2, <3>3, ReaddClosed
    <3> QED
      BY <2>1, <3>4
  <2>4. /\ Rows(disk', remote)
        /\ 0..(k - 1) \subseteq DOMAIN disk.blocks => Full(disk', remote)
    <3> HIDE DEF c, k, new
    <3> QED
      BY <1>2, <1>3, <2>1, <2>2, RowsReplace
  <2>5. "storage" \notin Faults => Full(disk', remote)
    <3> SUFFICES ASSUME "storage" \notin Faults
                 PROVE  0..(k - 1) \subseteq DOMAIN disk.blocks
      BY <2>4
    <3>1. Len(c) \in Nat /\ DOMAIN disk.blocks = 0..(Len(c) - 1)
      BY <1>3, ChainsFacts DEF NodeInv, Full
    <3> HIDE DEF c, k
    <3> QED
      BY <1>2, <3>1
  <2>6. SoundState(cs') /\ SoundState(view') /\ SoundState(base') /\ cs'.chain = remote
    BY <1>2, <2>1, <2>2 DEF NodeInv
  <2>7. acc' \subseteq Block /\ cand' \in Block /\ pc' \in {"start", "vdf"} /\ view' = cs'
    BY <2>1 DEF NodeInv
  <2> HIDE DEF c, k, new
  <2> QED
    BY <2>3, <2>4, <2>5, <2>6, <2>7 DEF NodeInv
<1>5. CASE AdoptFails(remote)
  <2>1. pool' \in Pools
    BY <1>3, <1>5 DEF AdoptFails
  <2> QED
    BY <1>5, <2>1, PoolOnlyInv DEF AdoptFails
<1>6. CASE SalvageFork(remote)
  <2> DEFINE except == ConfirmedFrom(c, k)
  <2>1. /\ pc \in {"drain", "vdf"}
        /\ pool' \in Readd(pool, TxsFrom(remote, k), except, cs.state)
        /\ pc' = IF pc = "drain" THEN "start" ELSE pc
        /\ UNCHANGED <<cs, view, disk, base, acc, cand>>
    BY <1>6 DEF SalvageFork, SyncReturns
  <2>2. TxsFrom(remote, k) \in Seq(Txs)
    BY <1>2, TxsFromType
  <2>3. AddStays(Pools, except, cs.state)
    BY AddStaysPools
  <2> HIDE DEF c, k, except
  <2>4. Readd(pool, TxsFrom(remote, k), except, cs.state) \subseteq Pools
    BY <1>3, <2>2, <2>3, ReaddClosed
  <2>5. pool' \in Pools /\ pc' \in {"drain", "start", "vdf"}
    BY <2>1, <2>4
  <2> QED
    BY <2>1, <2>5, PoolOnlyInv
<1> QED
  BY <1>4, <1>5, <1>6

(* A VDF that starts, is thrown away or ends. *)
LEMMA VdfInv ==
  ASSUME NodeInv, StartVdf \/ DiscardVdf \/ OfferBlock \/ InvalidCandidate
  PROVE  NodeInv'
<1>1. CASE StartVdf
  <2>1. PICK expired \in SUBSET pool : pool' = PruneStale(pool, cs.state, expired)
    BY <1>1 DEF StartVdf
  <2>2. pool' \subseteq pool /\ pool \in Pools
    BY <2>1 DEF PruneStale, NodeInv
  <2>3. pool' \in Pools
    BY <2>2, PoolsSubset
  <2> QED
    BY <1>1, <2>3, PoolOnlyInv DEF StartVdf
<1>2. CASE DiscardVdf \/ InvalidCandidate
  <2>1. pool' \in Pools
    BY <1>2 DEF DiscardVdf, InvalidCandidate, NodeInv
  <2> QED
    BY <1>2, <2>1, PoolOnlyInv DEF DiscardVdf, InvalidCandidate
<1>3. CASE OfferBlock
  <2>1. PICK txs \in Packings(pool), dt \in OwnDelays :
          /\ Valid(Candidate(txs, dt), base.state, base.chain)
          /\ cand' = Candidate(txs, dt)
    BY <1>3 DEF OfferBlock
  <2> DEFINE body == [builder |-> Me, txs |-> txs, dt |-> dt, sound |-> TRUE, extra |-> 0,
                      rated |-> TRUE, zero |-> FALSE, claimed |-> 0]
  <2>2. body \in Bodies
    <3>1. txs \in Seq(Txs) /\ dt \in Nat /\ Me \in Addr
      BY <2>1, PackingsType, NodeAssumption DEF NodeInv
    <3> QED
      BY <3>1 DEF BlockBody, Bodies
  <2>3. cs = base /\ cs.chain \in Chains
    BY <1>3, SoundFacts DEF OfferBlock, TipUnchanged, NodeInv
  <2>4. cand' = Forge(cs.chain, body) /\ Valid(cand', cs.state, cs.chain)
    BY <2>1, <2>3 DEF Candidate
  <2> HIDE DEF body
  <2>5. Appendable(cand', cs)
    BY <2>2, <2>3, <2>4, ForgeFacts DEF Appendable
  <2>6. pc' = "offer" /\ UNCHANGED <<cs, view, pool, disk, base, acc>>
    BY <1>3 DEF OfferBlock
  <2>7. cand' \in Block
    BY <2>5 DEF Appendable
  <2> QED
    BY <2>3, <2>5, <2>6, <2>7 DEF NodeInv
<1> QED
  BY <1>1, <1>2, <1>3

(* The end of a cycle that produced a block. *)
LEMMA CommitInv == ASSUME NodeInv, Commit \/ CommitFails PROVE NodeInv'
<1>1. PICK winner \in Winners :
        /\ cs' = ApplyBlock(cs, winner)
        /\ Commit => /\ disk' = SaveBlockAndState(disk, winner, cs'.state)
                     /\ pool' = pool \ ToSet(winner.txs)
  BY DEF Commit, CommitFails
<1>2. pc = "offer" /\ SoundState(cs) /\ Rows(disk, cs.chain) /\ pool \in Pools
  BY DEF Commit, CommitFails, NodeInv
<1>3. Appendable(winner, cs)
  BY <1>2, WinnerFacts
<1>4. /\ SoundState(cs') /\ cs'.chain = Append(cs.chain, winner)
      /\ cs'.state = Replay(Tail(cs'.chain)) /\ cs'.state \in LedgerState
  BY <1>1, <1>2, <1>3, AppendFacts
<1>5. cs.chain \in Chains /\ winner \in Block /\ winner.height = Len(cs.chain) /\ DueRate(winner) >= 1
  BY <1>2, <1>3, SoundFacts DEF Appendable
<1>6. /\ pc' = "drain" /\ SoundState(base') /\ acc' \subseteq Block /\ cand' \in Block
  BY <1>4, GenesisFacts DEF Commit, CommitFails, EndCycle
<1>7. CASE Commit
  <2>1. pool' \in Pools
    BY <1>1, <1>2, <1>7, PoolsSubset
  <2>2. /\ Rows(disk', cs'.chain)
        /\ Full(disk, cs.chain) => Full(disk', cs'.chain)
    <3> DEFINE c == cs.chain
               d == Append(c, winner)
               led == cs'.state
               new == SaveBlockAndState(disk, winner, led)
    <3>1. disk' = new /\ cs'.chain = d /\ led \in LedgerState /\ led = Replay(Tail(d))
      BY <1>1, <1>4, <1>7
    <3>2. c \in Chains /\ Rows(disk, c) /\ winner.height = Len(c)
      BY <1>2, <1>5
    <3> HIDE DEF c, led
    <3>3. Rows(new, d) /\ (Full(disk, c) /\ led = Replay(Tail(d)) => Full(new, d))
      BY <1>5, <3>1, <3>2, RowsSave
    <3> HIDE DEF new, d
    <3> QED
      BY <3>1, <3>3 DEF c
  <2>3. view' = cs'
    BY <1>7 DEF Commit
  <2>4. "storage" \notin Faults => Full(disk', cs'.chain)
    BY <2>2 DEF NodeInv
  <2> QED
    BY <1>4, <1>6, <2>1, <2>2, <2>3, <2>4 DEF NodeInv
<1>8. CASE CommitFails
  <2>1. /\ "storage" \in Faults /\ disk' = disk /\ pool' \in Pools /\ SoundState(view')
    BY <1>8 DEF CommitFails, NodeInv
  <2>2. Rows(disk', cs'.chain)
    <3>1. /\ Len(cs'.chain) = Len(cs.chain) + 1 /\ Len(cs.chain) \in Nat
          /\ \A i \in 1..Len(cs.chain) : cs'.chain[i] = cs.chain[i]
      BY <1>4, <1>5, ChainsAppend, ChainsFacts
    <3>2. \A h \in DOMAIN disk.blocks :
            h \in Nat /\ h < Len(cs.chain) /\ disk.blocks[h] = cs.chain[h + 1]
      BY <1>2 DEF Rows
    <3>3. \A h \in DOMAIN disk.blocks :
            h \in Nat /\ h < Len(cs'.chain) /\ disk.blocks[h] = cs'.chain[h + 1]
      <4> SUFFICES ASSUME NEW h \in DOMAIN disk.blocks
                   PROVE  /\ h \in Nat /\ h < Len(cs'.chain)
                          /\ disk.blocks[h] = cs'.chain[h + 1]
        OBVIOUS
      <4>1. h \in Nat /\ h < Len(cs.chain) /\ disk.blocks[h] = cs.chain[h + 1]
        BY <3>2
      <4>2. h + 1 \in 1..Len(cs.chain)
        BY <3>1, <4>1
      <4>3. cs'.chain[h + 1] = cs.chain[h + 1]
        BY <3>1, <4>2
      <4> QED
        BY <3>1, <4>1, <4>3
    <3> QED
      BY <1>2, <2>1, <3>3 DEF Rows
  <2> QED
    BY <1>4, <1>6, <2>1, <2>2 DEF NodeInv
<1> QED
  BY <1>7, <1>8

(* The process dies, and comes back with what the database holds. *)
LEMMA CrashInv ==
  ASSUME NodeInv, OneKindOfFault, Crash \/ Restart
  PROVE  /\ NodeInv'
         /\ Restart => cs' = cs
<1>1. CASE Crash
  <2>1. pool' \in Pools /\ cand' \in Block /\ acc' \subseteq Block
    BY <1>1, EmptyPool, GenesisFacts DEF Crash
  <2>2. /\ pc' = "down" /\ "crash" \in Faults /\ UNCHANGED <<cs, view, disk, base>> /\ pc # "down"
    BY <1>1 DEF Crash
  <2> QED
    BY <2>1, <2>2 DEF NodeInv, Restart
<1>2. CASE Restart
  <2>1. /\ pc = "down" /\ cs' = LoadChainState(disk) /\ view' = cs' /\ base' = cs'
        /\ pc' = "drain" /\ UNCHANGED <<pool, disk, acc, cand>>
    BY <1>2 DEF Restart
  <2>2. "storage" \notin Faults
    BY <2>1 DEF NodeInv, OneKindOfFault
  <2>3. SoundState(cs) /\ cs.chain \in Chains /\ cs = FromChain(cs.chain)
    BY SoundFacts DEF NodeInv
  <2>4. Rows(disk, cs.chain) /\ Full(disk, cs.chain)
    BY <2>2 DEF NodeInv
  <2>5. LoadChainState(disk) = FromChain(cs.chain)
    BY <2>3, <2>4, LoadFull
  <2>6. cs' = cs
    BY <2>1, <2>3, <2>5
  <2> QED
    BY <2>1, <2>2, <2>3, <2>4, <2>6 DEF NodeInv
<1> QED
  BY <1>1, <1>2

(* Every step keeps the invariant.                                         *)
LEMMA NextInv ==
  ASSUME HeightsFollow, NodeInv, OneKindOfFault, [Next]_vars
  PROVE  NodeInv'
<1>1. CASE UNCHANGED vars
  BY <1>1 DEF vars, NodeInv
<1> QED
  BY <1>1, InboxInv, SyncInv, VdfInv, CommitInv, CrashInv DEF Next

-----------------------------------------------------------------------------
(* What the invariant gives. *)

(* The invariant holds throughout, among peers whose heights follow. *)
THEOREM NodeInvariant ==
  ASSUME OneKindOfFault, HeightsFollow
  PROVE  Spec => []NodeInv
<1>1. NodeInv /\ [Next]_vars => NodeInv'
  BY NextInv
<1> QED
  BY InitInv, <1>1, PTL DEF Spec

(* What the node holds has its type at every moment of every run: every    *)
(* block of the chain it works on and of the chain API readers see, the    *)
(* ledger of each, what is pending and what the database stores            *)
(* (node.Node, storage.Storage).                                           *)
THEOREM NodeTypes ==
  ASSUME OneKindOfFault, HeightsFollow
  PROVE  Spec => []TypeOK
<1>1. NodeInv => TypeOK
  <2> SUFFICES ASSUME NodeInv
               PROVE  TypeOK
    OBVIOUS
  <2>1. SoundState(cs) /\ SoundState(view) /\ SoundState(base)
    BY DEF NodeInv
  <2>2. /\ cs.chain \in Seq(Block) /\ cs.state \in LedgerState /\ cs.work \in Nat
        /\ view.chain \in Seq(Block) /\ view.state \in LedgerState /\ view.work \in Nat
        /\ base.chain \in Seq(Block)
    BY <2>1, SoundFacts, ChainsFacts
  <2>3. pool \subseteq Txs
    BY DEF NodeInv, Pools
  <2>4. DOMAIN disk.blocks \subseteq Nat /\ disk.state \in LedgerState
    BY DEF NodeInv, Rows
  <2> QED
    BY <2>2, <2>3, <2>4 DEF NodeInv, TypeOK
<1> QED
  BY NodeInvariant, <1>1, PTL

(* Whatever blocks and chains come in, as long as the heights of the       *)
(* chains follow, every block of the node's chain is valid on top of the   *)
(* blocks before it (node._evaluate_remote_chain, node._pick_winner,       *)
(* block.validate).                                                        *)
THEOREM ChainStaysValid ==
  ASSUME OneKindOfFault, HeightsFollow
  PROVE  Spec => []ChainIsValid
<1>1. NodeInv => ChainIsValid
  BY SoundFacts, ChainsFacts DEF NodeInv, ChainIsValid
<1> QED
  BY NodeInvariant, <1>1, PTL

(* Whatever writes failed, the Block table never mixes two branches, among *)
(* peers whose heights follow                                              *)
(* (storage.save_block_and_state, storage.replace_chain_and_state).        *)
THEOREM RowsStayOurs ==
  ASSUME OneKindOfFault, HeightsFollow
  PROVE  Spec => []RowsAreOurBlocks
<1>1. NodeInv => RowsAreOurBlocks
  <2> SUFFICES ASSUME NodeInv, NEW h \in DOMAIN disk.blocks
               PROVE  h + 1 \in DOMAIN cs.chain /\ disk.blocks[h] = cs.chain[h + 1]
    BY DEF RowsAreOurBlocks
  <2>1. cs.chain \in Chains
    BY SoundFacts DEF NodeInv
  <2>2. h \in Nat /\ h < Len(cs.chain) /\ disk.blocks[h] = cs.chain[h + 1]
    BY DEF NodeInv, Rows
  <2>3. Len(cs.chain) \in Nat /\ DOMAIN cs.chain = 1..Len(cs.chain)
    BY <2>1, ChainsFacts
  <2> QED
    BY <2>2, <2>3
<1> QED
  BY NodeInvariant, <1>1, PTL

(* The mempool stays within its cap, whatever clients send and whatever    *)
(* comes back from abandoned blocks (mempool.add).                         *)
THEOREM PoolStaysWithinCap ==
  ASSUME OneKindOfFault, HeightsFollow
  PROVE  Spec => []PoolWithinCap
<1>1. NodeInv => PoolWithinCap
  BY DEF NodeInv, Pools, PoolWithinCap
<1> QED
  BY NodeInvariant, <1>1, PTL

(* While the database takes every write, loading it gives the state the    *)
(* node works on.                                                          *)
LEMMA LoadedIsOurs ==
  ASSUME NodeInv, "storage" \notin Faults
  PROVE  LoadChainState(disk) = cs /\ view = cs
<1>1. cs.chain \in Chains /\ cs = FromChain(cs.chain)
  BY SoundFacts DEF NodeInv
<1>2. Rows(disk, cs.chain) /\ Full(disk, cs.chain) /\ view = cs
  BY DEF NodeInv
<1> QED
  BY <1>1, <1>2, LoadFull

(* While the database takes every write and the heights of peers' chains   *)
(* follow, it holds the chain the node has:                                *)
(* a process that dies comes back with it (node._commit, node._load_cs).   *)
THEOREM RestartIsLossless ==
  ASSUME "storage" \notin Faults, HeightsFollow
  PROVE  Spec => []RestartLosesNothing
<1>1. OneKindOfFault
  BY DEF OneKindOfFault
<1>2. NodeInv => RestartLosesNothing
  BY LoadedIsOurs DEF RestartLosesNothing
<1> QED
  BY NodeInvariant, <1>1, <1>2, PTL

(* How one step changes the chain the node works on: not at all, by a      *)
(* block that can be appended, or to a sound and better chain.             *)
LEMMA ChainStep ==
  ASSUME HeightsFollow, NodeInv, OneKindOfFault, [Next]_vars
  PROVE  \/ cs' = cs
         \/ \E b : Appendable(b, cs) /\ cs' = ApplyBlock(cs, b)
         \/ SoundState(cs') /\ IsBetterThan(cs', cs)
<1>1. CASE UNCHANGED vars
  BY <1>1 DEF vars
<1>2. CASE Inbox
  BY <1>2 DEF Inbox, HandleTx, HandleTxRaises, HandleBlock, HandleMalformed
<1>3. CASE Sync
  <2>1. PICK remote \in RemoteChains :
          AdoptChain(remote) \/ AdoptFails(remote) \/ SalvageFork(remote)
    BY <1>3 DEF Sync
  <2>2. CASE AdoptChain(remote)
    <3>1. Acceptable(remote) /\ IsBetterThan(FromChain(remote), cs) /\ cs' = FromChain(remote)
      BY <2>2 DEF AdoptChain, BetterThanOurs
    <3> QED
      BY <3>1, RemoteFacts
  <2>3. CASE AdoptFails(remote) \/ SalvageFork(remote)
    BY <2>3 DEF AdoptFails, SalvageFork
  <2> QED
    BY <2>1, <2>2, <2>3
<1>4. CASE StartVdf \/ DiscardVdf \/ OfferBlock \/ InvalidCandidate
  BY <1>4 DEF StartVdf, DiscardVdf, OfferBlock, InvalidCandidate
<1>5. CASE Commit \/ CommitFails
  <2>1. PICK winner \in Winners : cs' = ApplyBlock(cs, winner)
    BY <1>5 DEF Commit, CommitFails
  <2>2. pc = "offer"
    BY <1>5 DEF Commit, CommitFails
  <2> QED
    BY <2>1, <2>2, WinnerFacts
<1>6. CASE Crash \/ Restart
  <2>1. CASE Crash
    BY <2>1 DEF Crash
  <2> QED
    BY <1>6, <2>1, CrashInv
<1> QED
  BY <1>1, <1>2, <1>3, <1>4, <1>5, <1>6 DEF Next

(* The node leaves a chain only for a better one in the sense of           *)
(* ChainState.is_better_than, or for one more block that states no work:   *)
(* no peer moves it to a chain that is worse or merely equal.              *)
THEOREM OnlyBetterChains ==
  ASSUME OneKindOfFault, HeightsFollow
  PROVE  Spec => ForkChoiceMonotone
<1> DEFINE Grown == cs' = ApplyBlock(cs, Last(cs'.chain)) /\ ~Last(cs'.chain).rated
<1>1. ASSUME NodeInv, [Next]_vars
      PROVE  cs'.chain # cs.chain => IsBetterThan(cs', cs) \/ Grown
  <2>1. ASSUME NEW b, Appendable(b, cs), cs' = ApplyBlock(cs, b)
        PROVE  IsBetterThan(cs', cs) \/ Grown
    <3>1. SoundState(cs) /\ cs.chain \in Chains
      BY <1>1, SoundFacts DEF NodeInv
    <3>2. cs'.chain = Append(cs.chain, b) /\ (b.rated => cs'.work > cs.work)
      BY <2>1, <3>1, AppendFacts
    <3>3. Last(cs'.chain) = b
      BY <2>1, <3>1, <3>2, ChainsAppend DEF Appendable
    <3> QED
      BY <2>1, <3>2, <3>3 DEF IsBetterThan
  <2> QED
    BY <1>1, <2>1, ChainStep
<1>2. NodeInv /\ [Next]_vars => [cs'.chain # cs.chain => IsBetterThan(cs', cs) \/ Grown]_vars
  BY <1>1
<1> QED
  BY NodeInvariant, <1>2, PTL DEF Spec, ForkChoiceMonotone

-----------------------------------------------------------------------------
(* The refinement.  The abstract specification computes ledgers, work and  *)
(* validity as the node does: each operator of Durable is the operator of  *)
(* the same name.                                                          *)

(* Sums over a function.                                                   *)
LEMMA DurableTotal == \A f : Durable!Total(f) = Total(f)
<1>1. \A S : Durable!Cardinality(S) = Cardinality(S)
  BY DEF Durable!Cardinality, Cardinality
<1> QED
  BY <1>1 DEF Durable!Total, Total, Durable!Units, Units

(* Transactions: their cost, their effect, their validity.                 *)
LEMMA DurableApplyTx ==
  /\ \A tx : Durable!Cost(tx) = Cost(tx)
  /\ \A tx, led : Durable!ApplyTx(led, tx) = ApplyTx(led, tx)
  /\ \A tx, led : Durable!TxValid(tx, led) = TxValid(tx, led)
<1>1. \A tx : Durable!Cost(tx) = Cost(tx)
  BY DurableTotal DEF Durable!Cost, Cost
<1>2. \A tx, led : Durable!ApplyTx(led, tx) = ApplyTx(led, tx)
  <2> SUFFICES ASSUME NEW tx, NEW led
               PROVE  Durable!ApplyTx(led, tx) = ApplyTx(led, tx)
    OBVIOUS
  <2> DEFINE bal(cost) == [a \in Addr |-> (IF a = tx.from THEN led.bal[a] - cost ELSE led.bal[a])
                                          + tx.outs[a]]
  <2>1. bal(Durable!Cost(tx)) = bal(Cost(tx))
    BY <1>1
  <2>2. /\ Durable!ApplyTx(led, tx)
             = IF led = Raised THEN Raised
               ELSE IF led.bal[tx.from] < Durable!Cost(tx) THEN Raised
               ELSE [led EXCEPT !.bal = bal(Durable!Cost(tx)), !.nonce[tx.from] = tx.nonce]
        /\ ApplyTx(led, tx)
             = IF led = Raised THEN Raised
               ELSE IF led.bal[tx.from] < Cost(tx) THEN Raised
               ELSE [led EXCEPT !.bal = bal(Cost(tx)), !.nonce[tx.from] = tx.nonce]
    BY DEF Durable!ApplyTx, ApplyTx
  <2> HIDE DEF bal
  <2> QED
    BY <1>1, <2>1, <2>2
<1>3. \A tx, led : Durable!TxValid(tx, led) = TxValid(tx, led)
  BY <1>1 DEF Durable!TxValid, TxValid
<1> QED
  BY <1>1, <1>2, <1>3

(* Lists of transactions.                                                  *)
LEMMA DurableRunTxs ==
  ASSUME NEW led, NEW txs
  PROVE  Durable!RunTxs(led, txs) = RunTxs(led, txs)
<1> DEFINE n == Len(txs)
           R(g) == [i \in 0..n |-> IF i = 0 THEN led ELSE Durable!ApplyTx(g[i - 1], txs[i])]
           Q(g) == [i \in 0..n |-> IF i = 0 THEN led ELSE ApplyTx(g[i - 1], txs[i])]
           a == CHOOSE g : g = R(g)
           b == CHOOSE g : g = Q(g)
<1>1. \A g : R(g) = Q(g)
  BY DurableApplyTx
<1>2. Durable!RunTxs(led, txs) = a[n] /\ RunTxs(led, txs) = b[n]
  BY DEF Durable!RunTxs, RunTxs
<1> HIDE DEF R, Q, n
<1>3. a = b
  BY <1>1, Zenon
<1> QED
  BY <1>2, <1>3

(* A block and its reward.                                                 *)
LEMMA DurableAddBlock ==
  ASSUME NEW led, NEW blk
  PROVE  Durable!AddBlock(led, blk) = AddBlock(led, blk)
<1>1. \A txs : Durable!Fees(txs) = Fees(txs)
  BY DurableTotal DEF Durable!Fees, Fees
<1>2. \A minted : Durable!Reward(minted) = Reward(minted)
  BY DEF Durable!Reward, Reward, Durable!CanMint, CanMint
<1>3. \A l, builder, fees :
        Durable!BuilderReward(l, builder, fees) = BuilderReward(l, builder, fees)
  BY <1>2 DEF Durable!BuilderReward, BuilderReward, Durable!Credit, Credit
<1> QED
  BY <1>1, <1>3, DurableRunTxs DEF Durable!AddBlock, AddBlock

(* The ledgers along a chain.                                              *)
LEMMA DurableTailLedger ==
  ASSUME NEW chain, NEW from
  PROVE  Durable!TailLedger(chain, from) = TailLedger(chain, from)
<1> DEFINE n == Len(chain)
           e == EmptyLedger
           R(g) == [i \in 0..n |->
                      IF i = 0 THEN e
                      ELSE IF i < from /\ chain[i].height = 0 THEN g[i - 1]
                      ELSE Durable!AddBlock(g[i - 1], chain[i])]
           Q(g) == [i \in 0..n |->
                      IF i = 0 THEN e
                      ELSE IF i < from /\ chain[i].height = 0 THEN g[i - 1]
                      ELSE AddBlock(g[i - 1], chain[i])]
           a == CHOOSE g : g = R(g)
           b == CHOOSE g : g = Q(g)
<1>1. \A g : R(g) = Q(g)
  BY DurableAddBlock
<1>2. Durable!EmptyLedger = EmptyLedger
  BY DEF Durable!EmptyLedger, EmptyLedger
<1>3. Durable!TailLedger(chain, from) = a /\ TailLedger(chain, from) = b
  BY <1>2 DEF Durable!TailLedger, TailLedger
<1> HIDE DEF R, Q, n
<1>4. a = b
  BY <1>1, Zenon
<1> QED
  BY <1>3, <1>4

(* Applying transactions with their validation.                            *)
LEMMA DurableApplyTransactions ==
  ASSUME NEW led, NEW txs
  PROVE  Durable!ApplyTransactions(led, txs) = ApplyTransactions(led, txs)
<1> DEFINE n == Len(txs)
           dstep(l, tx) == IF l # Raised /\ Durable!TxValid(tx, l)
                           THEN Durable!ApplyTx(l, tx) ELSE Raised
           step(l, tx) == IF l # Raised /\ TxValid(tx, l) THEN ApplyTx(l, tx) ELSE Raised
           R(g) == [i \in 0..n |-> IF i = 0 THEN led ELSE dstep(g[i - 1], txs[i])]
           Q(g) == [i \in 0..n |-> IF i = 0 THEN led ELSE step(g[i - 1], txs[i])]
           a == CHOOSE g : g = R(g)
           b == CHOOSE g : g = Q(g)
<1>1. \A g : R(g) = Q(g)
  <2>1. \A l, tx : dstep(l, tx) = step(l, tx)
    BY DurableApplyTx
  <2> HIDE DEF dstep, step
  <2> QED
    BY <2>1
<1>2. Durable!ApplyTransactions(led, txs) = a[n] /\ ApplyTransactions(led, txs) = b[n]
  BY DEF Durable!ApplyTransactions, ApplyTransactions
<1> HIDE DEF R, Q, n
<1>3. a = b
  BY <1>1, Zenon
<1> QED
  BY <1>2, <1>3

(* The validity of a block.                                                *)
LEMMA DurableValid ==
  ASSUME NEW blk, NEW led, NEW chain
  PROVE  Durable!Valid(blk, led, chain) = Valid(blk, led, chain)
<1>0. \A b : Durable!DueRate(b) = DueRate(b)
  BY DEF Durable!DueRate, DueRate
<1>1. Durable!GetVdfIterations(chain) = GetVdfIterations(chain)
  <2>1. \A list : Durable!TwiceMedian(list) = TwiceMedian(list)
    <3>1. \A list, k : Durable!KthSmallest(list, k) = KthSmallest(list, k)
      <4>1. \A S : Durable!Cardinality(S) = Cardinality(S)
        BY DEF Durable!Cardinality, Cardinality
      <4>2. \A list : Durable!ToSet(list) = ToSet(list)
        BY DEF Durable!ToSet, ToSet
      <4> QED
        BY <4>1, <4>2 DEF Durable!KthSmallest, KthSmallest
    <3> QED
      BY <3>1 DEF Durable!TwiceMedian, TwiceMedian
  <2> QED
    BY <1>0, <2>1 DEF Durable!GetVdfIterations, GetVdfIterations
<1>2. \A b : Durable!HashOf(b) = HashOf(b)
  BY DEF Durable!HashOf, HashOf
<1>3. \A txs : Durable!Bytes(txs) = Bytes(txs)
  BY DurableTotal DEF Durable!Bytes, Bytes
<1>4. Durable!Last(chain) = Last(chain)
  BY DEF Durable!Last, Last
<1>5. Durable!HeaderOk(blk, chain) = HeaderOk(blk, chain)
  BY <1>0, <1>1, <1>2, <1>3, <1>4 DEF Durable!HeaderOk, HeaderOk
<1>6. Durable!LedgerState = LedgerState
  BY DEF Durable!LedgerState, LedgerState
<1> QED
  BY <1>5, <1>6, DurableApplyTransactions DEF Durable!Valid, Valid

(* The validity of a chain from some block on.                             *)
LEMMA DurableValidTail ==
  ASSUME NEW chain, NEW from
  PROVE  Durable!ValidTail(chain, from) = ValidTail(chain, from)
  BY DurableValid, DurableTailLedger DEF Durable!ValidTail, ValidTail

(* Chain states and the order between them.                                *)
LEMMA DurableStates ==
  /\ \A chain : Durable!FromChain(chain) = FromChain(chain)
  /\ \A s, blk : Durable!ApplyBlock(s, blk) = ApplyBlock(s, blk)
  /\ \A s, t : Durable!IsBetterThan(s, t) = IsBetterThan(s, t)
<1>0. \A b : Durable!StatedRate(b) = StatedRate(b)
  BY DEF Durable!StatedRate, StatedRate
<1>1. \A chain : Durable!Work(chain) = Work(chain)
  BY <1>0, DurableTotal DEF Durable!Work, Work
<1>2. \A chain : Durable!FromChain(chain) = FromChain(chain)
  <2>1. \A chain : Durable!ReplayChain(chain) = ReplayChain(chain)
    BY DurableTailLedger DEF Durable!ReplayChain, ReplayChain
  <2> QED
    BY <1>1, <2>1 DEF Durable!FromChain, FromChain
<1>3. \A s, blk : Durable!ApplyBlock(s, blk) = ApplyBlock(s, blk)
  BY <1>0, DurableAddBlock DEF Durable!ApplyBlock, ApplyBlock
<1>4. \A s, t : Durable!IsBetterThan(s, t) = IsBetterThan(s, t)
  <2>1. \A chain : Durable!Last(chain) = Last(chain)
    BY DEF Durable!Last, Last
  <2> QED
    BY <2>1 DEF Durable!IsBetterThan, IsBetterThan, Durable!TieKey, TieKey
<1> QED
  BY <1>2, <1>3, <1>4

(* A sound state is sound for the abstract specification, and a block that *)
(* can be appended extends it.                                             *)
LEMMA DurableSound ==
  ASSUME NEW s, SoundState(s)
  PROVE  Durable!Sound(s)
<1>1. /\ s.chain # <<>> /\ s.chain[1] = Genesis
      /\ ValidTail(s.chain, 2) /\ s = FromChain(s.chain)
  BY SoundFacts, ChainsFacts
<1>2. Durable!Genesis = Genesis
  BY DEF Durable!Genesis, Genesis
<1> QED
  BY <1>1, <1>2, DurableStates, DurableValidTail DEF Durable!Sound

(* Every step of the node that changes what the database would bring back  *)
(* is a step of BestChain.                                                 *)
LEMMA DurableStep ==
  ASSUME HeightsFollow, NodeInv, NodeInv', "storage" \notin Faults, [Next]_vars
  PROVE  [Durable!Next]_(LoadChainState(disk))
<1>1. LoadChainState(disk) = cs /\ LoadChainState(disk)' = cs'
  <2>1. LoadChainState(disk) = cs
    BY LoadedIsOurs
  <2>2. cs'.chain \in Chains /\ cs' = FromChain(cs'.chain)
    BY SoundFacts DEF NodeInv
  <2>3. Rows(disk', cs'.chain) /\ Full(disk', cs'.chain)
    BY DEF NodeInv
  <2>4. LoadChainState(disk') = FromChain(cs'.chain)
    BY <2>2, <2>3, LoadFull
  <2> QED
    BY <2>1, <2>2, <2>4
<1>2. OneKindOfFault
  BY DEF OneKindOfFault
<1>3. ASSUME NEW b, Appendable(b, cs), cs' = ApplyBlock(cs, b)
      PROVE  Durable!Extend
  <2>1. SoundState(cs) /\ b \in Block /\ b.height = Len(cs.chain) /\ DueRate(b) >= 1
    BY <1>3 DEF NodeInv, Appendable
  <2>2. cs'.chain = Append(cs.chain, b) /\ cs.chain \in Chains
    BY <1>3, <2>1, AppendFacts, SoundFacts
  <2>3. Durable!Last(cs'.chain) = b
    <3>1. Last(cs'.chain) = b
      BY <2>1, <2>2, ChainsAppend
    <3> QED
      BY <3>1 DEF Durable!Last, Last
  <2>4. Durable!Extends(cs'.chain, cs.chain)
    <3> DEFINE c == cs.chain
    <3>1. Len(Append(c, b)) = Len(c) + 1
      BY <2>1, <2>2, ChainsAppend
    <3>2. SubSeq(Append(c, b), 1, Len(c)) = c
      <4>1. c \in Seq(Block) /\ Len(c) \in Nat
        BY <2>2, ChainsFacts
      <4>2. /\ Append(c, b) \in Chains /\ Len(Append(c, b)) = Len(c) + 1
            /\ \A i \in 1..Len(c) : c[i] = Append(c, b)[i]
        BY <2>1, <2>2, ChainsAppend
      <4> DEFINE d == Append(c, b)
                 m == Len(c)
      <4>3. d \in Chains /\ m \in Nat /\ m <= Len(c) /\ m <= Len(d) /\ 1 \in 1..2
        BY <4>1, <4>2
      <4>4. c \in Chains /\ \A i \in 1..m : c[i] = d[i]
        BY <2>2, <4>2
      <4> HIDE DEF c, d, m
      <4>5. SubSeq(c, 1, m) = SubSeq(d, 1, m)
        BY <4>3, <4>4, SameSegments
      <4>6. SubSeq(c, 1, Len(c)) = c
        BY <4>1, SubSeqFull
      <4> QED
        BY <4>5, <4>6 DEF d, m
    <3> QED
      BY <2>2, <3>1, <3>2 DEF Durable!Extends
  <2>5. Durable!Valid(b, cs.state, cs.chain)
    BY <1>3, DurableValid DEF Appendable
  <2>6. cs' = Durable!ApplyBlock(cs, b)
    BY <1>3, DurableStates
  <2> QED
    BY <1>1, <2>3, <2>4, <2>5, <2>6 DEF Durable!Extend
<1>4. ASSUME SoundState(cs'), IsBetterThan(cs', cs)
      PROVE  Durable!Switch
  <2>1. Durable!Sound(cs') /\ Durable!IsBetterThan(cs', cs)
    BY <1>4, DurableSound, DurableStates
  <2> QED
    BY <1>1, <2>1 DEF Durable!Switch
<1> QED
  BY <1>1, <1>2, <1>3, <1>4, ChainStep DEF Durable!Next

(* Among peers whose heights follow                                        *)
(* the node implements a durable best chain: at every moment a crash       *)
(* would bring back a valid chain with its own ledger and work, and from   *)
(* step to step that chain only grows by a valid block or gives way to a   *)
(* better one (node._commit, node.apply_better_chain, node._load_cs).      *)
THEOREM NodeKeepsADurableBestChain ==
  ASSUME "storage" \notin Faults, HeightsFollow
  PROVE  Spec => DurableBestChain
<1>1. OneKindOfFault
  BY DEF OneKindOfFault
<1>2. Init => Durable!Init
  <2> SUFFICES ASSUME Init
               PROVE  Durable!Init
    OBVIOUS
  <2>1. NodeInv
    BY InitInv
  <2>2. LoadChainState(disk) = cs /\ SoundState(cs)
    BY <2>1, LoadedIsOurs DEF NodeInv
  <2> QED
    BY <2>2, DurableSound DEF Durable!Init
<1>3. NodeInv /\ NodeInv' /\ [Next]_vars => [Durable!Next]_(LoadChainState(disk))
  BY DurableStep
<1> QED
  BY NodeInvariant, <1>1, <1>2, <1>3, PTL DEF Spec, DurableBestChain, Durable!Spec

-----------------------------------------------------------------------------
(* The pick at the end of a cycle. *)

(* The VDF's output is a number. *)
OutputsAreNumbers == \A h \in Hash, b \in Addr \cup {NoBuilder} : VdfOutput(h, b) \in Nat

(* The key that breaks ties is a number.                                   *)
LEMMA TieKeyType ==
  ASSUME OutputsAreNumbers, NEW b \in Block
  PROVE  TieKey(b) \in Nat
<1>1. b.prev \in Hash /\ b.builder \in Addr \cup {NoBuilder} /\ b.claimed \in Nat
  BY DEF Block
<1> QED
  BY <1>1 DEF OutputsAreNumbers, TieKey

(* The steps that end with a block. *)
LEMMA OfferEnds ==
  ASSUME NodeInv, OneKindOfFault, [Next]_vars, pc = "offer", cs' # cs
  PROVE  \E winner \in Winners : cs' = ApplyBlock(cs, winner)
<1>1. CASE UNCHANGED vars
  BY <1>1 DEF vars
<1>2. CASE Inbox
  BY <1>2 DEF Inbox, HandleTx, HandleTxRaises, HandleBlock, HandleMalformed
<1>3. CASE Sync
  BY <1>3 DEF Sync, AdoptChain, AdoptFails, SalvageFork
<1>4. CASE StartVdf \/ DiscardVdf \/ OfferBlock \/ InvalidCandidate
  BY <1>4 DEF StartVdf, DiscardVdf, OfferBlock, InvalidCandidate
<1>5. CASE Commit \/ CommitFails
  BY <1>5 DEF Commit, CommitFails
<1>6. CASE Crash \/ Restart
  BY <1>6 DEF Crash, Restart
<1> QED
  BY <1>1, <1>2, <1>3, <1>4, <1>5, <1>6 DEF Next

(* A candidate of ours states its iterations.                              *)
OfferRated == pc = "offer" => cand.rated

(* It is so from the step that puts it on offer to the one that ends the   *)
(* cycle.                                                                  *)
LEMMA OfferRatedStep == ASSUME OfferRated, [Next]_vars PROVE OfferRated'
<1>1. CASE UNCHANGED <<pc, cand>>
  BY <1>1 DEF OfferRated
<1>2. CASE pc' # "offer"
  BY <1>2 DEF OfferRated
<1>3. CASE UNCHANGED vars
  BY <1>1, <1>3 DEF vars
<1>4. CASE Inbox
  BY <1>1, <1>2, <1>4 DEF Inbox, HandleTx, HandleTxRaises, HandleBlock, HandleMalformed, EndCycle
<1>5. CASE Sync
  BY <1>2, <1>5 DEF Sync, AdoptChain, AdoptFails, SalvageFork, SyncReturns, EndCycle
<1>6. CASE OfferBlock
  <2>1. PICK txs, dt : cand' = Candidate(txs, dt)
    BY <1>6 DEF OfferBlock
  <2> QED
    BY <2>1 DEF OfferRated, Candidate, Forge
<1>7. CASE StartVdf \/ DiscardVdf \/ InvalidCandidate \/ Commit \/ CommitFails
  BY <1>2, <1>7 DEF StartVdf, DiscardVdf, InvalidCandidate, Commit, CommitFails, EndCycle
<1>8. CASE Crash \/ Restart
  BY <1>2, <1>8 DEF Crash, Restart
<1> QED
  BY <1>3, <1>4, <1>5, <1>6, <1>7, <1>8 DEF Next

(* The blocks in hand at the end of a cycle that state their iterations    *)
(* all prove the same, so among such the lowest VDF output decides, as it  *)
(* does in the fork choice (node._pick_winner, ChainState.is_better_than). *)
THEOREM PickIsTheForkChoice ==
  ASSUME OneKindOfFault, HeightsFollow, OutputsAreNumbers
  PROVE  Spec => PickAgreesWithForkChoice
<1>1. ASSUME NodeInv, OfferRated, [Next]_vars, pc = "offer", cs' # cs,
             \A b \in ValidPeers(acc) : b.rated, NEW b \in ValidPeers(acc) \cup {cand}
      PROVE  PickStands(b)
  <2>1. PICK winner \in Winners : cs' = ApplyBlock(cs, winner)
    BY <1>1, OfferEnds
  <2>2. winner \in ValidPeers(acc) \cup {cand} /\ TieKey(winner) <= TieKey(b)
    BY <1>1 DEF Winners
  <2>3. /\ base = cs /\ Appendable(cand, cs) /\ acc \subseteq Block /\ cs.chain \in Chains
        /\ cs.work \in Nat
    BY <1>1, SoundFacts DEF NodeInv
  <2>4. ASSUME NEW x \in ValidPeers(acc) \cup {cand}
        PROVE  /\ x \in Block
               /\ Last(ApplyBlock(cs, x).chain) = x
               /\ ApplyBlock(cs, x).work = cs.work + GetVdfIterations(cs.chain)
    <3>1. x \in Block /\ x.height = Len(cs.chain) /\ Valid(x, cs.state, cs.chain)
      <4>1. CASE x = cand
        BY <2>3, <4>1 DEF Appendable
      <4>2. CASE x \in ValidPeers(acc)
        BY <2>3, <4>2, ChainsFacts DEF ValidPeers
      <4> QED
        BY <4>1, <4>2
    <3>2. DueRate(x) = GetVdfIterations(cs.chain) /\ DueRate(x) >= 1
      BY <2>3, <3>1, ValidIters
    <3>3. Last(Append(cs.chain, x)) = x
      BY <2>3, <3>1, <3>2, ChainsAppend
    <3>4. StatedRate(x) = DueRate(x)
      BY <1>1 DEF OfferRated, StatedRate, DueRate
    <3> QED
      BY <3>1, <3>2, <3>3, <3>4 DEF ApplyBlock
  <2>5. TieKey(winner) \in Nat /\ TieKey(b) \in Nat /\ GetVdfIterations(cs.chain) \in Nat
    BY <2>2, <2>3, <2>4, TieKeyType, IterationsFacts
  <2>6. /\ ApplyBlock(cs, b).work = cs'.work /\ cs'.work \in Nat
        /\ TieKey(Last(ApplyBlock(cs, b).chain)) = TieKey(b)
        /\ TieKey(Last(cs'.chain)) = TieKey(winner)
    BY <2>1, <2>2, <2>3, <2>4, <2>5
  <2> QED
    BY <2>2, <2>5, <2>6 DEF PickStands, IsBetterThan
<1>2. NodeInv /\ OfferRated /\ [Next]_vars =>
        [pc = "offer" /\ cs' # cs /\ (\A b \in ValidPeers(acc) : b.rated) =>
           \A b \in ValidPeers(acc) \cup {cand} : PickStands(b)]_vars
  BY <1>1
<1>3. Init => OfferRated
  BY DEF Init, OfferRated
<1>4. OfferRated /\ [Next]_vars => OfferRated'
  BY OfferRatedStep
<1> QED
  BY NodeInvariant, <1>2, <1>3, <1>4, PTL DEF Spec, PickAgreesWithForkChoice

-----------------------------------------------------------------------------
(* Who may displace whom. *)

(* Scaling by a positive factor keeps the order.                           *)
LEMMA ProductOrder ==
  ASSUME NEW a \in Nat, NEW b \in Nat, NEW k \in Nat, k >= 1
  PROVE  a < b <=> k * a < k * b
  OBVIOUS

(* Fee rates are compared by cross products; the comparison is still       *)
(* asymmetric and transitive.                                              *)
LEMMA LowerRateOrder ==
  ASSUME NEW t \in Txs, NEW u \in Txs
  PROVE  /\ LowerRate(t, u) => ~LowerRate(u, t)
         /\ \A v \in Txs : LowerRate(t, u) /\ LowerRate(u, v) => LowerRate(t, v)
<1>1. /\ t.fee \in Nat /\ t.size \in Nat /\ t.size >= 1
      /\ u.fee \in Nat /\ u.size \in Nat /\ u.size >= 1
  BY TxSize
<1>2. t.fee * u.size \in Nat /\ u.fee * t.size \in Nat
  BY <1>1
<1>3. LowerRate(t, u) => ~LowerRate(u, t)
  BY <1>2 DEF LowerRate
<1>4. ASSUME NEW v \in Txs, LowerRate(t, u), LowerRate(u, v)
      PROVE  LowerRate(t, v)
  <2>1. v.fee \in Nat /\ v.size \in Nat /\ v.size >= 1
    BY TxSize
  <2> DEFINE tf == t.fee
             ts == t.size
             uf == u.fee
             us == u.size
             vf == v.fee
             vs == v.size
  <2>2. /\ tf \in Nat /\ ts \in Nat /\ ts >= 1 /\ uf \in Nat /\ us \in Nat /\ us >= 1
        /\ vf \in Nat /\ vs \in Nat /\ vs >= 1
        /\ tf * us < uf * ts /\ uf * vs < vf * us
    BY <1>1, <1>4, <2>1 DEF LowerRate
  <2> HIDE DEF tf, ts, uf, us, vf, vs
  <2>3. vs * (tf * us) < vs * (uf * ts)
    <3>1. tf * us \in Nat /\ uf * ts \in Nat
      BY <2>2
    <3> QED
      BY <2>2, <3>1, ProductOrder
  <2>4. ts * (uf * vs) < ts * (vf * us)
    <3>1. uf * vs \in Nat /\ vf * us \in Nat
      BY <2>2
    <3> QED
      BY <2>2, <3>1, ProductOrder
  <2>5. /\ vs * (tf * us) = us * (tf * vs)
        /\ vs * (uf * ts) = ts * (uf * vs)
        /\ ts * (vf * us) = us * (vf * ts)
    BY <2>2
  <2>6. tf * vs \in Nat /\ vf * ts \in Nat
    BY <2>2
  <2>7. us * (tf * vs) < us * (vf * ts)
    <3>1. /\ us * (tf * vs) \in Nat /\ us * (vf * ts) \in Nat /\ ts * (uf * vs) \in Nat
      BY <2>2
    <3> QED
      BY <2>3, <2>4, <2>5, <3>1
  <2>8. tf * vs < vf * ts
    BY <2>2, <2>6, <2>7, ProductOrder
  <2> QED
    BY <2>8 DEF LowerRate, tf, ts, vf, vs
<1> QED
  BY <1>3, <1>4

(* The pools in which every transaction of start that is missing has been  *)
(* outbid by one that was not pending before.                              *)
Outbid(start, pending) ==
  {p \in Pools : \A t \in start \ p : \E u \in p \ pending : LowerRate(t, u)}

(* Adding keeps it so.  When what is added was itself outbid before, its   *)
(* better stays: that one is not of a lower rate.                          *)
LEMMA AddStaysOutbid ==
  ASSUME NEW pending \in SUBSET Txs, NEW start \in SUBSET pending, NEW led, NEW except,
         pending \ start \subseteq except
  PROVE  AddStays(Outbid(start, pending), except, led)
<1> SUFFICES ASSUME NEW p \in Outbid(start, pending), NEW tx \in Txs, tx \notin except,
                    NEW q \in Add(p, tx)
             PROVE  q \in Outbid(start, pending)
  BY DEF AddStays
<1>1. p \in Pools /\ p \subseteq Txs
  BY DEF Outbid, Pools
<1>2. q \in Pools
  BY <1>1, AddFacts
<1>3. CASE q = p
  BY <1>3
<1>4. CASE q # p
  <2>1. PICK out \in SUBSET {t \in p : LowerRate(t, tx)} : tx \notin p /\ q = (p \ out) \cup {tx}
    BY <1>1, <1>4, AddFacts
  <2>2. PICK v \in q \ pending : v = tx \/ LowerRate(tx, v)
    <3>1. CASE tx \notin pending
      BY <2>1, <3>1
    <3>2. CASE tx \in pending
      <4>1. tx \in start \ p
        BY <2>1, <3>2
      <4>2. PICK w \in p \ pending : LowerRate(tx, w)
        BY <4>1 DEF Outbid
      <4>3. w \notin out
        BY <1>1, <2>1, <4>2, LowerRateOrder
      <4> QED
        BY <2>1, <4>2, <4>3
    <3> QED
      BY <3>1, <3>2
  <2>3. v \in Txs
    BY <1>2 DEF Pools
  <2>4. ASSUME NEW t \in Txs, LowerRate(t, tx)
        PROVE  LowerRate(t, v)
    BY <2>2, <2>3, <2>4, LowerRateOrder
  <2>5. ASSUME NEW t \in start \ q
        PROVE  \E u \in q \ pending : LowerRate(t, u)
    <3>0. t \in Txs
      OBVIOUS
    <3>1. CASE t \in p
      <4>1. LowerRate(t, tx)
        BY <2>1, <2>5, <3>1
      <4> QED
        BY <2>2, <2>4, <3>0, <4>1
    <3>2. CASE t \notin p
      <4>1. PICK w \in p \ pending : LowerRate(t, w)
        BY <2>5, <3>2 DEF Outbid
      <4>2. CASE w \notin out
        BY <2>1, <4>1, <4>2
      <4>3. CASE w \in out
        <5>1. w \in Txs /\ LowerRate(w, tx)
          BY <1>1, <2>1, <4>3
        <5>2. LowerRate(t, tx)
          BY <3>0, <4>1, <5>1, LowerRateOrder
        <5> QED
          BY <2>2, <2>4, <3>0, <5>2
      <4> QED
        BY <4>2, <4>3
    <3> QED
      BY <3>1, <3>2
  <2> QED
    BY <1>2, <2>5 DEF Outbid
<1> QED
  BY <1>3, <1>4

(* What a chain confirms is on it. *)
LEMMA ConfirmedIsOnChain ==
  ASSUME NEW c \in Chains, NEW k \in Nat
  PROVE  ConfirmedFrom(c, k) \subseteq OnChain(c)
<1> SUFFICES ASSUME NEW tx \in ConfirmedFrom(c, k)
             PROVE  tx \in OnChain(c)
  OBVIOUS
<1>1. PICK i \in (k + 1)..Len(c) : tx \in ToSet(c[i].txs)
  BY DEF ConfirmedFrom
<1>2. i \in 1..Len(c) /\ i \in DOMAIN c /\ c[i].txs \in Seq(Txs)
  BY ChainsFacts, BlockTxs
<1>3. tx \in Txs
  <2> DEFINE s == c[i].txs
  <2>1. s \in Seq(Txs) /\ tx \in ToSet(s)
    BY <1>1, <1>2
  <2> HIDE DEF s
  <2> QED
    BY <2>1 DEF ToSet
<1> QED
  BY <1>1, <1>2, <1>3 DEF OnChain

(* A pending transaction gives way only to one that pays a higher rate,    *)
(* however many transactions a reorg puts back at once: the one that       *)
(* outbid it may be outbid in turn, but never by something cheaper         *)
(* (mempool.add, node._readd_valid_txs, node._salvage_fork_txs).           *)
THEOREM EvictionIsByRate ==
  ASSUME OneKindOfFault, HeightsFollow
  PROVE  Spec => OnlyOutbidTxsAreEvicted
<1> DEFINE Outbids == \A t \in pool \ (pool' \cup OnChain(cs'.chain)) :
                        \E u \in pool' \ pool : LowerRate(t, u)
<1>1. ASSUME NodeInv, [Next]_vars, pc' # "down", ~(pc # "vdf" /\ pc' = "vdf")
      PROVE  Outbids
  <2>0. pool \in Pools /\ pool \subseteq Txs /\ cs.chain \in Chains
    BY <1>1, SoundFacts DEF NodeInv, Pools
  <2>1. CASE pool' = pool
    BY <2>1
  <2>2. CASE Inbox
    <3>1. CASE pool' # pool
      <4>1. PICK tx \in Txs : pool' \in Add(pool, tx)
        BY <2>2, <3>1 DEF Inbox, HandleTx, HandleTxRaises, HandleBlock, HandleMalformed
      <4> QED
        BY <2>0, <3>1, <4>1, AddFacts
    <3> QED
      BY <2>1, <3>1
  <2>3. CASE Sync
    <3>1. PICK remote \in RemoteChains :
            AdoptChain(remote) \/ AdoptFails(remote) \/ SalvageFork(remote)
      BY <2>3 DEF Sync
    <3> DEFINE c == cs.chain
               k == ForkPoint(c, remote)
    <3>2. Acceptable(remote)
      BY <3>1 DEF AdoptChain, AdoptFails, SalvageFork
    <3>3. /\ remote \in Chains /\ k \in Nat /\ k <= Len(c) /\ k <= Len(remote)
      BY <1>1, <3>2, RemoteFacts
    <3>4. CASE AdoptChain(remote)
      <4> DEFINE confirmed == ConfirmedFrom(remote, k)
                 led == FromChain(remote).state
                 start == pool \ confirmed
      <4>1. /\ pool' \in Readd(start, TxsFrom(c, k), confirmed, led)
            /\ cs'.chain = remote
        BY <3>4 DEF AdoptChain, FromChain
      <4>2. TxsFrom(c, k) \in Seq(Txs)
        BY <2>0, <3>3, TxsFromType
      <4>3. confirmed \subseteq OnChain(remote)
        BY <3>3, ConfirmedIsOnChain
      <4>4. start \in SUBSET pool /\ pool \ start \subseteq confirmed
        OBVIOUS
      <4>5. start \in Outbid(start, pool)
        BY <2>0, PoolsSubset DEF Outbid
      <4> HIDE DEF c, k, confirmed, led, start
      <4>6. AddStays(Outbid(start, pool), confirmed, led)
        BY <2>0, <4>4, AddStaysOutbid
      <4>7. pool' \in Outbid(start, pool)
        BY <4>1, <4>2, <4>5, <4>6, ReaddClosed
      <4>8. \A t \in start \ pool' : \E u \in pool' \ pool : LowerRate(t, u)
        BY <4>7 DEF Outbid
      <4> QED
        BY <4>1, <4>3, <4>4, <4>8
    <3>5. CASE SalvageFork(remote)
      <4> DEFINE except == ConfirmedFrom(c, k)
      <4>1. pool' \in Readd(pool, TxsFrom(remote, k), except, cs.state)
        BY <3>5 DEF SalvageFork
      <4>2. TxsFrom(remote, k) \in Seq(Txs)
        BY <3>3, TxsFromType
      <4>3. pool \in Outbid(pool, pool)
        BY <2>0 DEF Outbid
      <4> HIDE DEF c, k, except
      <4>4. AddStays(Outbid(pool, pool), except, cs.state)
        BY <2>0, AddStaysOutbid
      <4>5. pool' \in Outbid(pool, pool)
        BY <4>1, <4>2, <4>3, <4>4, ReaddClosed
      <4> QED
        BY <4>5 DEF Outbid
    <3>6. CASE AdoptFails(remote)
      BY <2>1, <3>6 DEF AdoptFails
    <3> QED
      BY <3>1, <3>4, <3>5, <3>6
  <2>4. CASE StartVdf
    BY <1>1, <2>4 DEF StartVdf
  <2>5. CASE Commit
    <3>1. PICK winner \in Winners : /\ cs' = ApplyBlock(cs, winner)
                                    /\ pool' = pool \ ToSet(winner.txs)
      BY <2>5 DEF Commit
    <3>2. pc = "offer"
      BY <2>5 DEF Commit
    <3>3. Appendable(winner, cs)
      BY <1>1, <3>1, <3>2, WinnerFacts
    <3>4. winner \in Block /\ winner.height = Len(cs.chain) /\ DueRate(winner) >= 1
      BY <3>3 DEF Appendable
    <3>5. cs'.chain = Append(cs.chain, winner)
      BY <3>1 DEF ApplyBlock
    <3> DEFINE c == cs.chain
               d == Append(c, winner)
    <3>6. /\ d \in Chains /\ Len(d) = Len(c) + 1 /\ d[Len(c) + 1] = winner
          /\ DOMAIN d = 1..Len(d) /\ Len(c) \in Nat
      BY <2>0, <3>4, ChainsAppend, ChainsFacts
    <3>7. Len(c) + 1 \in DOMAIN d
      BY <3>6
    <3> HIDE DEF c, d
    <3>8. ASSUME NEW t \in pool, t \in ToSet(winner.txs)
          PROVE  t \in OnChain(d)
      BY <2>0, <3>6, <3>7, <3>8 DEF OnChain
    <3>9. cs'.chain = d
      BY <3>5 DEF c, d
    <3> QED
      BY <3>1, <3>8, <3>9
  <2>6. CASE DiscardVdf \/ OfferBlock \/ InvalidCandidate \/ CommitFails \/ Restart
    <3>1. pool' = pool
      BY <2>6 DEF DiscardVdf, OfferBlock, InvalidCandidate, CommitFails, Restart
    <3> QED
      BY <2>1, <3>1
  <2>7. CASE Crash
    BY <1>1, <2>7 DEF Crash
  <2>8. CASE UNCHANGED vars
    BY <2>1, <2>8 DEF vars
  <2> QED
    BY <1>1, <2>2, <2>3, <2>4, <2>5, <2>6, <2>7, <2>8 DEF Next
<1>2. NodeInv /\ [Next]_vars =>
        [pc' # "down" /\ ~(pc # "vdf" /\ pc' = "vdf") => Outbids]_vars
  BY <1>1
<1> QED
  BY NodeInvariant, <1>2, PTL DEF Spec, OnlyOutbidTxsAreEvicted

-----------------------------------------------------------------------------
(* What the candidate is assembled from. *)

(* A transaction that applies moves its sender's nonce to its own, and no  *)
(* other nonce.                                                            *)
LEMMA ApplyTxNonce ==
  ASSUME NEW led \in Ledgers, NEW tx \in Txs, ApplyTx(led, tx) # Raised
  PROVE  /\ led \in LedgerState
         /\ ApplyTx(led, tx).nonce = [led.nonce EXCEPT ![tx.from] = tx.nonce]
<1>1. led # Raised /\ ~(led.bal[tx.from] < Cost(tx))
  BY DEF ApplyTx
<1>2. led \in LedgerState
  BY <1>1 DEF Ledgers
<1> DEFINE bal == [a \in Addr |-> (IF a = tx.from THEN led.bal[a] - Cost(tx)
                                                   ELSE led.bal[a]) + tx.outs[a]]
           nonce == [led.nonce EXCEPT ![tx.from] = tx.nonce]
<1>3. ApplyTx(led, tx) = [bal |-> bal, nonce |-> nonce, minted |-> led.minted]
  BY <1>1, <1>2, Zenon DEF ApplyTx, LedgerState
<1> HIDE DEF bal, nonce
<1>4. ApplyTx(led, tx).nonce = nonce
  BY <1>3
<1> QED
  BY <1>2, <1>4 DEF nonce

(* Transactions whose nonces the chain has not reached do not set a nonce  *)
(* back.                                                                   *)
LEMMA RunTxsNonce ==
  ASSUME NEW led \in LedgerState, NEW txs \in Seq(Txs), RunTxs(led, txs) # Raised,
         \A i \in 1..Len(txs) : txs[i].nonce > led.nonce[txs[i].from]
  PROVE  \A a \in Addr : RunTxs(led, txs).nonce[a] >= led.nonce[a]
<1> DEFINE n == Len(txs)
<1>1. n \in Nat /\ \A i \in 1..n : txs[i] \in Txs
  BY ElementOfSeq, LenProperties
<1>2. led \in Ledgers /\ led.nonce \in [Addr -> Nat]
  BY DEF Ledgers, LedgerState
<1>3. PICK f \in [0..n -> Ledgers] :
        /\ f[0] = led
        /\ \A i \in 1..n : f[i] = ApplyTx(f[i - 1], txs[i])
        /\ f[n] = RunTxs(led, txs)
  BY <1>2, RunTxsSteps
<1>4. \A i \in 1..n : txs[i].nonce > led.nonce[txs[i].from]
  OBVIOUS
<1> HIDE DEF n
<1> DEFINE S == {i \in 0..n : f[i] = Raised
                              \/ \A a \in Addr : f[i].nonce[a] >= led.nonce[a]}
<1>5. 0 \in S
  BY <1>1, <1>2, <1>3
<1>6. ASSUME NEW i \in 1..n, i - 1 \in S
      PROVE  i \in S
  <2>1. f[i] = ApplyTx(f[i - 1], txs[i]) /\ f[i - 1] \in Ledgers /\ txs[i] \in Txs
    BY <1>1, <1>3
  <2>2. CASE f[i] = Raised
    BY <1>1, <2>2
  <2>3. CASE f[i] # Raised
    <3>1. /\ f[i - 1] \in LedgerState
          /\ f[i].nonce = [f[i - 1].nonce EXCEPT ![txs[i].from] = txs[i].nonce]
      BY <2>1, <2>3, ApplyTxNonce
    <3>2. f[i - 1].nonce \in [Addr -> Nat] /\ f[i - 1] # Raised
      BY <3>1, LedgerAssumption DEF LedgerState
    <3>3. \A a \in Addr : f[i - 1].nonce[a] >= led.nonce[a]
      BY <1>6, <3>2
    <3>4. txs[i].nonce \in Nat /\ txs[i].from \in Addr
      BY <2>1, TxSize
    <3>5. ASSUME NEW a \in Addr
          PROVE  f[i].nonce[a] >= led.nonce[a]
      <4>1. CASE a = txs[i].from
        BY <1>2, <1>4, <3>1, <3>2, <3>4, <4>1
      <4>2. CASE a # txs[i].from
        BY <3>1, <3>2, <3>3, <4>2
      <4> QED
        BY <4>1, <4>2
    <3> QED
      BY <1>1, <3>5
  <2> QED
    BY <2>2, <2>3
<1> HIDE DEF S
<1>7. 0..n \subseteq S
  BY <1>1, <1>5, <1>6, UpTo
<1> QED
  BY <1>1, <1>3, <1>7 DEF S

(* The pools none of whose transactions the ledger has passed. *)
FreshPools(led) == {p \in Pools : \A tx \in p : tx.nonce > led.nonce[tx.from]}

(* The mempool's add keeps a pool fresh when the newcomer is.              *)
LEMMA AddFresh ==
  ASSUME NEW led, NEW p \in FreshPools(led), NEW tx \in Txs, tx.nonce > led.nonce[tx.from]
  PROVE  Add(p, tx) \subseteq FreshPools(led)
<1> SUFFICES ASSUME NEW q \in Add(p, tx)
             PROVE  q \in FreshPools(led)
  OBVIOUS
<1>1. p \in Pools /\ \A t \in p : t.nonce > led.nonce[t.from]
  BY DEF FreshPools
<1>2. q \in Pools /\ q \subseteq p \cup {tx}
  BY <1>1, AddFacts
<1> QED
  BY <1>1, <1>2 DEF FreshPools

(* So do the transactions that come back from abandoned blocks: each is    *)
(* tried against the ledger first (node._readd).                           *)
LEMMA AddStaysFresh ==
  ASSUME NEW led \in LedgerState, NEW except
  PROVE  AddStays(FreshPools(led), except, led)
<1>1. ASSUME NEW p \in FreshPools(led), NEW tx \in Txs, TxValid(tx, led)
      PROVE  Add(p, tx) \subseteq FreshPools(led)
  <2>1. tx.nonce = led.nonce[tx.from] + 1 /\ led.nonce[tx.from] \in Nat
    BY <1>1, TxSize DEF TxValid, LedgerState
  <2>2. tx.nonce > led.nonce[tx.from]
    BY <2>1
  <2> QED
    BY <2>2, AddFresh
<1> QED
  BY <1>1 DEF AddStays

(* A client's transaction that is valid after what its sender has pending  *)
(* has a nonce the chain has not reached, when that is so of what is       *)
(* pending (mempool.probe_state_for, node._validate_for_mempool).          *)
LEMMA ProbeFresh ==
  ASSUME NEW led \in LedgerState, NEW p \in FreshPools(led), NEW tx \in Txs,
         NEW probe \in ProbeStatesFor(p, tx.from, led), probe # Raised, TxValid(tx, probe)
  PROVE  tx.nonce > led.nonce[tx.from]
<1> DEFINE mine == {t \in p : t.from = tx.from}
<1>1. p \subseteq Txs /\ IsFiniteSet(p) /\ \A t \in p : t.nonce > led.nonce[t.from]
  BY DEF FreshPools, Pools
<1>2. PICK order \in SetToSeqs(mine) : probe = RunTxs(led, order)
  BY DEF ProbeStatesFor
<1>3. IsFiniteSet(mine) /\ mine \subseteq p
  BY <1>1, FS_Subset
<1> HIDE DEF mine
<1>4. order \in Seq(mine)
  BY <1>3, SetToSeqsType
<1>5. order \in Seq(Txs) /\ \A i \in 1..Len(order) : order[i].nonce > led.nonce[order[i].from]
  <2>1. \A i \in 1..Len(order) : order[i] \in mine
    BY <1>4, ElementOfSeq
  <2>2. mine \subseteq Txs
    BY <1>1, <1>3
  <2> QED
    BY <1>1, <1>3, <1>4, <2>1, <2>2, SeqMonotonic
<1>6. tx.from \in Addr /\ tx.nonce \in Nat
  BY TxSize
<1>7. probe.nonce[tx.from] >= led.nonce[tx.from]
  BY <1>2, <1>5, <1>6, RunTxsNonce
<1>8. probe \in LedgerState
  <2>1. RunTxs(led, order) \in Ledgers
    BY <1>5, RunTxsType DEF Ledgers
  <2> QED
    BY <1>2, <2>1 DEF Ledgers
<1>9. probe.nonce[tx.from] \in Nat /\ led.nonce[tx.from] \in Nat
  BY <1>6, <1>8 DEF LedgerState
<1> QED
  BY <1>6, <1>7, <1>9 DEF TxValid

(* is_better_than is a strict order. *)
LEMMA BetterOrder ==
  ASSUME OutputsAreNumbers, NEW s, SoundState(s), NEW t, SoundState(t), NEW u, SoundState(u),
         IsBetterThan(s, t), t = u \/ IsBetterThan(t, u)
  PROVE  IsBetterThan(s, u) /\ s # u
<1> DEFINE ks == TieKey(Last(s.chain))
           kt == TieKey(Last(t.chain))
           ku == TieKey(Last(u.chain))
<1>1. ks \in Nat /\ kt \in Nat /\ ku \in Nat
  BY SoundFacts, ChainsFacts, TieKeyType
<1>2. s.work \in Nat /\ t.work \in Nat /\ u.work \in Nat
  BY SoundFacts
<1>3. s.work > t.work \/ (s.work = t.work /\ ks < kt)
  BY DEF IsBetterThan
<1>4. u = t \/ t.work > u.work \/ (t.work = u.work /\ kt < ku)
  BY DEF IsBetterThan
<1>5. s.work > u.work \/ (s.work = u.work /\ ks < ku)
  <2>1. CASE u = t
    BY <1>3, <2>1
  <2>2. CASE u # t
    <3> HIDE DEF ks, kt, ku
    <3> QED
      BY <1>1, <1>2, <1>3, <1>4, <2>2
  <2> QED
    BY <2>1, <2>2
<1>6. IsBetterThan(s, u)
  BY <1>5 DEF IsBetterThan
<1>7. s # u
  <2> SUFFICES ASSUME s = u
               PROVE  FALSE
    OBVIOUS
  <2>1. ks = ku /\ s.work = u.work
    OBVIOUS
  <2> HIDE DEF ks, ku
  <2> QED
    BY <1>1, <1>2, <1>5, <2>1
<1> QED
  BY <1>6, <1>7

(* What makes PendingIsFresh inductive: a tip that moved during the VDF    *)
(* moved to a better chain, so it is not back where it was.                *)
FreshInv ==
  /\ pc \in {"vdf", "offer"} /\ cs = base => pool \in FreshPools(cs.state)
  /\ pc = "vdf" => cs = base \/ IsBetterThan(cs, base)

(* Every step keeps the pool fresh.                                        *)
LEMMA FreshStep ==
  ASSUME OutputsAreNumbers, HeightsFollow, OneKindOfFault, NodeInv, FreshInv, [Next]_vars
  PROVE  FreshInv'
<1>0. /\ SoundState(cs) /\ SoundState(base) /\ cs.state \in LedgerState
      /\ pool \in Pools
  BY SoundFacts DEF NodeInv
<1>1. CASE pc' \notin {"vdf", "offer"}
  BY <1>1 DEF FreshInv
<1>2. CASE UNCHANGED <<pc, cs, base, pool>>
  BY <1>2 DEF FreshInv
<1>3. ASSUME NEW tx \in Txs, HandleTx(tx)
      PROVE  FreshInv'
  <2>1. UNCHANGED <<pc, cs, base>> /\ pool' \in Add(pool, tx)
    BY <1>3 DEF HandleTx
  <2>2. CASE pc \in {"vdf", "offer"} /\ cs = base
    <3>1. pool \in FreshPools(cs.state)
      BY <2>2 DEF FreshInv
    <3>2. PICK probe \in ProbeStatesFor(pool, tx.from, cs.state) :
            probe # Raised /\ TxValid(tx, probe)
      BY <1>3 DEF HandleTx
    <3>3. tx.nonce > cs.state.nonce[tx.from]
      BY <1>0, <3>1, <3>2, ProbeFresh
    <3>4. pool' \in FreshPools(cs.state)
      BY <2>1, <3>1, <3>3, AddFresh
    <3> QED
      BY <2>1, <3>4 DEF FreshInv
  <2>3. CASE ~(pc \in {"vdf", "offer"} /\ cs = base)
    BY <2>1, <2>3 DEF FreshInv
  <2> QED
    BY <2>2, <2>3
<1>4. CASE Inbox
  <2>1. ASSUME NEW tx \in Txs, HandleTxRaises(tx)
        PROVE  FreshInv'
    BY <1>1, <2>1 DEF HandleTxRaises, EndCycle
  <2>2. ASSUME NEW body \in PeerBodies, HandleBlock(body)
        PROVE  FreshInv'
    BY <1>2, <2>2 DEF HandleBlock
  <2>3. ASSUME HandleMalformed
        PROVE  FreshInv'
    BY <1>1, <2>3 DEF HandleMalformed, EndCycle
  <2> QED
    BY <1>3, <1>4, <2>1, <2>2, <2>3 DEF Inbox
<1>5. ASSUME NEW remote \in RemoteChains, AdoptChain(remote)
      PROVE  FreshInv'
  <2>1. /\ Acceptable(remote) /\ IsBetterThan(FromChain(remote), cs)
        /\ cs' = FromChain(remote) /\ pc \in {"drain", "vdf"}
        /\ pc' = IF pc = "drain" THEN "start" ELSE pc
        /\ base' = IF pc = "drain" THEN FromChain(remote) ELSE base
    BY <1>5 DEF AdoptChain, BetterThanOurs, SyncReturns
  <2>2. SoundState(cs')
    BY <2>1, RemoteFacts
  <2>3. CASE pc = "drain"
    BY <1>1, <2>1, <2>3
  <2>4. CASE pc = "vdf"
    <3>1. pc' = "vdf" /\ base' = base /\ IsBetterThan(cs', cs)
      BY <2>1, <2>4
    <3>2. cs = base \/ IsBetterThan(cs, base)
      BY <2>4 DEF FreshInv
    <3>3. IsBetterThan(cs', base) /\ cs' # base
      BY <1>0, <2>2, <3>1, <3>2, BetterOrder
    <3> QED
      BY <3>1, <3>3 DEF FreshInv
  <2> QED
    BY <2>1, <2>3, <2>4
<1>6. ASSUME NEW remote \in RemoteChains, SalvageFork(remote)
      PROVE  FreshInv'
  <2> DEFINE c == cs.chain
             k == ForkPoint(c, remote)
             except == ConfirmedFrom(c, k)
  <2>1. /\ UNCHANGED <<cs, base>> /\ pc \in {"drain", "vdf"}
        /\ pc' = IF pc = "drain" THEN "start" ELSE pc
        /\ pool' \in Readd(pool, TxsFrom(remote, k), except, cs.state)
        /\ Acceptable(remote)
    BY <1>6 DEF SalvageFork, SyncReturns
  <2>2. CASE pc = "vdf" /\ cs = base
    <3>1. pool \in FreshPools(cs.state)
      BY <2>2 DEF FreshInv
    <3>2. AddStays(FreshPools(cs.state), except, cs.state)
      BY <1>0, AddStaysFresh
    <3>3. TxsFrom(remote, k) \in Seq(Txs)
      BY <2>1, RemoteFacts, TxsFromType
    <3> HIDE DEF c, k, except
    <3>4. pool' \in FreshPools(cs.state)
      BY <2>1, <3>1, <3>2, <3>3, ReaddClosed
    <3> QED
      BY <2>1, <2>2, <3>4 DEF FreshInv
  <2>3. CASE ~(pc = "vdf" /\ cs = base)
    <3> HIDE DEF c, k, except
    <3>1. CASE pc = "drain"
      BY <1>1, <2>1, <3>1
    <3>2. CASE pc # "drain"
      BY <2>1, <2>3, <3>2 DEF FreshInv
    <3> QED
      BY <3>1, <3>2
  <2> QED
    BY <2>2, <2>3
<1>7. CASE Sync
  <2>1. ASSUME NEW remote \in RemoteChains, AdoptFails(remote)
        PROVE  FreshInv'
    BY <1>1, <2>1 DEF AdoptFails, EndCycle
  <2> QED
    BY <1>5, <1>6, <1>7, <2>1 DEF Sync
<1>8. CASE StartVdf
  <2>1. PICK expired \in SUBSET pool : pool' = PruneStale(pool, cs.state, expired)
    BY <1>8 DEF StartVdf
  <2>2. pool' \subseteq pool /\ \A tx \in pool' : tx.nonce > cs.state.nonce[tx.from]
    BY <2>1 DEF PruneStale
  <2>3. pool' \in FreshPools(cs.state)
    BY <1>0, <2>2, PoolsSubset DEF FreshPools
  <2>4. cs' = cs /\ base' = cs
    BY <1>8 DEF StartVdf
  <2> QED
    BY <2>3, <2>4 DEF FreshInv
<1>9. CASE OfferBlock
  <2>1. pc = "vdf" /\ pc' = "offer" /\ UNCHANGED <<cs, base, pool>>
    BY <1>9 DEF OfferBlock
  <2> QED
    BY <2>1 DEF FreshInv
<1>10. CASE DiscardVdf \/ InvalidCandidate \/ Commit \/ CommitFails
  BY <1>1, <1>10 DEF DiscardVdf, InvalidCandidate, Commit, CommitFails, EndCycle
<1>11. CASE Crash \/ Restart
  BY <1>1, <1>11 DEF Crash, Restart
<1>12. CASE UNCHANGED vars
  BY <1>2, <1>12 DEF vars
<1> QED
  BY <1>4, <1>7, <1>8, <1>9, <1>10, <1>11, <1>12 DEF Next

(* While the tip the VDF runs on stands, nothing pending is stale: the     *)
(* candidate is never assembled from a transaction the chain has passed,   *)
(* whatever was submitted, salvaged or re-added since the prune            *)
(* (mempool.prune_stale, node._validate_for_mempool).                      *)
THEOREM PendingStaysFresh ==
  ASSUME OneKindOfFault, HeightsFollow, OutputsAreNumbers
  PROVE  Spec => []PendingIsFresh
<1>1. Init => FreshInv
  BY DEF Init, FreshInv
<1>2. NodeInv /\ FreshInv /\ [Next]_vars => FreshInv'
  BY FreshStep
<1>3. NodeInv /\ FreshInv => PendingIsFresh
  BY DEF FreshInv, FreshPools, PendingIsFresh, TipUnchanged
<1> QED
  BY NodeInvariant, <1>1, <1>2, <1>3, PTL DEF Spec

-----------------------------------------------------------------------------
(* The transaction index. *)

(* tx is in block i of the chain, and in none before it. *)
FirstAt(chain, tx, i) ==
  /\ tx \in ToSet(chain[i].txs)
  /\ \A j \in 1..(i - 1) : tx \notin ToSet(chain[j].txs)

(* The index of the first m blocks of a chain: each transaction at the     *)
(* height of the first of them that holds it.                              *)
IndexOf(index, chain, m) ==
  /\ DOMAIN index = {tx \in Txs : \E i \in 1..m : tx \in ToSet(chain[i].txs)}
  /\ \A tx \in DOMAIN index : \E i \in 1..m : index[tx] = i - 1 /\ FirstAt(chain, tx, i)

(* Chains that share their first m blocks share the index of them. *)
LEMMA IndexShared ==
  ASSUME NEW c, NEW r, NEW m \in Nat, \A i \in 1..m : c[i] = r[i],
         NEW index, IndexOf(index, c, m)
  PROVE  IndexOf(index, r, m)
<1>1. \A i \in 1..m : ToSet(c[i].txs) = ToSet(r[i].txs)
  OBVIOUS
<1>2. DOMAIN index = {tx \in Txs : \E i \in 1..m : tx \in ToSet(r[i].txs)}
  BY <1>1 DEF IndexOf
<1>3. ASSUME NEW tx \in DOMAIN index
      PROVE  \E i \in 1..m : index[tx] = i - 1 /\ FirstAt(r, tx, i)
  <2>1. PICK i \in 1..m : index[tx] = i - 1 /\ FirstAt(c, tx, i)
    BY DEF IndexOf
  <2>2. FirstAt(r, tx, i)
    BY <1>1, <2>1 DEF FirstAt
  <2> QED
    BY <2>1, <2>2
<1> QED
  BY <1>2, <1>3 DEF IndexOf

(* Deleting the rows from height k up leaves the index of the first k      *)
(* blocks: a transaction that is on both branches keeps its first block.   *)
LEMMA IndexCut ==
  ASSUME NEW c, NEW m \in Nat, NEW k \in 0..m, NEW index, IndexOf(index, c, m)
  PROVE  IndexOf([tx \in {x \in DOMAIN index : index[x] < k} |-> index[tx]], c, k)
<1> DEFINE cut == [tx \in {x \in DOMAIN index : index[x] < k} |-> index[tx]]
<1>1. ASSUME NEW tx \in DOMAIN index, NEW j \in 1..k, tx \in ToSet(c[j].txs)
      PROVE  index[tx] < k
  <2>1. PICK i \in 1..m : index[tx] = i - 1 /\ FirstAt(c, tx, i)
    BY DEF IndexOf
  <2>2. ~(j \in 1..(i - 1))
    BY <1>1, <2>1 DEF FirstAt
  <2> QED
    BY <2>1, <2>2
<1>2. ASSUME NEW tx \in DOMAIN index, index[tx] < k
      PROVE  \E i \in 1..k : index[tx] = i - 1 /\ FirstAt(c, tx, i)
  <2>1. PICK i \in 1..m : index[tx] = i - 1 /\ FirstAt(c, tx, i)
    BY DEF IndexOf
  <2>2. i \in 1..k
    BY <1>2, <2>1
  <2> QED
    BY <2>1, <2>2
<1>3. DOMAIN cut = {tx \in Txs : \E i \in 1..k : tx \in ToSet(c[i].txs)}
  <2>1. DOMAIN index = {tx \in Txs : \E i \in 1..m : tx \in ToSet(c[i].txs)}
    BY DEF IndexOf
  <2>2. ASSUME NEW tx \in DOMAIN cut
        PROVE  tx \in Txs /\ \E i \in 1..k : tx \in ToSet(c[i].txs)
    <3>1. tx \in DOMAIN index /\ index[tx] < k
      OBVIOUS
    <3>2. PICK i \in 1..k : FirstAt(c, tx, i)
      BY <1>2, <3>1
    <3> QED
      BY <2>1, <3>1, <3>2 DEF FirstAt
  <2>3. ASSUME NEW tx \in Txs, NEW i \in 1..k, tx \in ToSet(c[i].txs)
        PROVE  tx \in DOMAIN cut
    <3>1. i \in 1..m
      OBVIOUS
    <3>2. tx \in DOMAIN index
      BY <2>1, <2>3, <3>1
    <3> QED
      BY <1>1, <2>3, <3>2
  <2> QED
    BY <2>2, <2>3
<1>4. ASSUME NEW tx \in DOMAIN cut
      PROVE  \E i \in 1..k : cut[tx] = i - 1 /\ FirstAt(c, tx, i)
  BY <1>2
<1> QED
  BY <1>3, <1>4 DEF IndexOf

(* _index_block for the blocks that follow the first k. *)
LEMMA IndexGrows ==
  ASSUME NEW r \in Chains, NEW k \in 0..Len(r), NEW index, IndexOf(index, r, k),
         NEW blks, DOMAIN blks = 1..(Len(r) - k),
         \A i \in 1..(Len(r) - k) : blks[i] = r[k + i]
  PROVE  IndexOf(IndexBlocks(index, blks), r, Len(r))
<1> DEFINE n == Len(r)
           txs == UNION {ToSet(blks[i].txs) : i \in DOMAIN blks}
           holders(tx) == {i \in DOMAIN blks : tx \in ToSet(blks[i].txs)}
           new == IndexBlocks(index, blks)
<1>1. n \in Nat /\ k \in 0..n /\ \A i \in 1..n : r[i] \in Block /\ r[i].height = i - 1
  BY ChainsFacts
<1>2. \A i \in 1..n : ToSet(r[i].txs) \subseteq Txs
  <2> SUFFICES ASSUME NEW i \in 1..n, NEW tx \in ToSet(r[i].txs)
               PROVE  tx \in Txs
    OBVIOUS
  <2> DEFINE s == r[i].txs
  <2>1. s \in Seq(Txs) /\ tx \in ToSet(s)
    BY <1>1, BlockTxs
  <2> HIDE DEF s
  <2> QED
    BY <2>1 DEF ToSet
<1>3. DOMAIN blks = 1..(n - k) /\ \A i \in 1..(n - k) : blks[i] = r[k + i]
  OBVIOUS
<1>4. /\ DOMAIN index = {tx \in Txs : \E i \in 1..k : tx \in ToSet(r[i].txs)}
      /\ \A tx \in DOMAIN index : \E i \in 1..k : index[tx] = i - 1 /\ FirstAt(r, tx, i)
  BY DEF IndexOf
<1>5. /\ DOMAIN new = DOMAIN index \cup txs
      /\ \A tx \in DOMAIN new :
           new[tx] = IF tx \in DOMAIN index THEN index[tx]
                     ELSE blks[CHOOSE j \in holders(tx) : \A l \in holders(tx) : j <= l].height
  BY DEF IndexBlocks, Min
<1> HIDE DEF n, new
<1>6. \A tx : tx \in txs <=> \E i \in (k + 1)..n : tx \in ToSet(r[i].txs)
  <2>1. ASSUME NEW tx \in txs
        PROVE  \E i \in (k + 1)..n : tx \in ToSet(r[i].txs)
    <3>1. PICK j \in 1..(n - k) : tx \in ToSet(r[k + j].txs)
      BY <1>3
    <3>2. k + j \in (k + 1)..n
      BY <1>1
    <3> QED
      BY <3>1, <3>2
  <2>2. ASSUME NEW tx, NEW i \in (k + 1)..n, tx \in ToSet(r[i].txs)
        PROVE  tx \in txs
    <3>1. i - k \in 1..(n - k) /\ k + (i - k) = i
      BY <1>1
    <3>2. i - k \in DOMAIN blks /\ blks[i - k] = r[i]
      BY <1>3, <3>1
    <3> QED
      BY <2>2, <3>2
  <2> QED
    BY <2>1, <2>2
<1> HIDE DEF txs
<1>7. DOMAIN new = {tx \in Txs : \E i \in 1..n : tx \in ToSet(r[i].txs)}
  <2>1. ASSUME NEW tx \in DOMAIN new
        PROVE  tx \in Txs /\ \E i \in 1..n : tx \in ToSet(r[i].txs)
    <3>1. CASE tx \in DOMAIN index
      <4>1. PICK i \in 1..k : tx \in ToSet(r[i].txs)
        BY <1>4, <3>1
      <4>2. i \in 1..n /\ tx \in Txs
        BY <1>1, <1>4, <3>1
      <4> QED
        BY <4>1, <4>2
    <3>2. CASE tx \in txs
      <4>1. PICK i \in (k + 1)..n : tx \in ToSet(r[i].txs)
        BY <1>6, <3>2
      <4>2. i \in 1..n
        BY <1>1
      <4> QED
        BY <1>2, <4>1, <4>2
    <3> QED
      BY <1>5, <3>1, <3>2
  <2>2. ASSUME NEW tx \in Txs, NEW i \in 1..n, tx \in ToSet(r[i].txs)
        PROVE  tx \in DOMAIN new
    <3>1. CASE i <= k
      <4>1. i \in 1..k
        BY <1>1, <3>1
      <4> QED
        BY <1>4, <1>5, <2>2, <4>1
    <3>2. CASE ~(i <= k)
      <4>1. i \in (k + 1)..n
        BY <1>1, <3>2
      <4> QED
        BY <1>5, <1>6, <2>2, <4>1
    <3> QED
      BY <3>1, <3>2
  <2> QED
    BY <2>1, <2>2
<1>8. ASSUME NEW tx \in DOMAIN new
      PROVE  \E i \in 1..n : new[tx] = i - 1 /\ FirstAt(r, tx, i)
  <2>1. CASE tx \in DOMAIN index
    <3>1. PICK i \in 1..k : index[tx] = i - 1 /\ FirstAt(r, tx, i)
      BY <1>4, <2>1
    <3>2. i \in 1..n
      BY <1>1
    <3>3. new[tx] = i - 1
      <4> HIDE DEF holders
      <4> QED
        BY <1>5, <2>1, <3>1
    <3> QED
      BY <3>1, <3>2, <3>3
  <2>2. CASE tx \notin DOMAIN index
    <3> DEFINE H == holders(tx)
               h == CHOOSE x \in H : \A g \in H : x <= g
    <3>1. \A g : g \in H <=> g \in 1..(n - k) /\ tx \in ToSet(r[k + g].txs)
      BY <1>3
    <3>2. new[tx] = blks[h].height
      BY <1>5, <2>2
    <3> HIDE DEF H
    <3>3. H # {} /\ H \subseteq Nat
      <4>1. PICK i \in (k + 1)..n : tx \in ToSet(r[i].txs)
        BY <1>5, <1>6, <2>2
      <4>2. i - k \in 1..(n - k) /\ k + (i - k) = i
        BY <1>1
      <4>3. i - k \in H
        BY <3>1, <4>1, <4>2
      <4>4. \A g \in H : g \in Nat
        BY <1>1, <3>1
      <4> QED
        BY <4>3, <4>4
    <3>4. \E x \in H : \A g \in H : x <= g
      BY <3>3, Least
    <3>5. h \in H /\ \A g \in H : h <= g
      BY <3>4
    <3> HIDE DEF h
    <3> DEFINE i == k + h
    <3>6. h \in 1..(n - k) /\ tx \in ToSet(r[i].txs)
      BY <3>1, <3>5
    <3>7. i \in 1..n /\ i \in (k + 1)..n
      BY <1>1, <3>6
    <3>8. new[tx] = i - 1
      BY <1>1, <1>3, <3>2, <3>6, <3>7
    <3>9. ASSUME NEW j \in 1..(i - 1), tx \in ToSet(r[j].txs)
          PROVE  FALSE
      <4>1. CASE j <= k
        <5>1. j \in 1..k /\ j \in 1..n
          BY <1>1, <4>1
        <5>2. tx \in Txs
          BY <1>2, <3>9, <5>1
        <5> QED
          BY <1>4, <2>2, <3>9, <5>1, <5>2
      <4>2. CASE ~(j <= k)
        <5>1. j \in 1..n /\ j - k \in 1..(n - k) /\ k + (j - k) = j
          BY <1>1, <3>7, <4>2
        <5>2. j - k \in H
          BY <3>1, <3>9, <5>1
        <5>3. h <= j - k
          BY <3>5, <5>2
        <5> QED
          BY <1>1, <3>6, <3>7, <5>3
      <4> QED
        BY <4>1, <4>2
    <3>10. FirstAt(r, tx, i)
      BY <3>6, <3>9 DEF FirstAt
    <3> HIDE DEF i
    <3> QED
      BY <3>7, <3>8, <3>10
  <2> QED
    BY <2>1, <2>2
<1> QED
  BY <1>7, <1>8 DEF IndexOf, n, new

(* The index of the database, while it takes every write. *)
IndexInv == IndexOf(disk.index, cs.chain, Len(cs.chain))

(* The first index is exact: genesis has no transactions, a loaded chain   *)
(* has the rows it was saved with.                                         *)
LEMMA IndexInit == ASSUME Init PROVE IndexInv
<1> DEFINE r == InitChain
           none == [tx \in {} |-> 0]
<1>1. NodeInv
  BY InitInv
<1>2. disk.index = IndexBlocks([tx \in {x \in DOMAIN EmptyDisk.index : EmptyDisk.index[x] < 0}
                                  |-> EmptyDisk.index[tx]], r)
  BY DEF Init, ReplaceChainAndState
<1>3. [tx \in {x \in DOMAIN EmptyDisk.index : EmptyDisk.index[x] < 0}
         |-> EmptyDisk.index[tx]] = none
  BY DEF EmptyDisk
<1>4. cs.chain = r
  BY InitInv
<1>5. r \in Chains
  BY <1>1, <1>4, SoundFacts DEF NodeInv
<1> HIDE DEF r
<1>6. DOMAIN r = 1..(Len(r) - 0) /\ \A i \in 1..(Len(r) - 0) : r[i] = r[0 + i]
  BY <1>5, ChainsFacts
<1>7. IndexOf(none, r, 0)
  BY DEF IndexOf
<1>8. 0 \in 0..Len(r)
  BY <1>5, ChainsFacts
<1> HIDE DEF none
<1>9. IndexOf(IndexBlocks(none, r), r, Len(r))
  BY <1>5, <1>6, <1>7, <1>8, IndexGrows
<1> QED
  BY <1>2, <1>3, <1>4, <1>9 DEF IndexInv

(* Every step keeps the index exact.                                       *)
LEMMA IndexStep ==
  ASSUME "storage" \notin Faults, HeightsFollow, NodeInv, IndexInv, [Next]_vars
  PROVE  IndexInv'
<1>1. CASE UNCHANGED <<cs, disk>>
  BY <1>1 DEF IndexInv
<1>2. CASE Inbox
  BY <1>1, <1>2 DEF Inbox, HandleTx, HandleTxRaises, HandleBlock, HandleMalformed
<1>3. ASSUME NEW remote \in RemoteChains, AdoptChain(remote)
      PROVE  IndexInv'
  <2> DEFINE c == cs.chain
             k == ForkPoint(c, remote)
             tail == SubSeq(remote, k + 1, Len(remote))
             cut == [tx \in {x \in DOMAIN disk.index : disk.index[x] < k} |-> disk.index[tx]]
  <2>1. /\ Acceptable(remote) /\ cs'.chain = remote
        /\ disk'.index = IndexBlocks(cut, tail)
    BY <1>3 DEF AdoptChain, FromChain, ReplaceChainAndState
  <2>2. /\ remote \in Chains /\ k \in Nat /\ k <= Len(c) /\ k <= Len(remote)
        /\ \A i \in 1..k : c[i] = remote[i]
    BY <2>1, RemoteFacts
  <2>3. c \in Chains /\ IndexOf(disk.index, c, Len(c))
    BY SoundFacts DEF NodeInv, IndexInv
  <2>4. /\ DOMAIN tail = 1..(Len(remote) - k)
        /\ \A i \in 1..(Len(remote) - k) : tail[i] = remote[k + i]
    BY <2>2, SuffixFacts
  <2>5. Len(c) \in Nat /\ k \in 0..Len(c) /\ k \in 0..Len(remote)
    BY <2>2, <2>3, ChainsFacts
  <2> HIDE DEF c, k, tail
  <2>6. IndexOf(cut, c, k)
    BY <2>3, <2>5, IndexCut
  <2> HIDE DEF cut
  <2>7. IndexOf(cut, remote, k)
    BY <2>2, <2>6, IndexShared
  <2>8. IndexOf(IndexBlocks(cut, tail), remote, Len(remote))
    BY <2>2, <2>4, <2>5, <2>7, IndexGrows
  <2> QED
    BY <2>1, <2>8 DEF IndexInv
<1>4. CASE Sync
  <2>1. ASSUME NEW remote \in RemoteChains, AdoptFails(remote) \/ SalvageFork(remote)
        PROVE  IndexInv'
    BY <1>1, <2>1 DEF AdoptFails, SalvageFork
  <2> QED
    BY <1>3, <1>4, <2>1 DEF Sync
<1>5. CASE StartVdf \/ DiscardVdf \/ OfferBlock \/ InvalidCandidate
  BY <1>1, <1>5 DEF StartVdf, DiscardVdf, OfferBlock, InvalidCandidate
<1>6. CASE Commit
  <2>1. PICK winner \in Winners :
          cs' = ApplyBlock(cs, winner) /\ disk' = SaveBlockAndState(disk, winner, cs'.state)
    BY <1>6 DEF Commit
  <2>2. pc = "offer" /\ SoundState(cs) /\ Rows(disk, cs.chain)
    BY <1>6 DEF Commit, NodeInv
  <2>3. Appendable(winner, cs)
    BY <2>1, <2>2, WinnerFacts
  <2> DEFINE c == cs.chain
             d == Append(c, winner)
             m == Len(c)
             blks == <<winner>>
             led == cs'.state
  <2>4. cs'.chain = d /\ led \in LedgerState
    BY <2>1, <2>2, <2>3, AppendFacts
  <2>5. c \in Chains /\ winner \in Block /\ winner.height = Len(c) /\ DueRate(winner) >= 1
    BY <2>2, <2>3, SoundFacts DEF Appendable
  <2>6. IndexOf(disk.index, c, m)
    BY DEF IndexInv
  <2>7. Rows(disk, c) /\ disk' = SaveBlockAndState(disk, winner, led)
    BY <2>1, <2>2
  <2> HIDE DEF c, led
  <2>8. disk'.index = IndexBlocks(disk.index, blks)
    BY <2>4, <2>5, <2>7, RowsSave
  <2>9. /\ d \in Chains /\ m \in Nat /\ Len(d) = m + 1
        /\ \A i \in 1..m : c[i] = d[i]
        /\ d[m + 1] = winner
    BY <2>5, ChainsAppend, ChainsFacts
  <2> HIDE DEF d, m
  <2>10. IndexOf(disk.index, d, m)
    BY <2>6, <2>9, IndexShared
  <2>11. /\ m \in 0..Len(d)
         /\ DOMAIN blks = 1..(Len(d) - m)
         /\ \A i \in 1..(Len(d) - m) : blks[i] = d[m + i]
    <3>1. DOMAIN blks = {1} /\ blks[1] = winner
      BY <2>5, OneBlock
    <3> HIDE DEF blks
    <3>2. 1..(Len(d) - m) = {1}
      BY <2>9
    <3> QED
      BY <2>9, <3>1, <3>2
  <2> HIDE DEF blks
  <2>12. IndexOf(IndexBlocks(disk.index, blks), d, Len(d))
    BY <2>9, <2>10, <2>11, IndexGrows
  <2> QED
    BY <2>4, <2>8, <2>12 DEF IndexInv
<1>7. CASE CommitFails
  BY <1>7 DEF CommitFails
<1>8. CASE Crash \/ Restart
  <2>1. OneKindOfFault
    BY DEF OneKindOfFault
  <2>2. cs' = cs /\ disk' = disk
    BY <1>8, <2>1, CrashInv DEF Crash, Restart
  <2> QED
    BY <1>1, <2>2
<1>9. CASE UNCHANGED vars
  BY <1>1, <1>9 DEF vars
<1> QED
  BY <1>2, <1>4, <1>5, <1>6, <1>7, <1>8, <1>9 DEF Next

(* Among peers whose heights follow,                                       *)
(* after any number of commits and reorgs, the index names exactly the     *)
(* confirmed transactions, each at a block that holds it: a transaction    *)
(* that both branches of a reorg hold keeps its row                        *)
(* (storage._index_block, storage.replace_chain_and_state).                *)
THEOREM IndexStaysExact ==
  ASSUME "storage" \notin Faults, HeightsFollow
  PROVE  Spec => []IndexIsExact
<1>1. OneKindOfFault
  BY DEF OneKindOfFault
<1>2. Init => IndexInv
  BY IndexInit
<1>3. NodeInv /\ IndexInv /\ [Next]_vars => IndexInv'
  BY IndexStep
<1>4. NodeInv /\ IndexInv => IndexIsExact
  <2> SUFFICES ASSUME NodeInv, IndexInv
               PROVE  IndexIsExact
    OBVIOUS
  <2> DEFINE c == cs.chain
  <2>1. /\ c \in Chains /\ Len(c) \in Nat /\ DOMAIN c = 1..Len(c)
        /\ \A i \in 1..Len(c) : c[i].height = i - 1
    BY SoundFacts, ChainsFacts DEF NodeInv
  <2>2. /\ DOMAIN disk.index = {tx \in Txs : \E i \in 1..Len(c) : tx \in ToSet(c[i].txs)}
        /\ \A tx \in DOMAIN disk.index :
             \E i \in 1..Len(c) : disk.index[tx] = i - 1 /\ FirstAt(c, tx, i)
    BY DEF IndexInv, IndexOf
  <2>3. DOMAIN disk.index = OnChain(c)
    BY <2>1, <2>2 DEF OnChain
  <2>4. ASSUME NEW tx \in DOMAIN disk.index
        PROVE  \E i \in DOMAIN c : tx \in ToSet(c[i].txs) /\ c[i].height = disk.index[tx]
    <3>1. PICK i \in 1..Len(c) : disk.index[tx] = i - 1 /\ FirstAt(c, tx, i)
      BY <2>2
    <3>2. tx \in ToSet(c[i].txs) /\ c[i].height = disk.index[tx]
      BY <2>1, <3>1 DEF FirstAt
    <3> HIDE DEF c
    <3> QED
      BY <2>1, <3>2
  <2> QED
    BY <2>3, <2>4 DEF IndexIsExact
<1> QED
  BY NodeInvariant, <1>1, <1>2, <1>3, <1>4, PTL DEF Spec

=============================================================================
