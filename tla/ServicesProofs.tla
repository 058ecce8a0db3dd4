---------------------------- MODULE ServicesProofs ----------------------------
(***************************************************************************)
(* The four worlds around one node, for every value of their constants:    *)
(* the answers of the bridge, the lookups of the explorer, the books of    *)
(* the rewarder and the lock of the launches.                              *)
(***************************************************************************)
EXTENDS MCServices, SumsTheorems

-----------------------------------------------------------------------------
(* Bridge: the answers a thread gets and the nonces the loop accepts. *)

Accepted == {c \in Calls : verdict[c] = "ok"}
Count == Cardinality(Accepted)

(* Calls whose transaction has not been queued.                            *)
Unqueued ==
  {c \in Calls : \/ made[c[1]] < c[2]
                 \/ made[c[1]] = c[2] /\ pc[c[1]] \in {"viewed", "signed"}}

(* A call is judged once, after it was queued once.                        *)
CallsInv ==
  /\ \A t \in Threads : pc[t] # "idle" => made[t] >= 1
  /\ \A c \in Unqueued : verdict[c] = "none" /\ \A i \in 1..Len(netInQ) : netInQ[i] # c
  /\ \A i \in 1..Len(netInQ) : verdict[netInQ[i]] = "none"
  /\ \A i, j \in 1..Len(netInQ) : netInQ[i] = netInQ[j] => i = j

(* An answer in a queue is the verdict on the call the queue belongs to.   *)
AnswersInv ==
  /\ \A r \in replies : verdict[r.in] = IF r.ok THEN "ok" ELSE "no"
  /\ ToldTheTruth

(* The mempool has what was accepted above the chain, so that the nonce    *)
(* that is valid next is the number of those accepted, plus one.           *)
OrderInv ==
  /\ {nonce[c] : c \in Accepted} = 1..Count
  /\ committed <= Count /\ shown <= Count
  /\ \A t \in Threads : base[t] <= Count
  /\ pool \subseteq Accepted
  /\ \A c \in Accepted : nonce[c] > committed => c \in pool
  /\ IF loop = "applied" THEN \E c \in pool : nonce[c] = committed
                         ELSE \A c \in pool : nonce[c] > committed

BridgeInv == TypeOK /\ CallsInv /\ AnswersInv /\ OrderInv

(* The greatest number of a set is the one that bounds the others.         *)
LEMMA MaxIs ==
  ASSUME NEW S \in SUBSET Nat, NEW m \in S, \A x \in S : x <= m
  PROVE  Max(S) = m
<1>1. \A x \in S : (\A y \in S : x >= y) => x = m
  OBVIOUS
<1>2. \A y \in S : m >= y
  OBVIOUS
<1> QED
  BY <1>1, <1>2, Zenon DEF Max

(* Of two numbers it is the greater one.                                   *)
LEMMA MaxOfTwo ==
  ASSUME NEW a \in Nat, NEW b \in Nat
  PROVE  Max({a, b}) = IF a <= b THEN b ELSE a
<1>1. CASE a <= b
  BY <1>1, MaxIs
<1>2. CASE ~(a <= b)
  BY <1>2, MaxIs
<1> QED
  BY <1>1, <1>2

(* There are as many calls as nonces to be had.                            *)
LEMMA CallsFinite == IsFiniteSet(Calls) /\ Cardinality(Calls) = MaxNonce /\ MaxNonce \in Nat
<1>1. IsFiniteSet(1..MaxCalls) /\ Cardinality(1..MaxCalls) = MaxCalls
  <2>1. MaxCalls \in Int /\ 1 \in Int /\ MaxCalls >= 1
    BY BridgeAssumption
  <2> QED
    BY <2>1, FS_Interval
<1>2. /\ IsFiniteSet(Calls)
      /\ Cardinality(Calls) = Cardinality(Threads) * Cardinality(1..MaxCalls)
  BY <1>1, BridgeAssumption, FS_Product DEF Calls
<1>3. Cardinality(Threads) \in Nat
  BY BridgeAssumption, FS_CardinalityType
<1> QED
  BY <1>1, <1>2, <1>3, BridgeAssumption DEF MaxNonce

(* The number of accepted calls is a number, below that of all calls while *)
(* one of them has not been judged.                                        *)
LEMMA CountBelow ==
  ASSUME TypeOK
  PROVE  /\ IsFiniteSet(Accepted) /\ Count \in Nat /\ Count <= MaxNonce
         /\ \A c \in Calls : verdict[c] # "ok" => Count < MaxNonce
<1>1. /\ IsFiniteSet(Accepted) /\ Count \in Nat /\ Count <= MaxNonce
      /\ Count = MaxNonce => Accepted = Calls
  <2>1. Accepted \in SUBSET Calls
    BY DEF Accepted
  <2> QED
    BY <2>1, CallsFinite, FS_Subset, FS_CardinalityType DEF Count
<1>2. ASSUME NEW c \in Calls, verdict[c] # "ok"
      PROVE  Accepted # Calls
  BY <1>2 DEF Accepted
<1> QED
  BY <1>1, <1>2, CallsFinite

(* The greatest pending nonce, and the one that is valid next, whatever is *)
(* still pending of a block just applied.                                  *)
LEMMA NextIsCount ==
  ASSUME BridgeInv
  PROVE  PendingNonce \in 0..Count /\ NextNonce = Count + 1
<1> USE DEF BridgeInv
<1>1. Count \in Nat
  BY CountBelow
<1>2. committed \in 0..Count
  BY <1>1 DEF TypeOK, OrderInv
<1> DEFINE S == {0} \cup {nonce[c] : c \in pool}
<1>3. S \in SUBSET (0..Count)
  <2>1. \A c \in pool : nonce[c] \in 1..Count
    BY DEF OrderInv
  <2> QED
    BY <1>1, <2>1
<1>4. Count \in S \/ (S = {0} /\ committed = Count)
  <2>1. CASE committed = Count /\ loop = "applied"
    BY <2>1 DEF OrderInv
  <2>2. CASE committed = Count /\ loop # "applied"
    <3>1. \A c \in pool : nonce[c] > Count /\ nonce[c] \in 1..Count
      BY <2>2 DEF OrderInv
    <3>2. pool = {}
      BY <3>1, <1>1
    <3> QED
      BY <3>2, <2>2
  <2>3. CASE committed # Count
    <3>1. Count \in 1..Count
      BY <2>3, <1>1, <1>2
    <3>2. PICK c \in Accepted : nonce[c] = Count
      BY <3>1 DEF OrderInv
    <3>3. c \in pool
      BY <3>2, <2>3, <1>1, <1>2 DEF OrderInv
    <3> QED
      BY <3>2, <3>3
  <2> QED
    BY <2>1, <2>2, <2>3
<1>5. CASE Count \in S
  <2>1. PendingNonce = Count
    BY <1>5, <1>3, <1>1, MaxIs DEF PendingNonce
  <2>2. Max({committed, Count}) = Count
    BY <1>1, <1>2, MaxIs
  <2> QED
    BY <2>1, <2>2, <1>1 DEF NextNonce
<1>6. CASE S = {0} /\ committed = Count
  <2>1. PendingNonce = 0
    BY <1>6, MaxIs DEF PendingNonce
  <2>2. Max({committed, 0}) = Count
    BY <1>1, <1>6, MaxIs
  <2> QED
    BY <2>1, <2>2, <1>1 DEF NextNonce
<1> QED
  BY <1>4, <1>5, <1>6

(* The call a thread is in is one of the calls.                            *)
LEMMA CurrentIsCall ==
  ASSUME BridgeInv, NEW t \in Threads, pc[t] # "idle"
  PROVE  /\ Current(t) \in Calls
         /\ Current(t)[1] = t /\ Current(t)[2] = made[t]
         /\ pc[t] \in {"viewed", "signed"} => Current(t) \in Unqueued
<1>1. made[t] \in 1..MaxCalls
  BY BridgeAssumption DEF BridgeInv, TypeOK, CallsInv
<1>2. Current(t) \in Calls
  BY <1>1 DEF Current, Calls
<1> QED
  BY <1>2 DEF Current, Unqueued

(* Every step keeps the types: no nonce passes the number of calls.        *)
LEMMA TypeStep ==
  ASSUME BridgeInv, [Next]_vars
  PROVE  TypeOK'
<1> USE DEF BridgeInv, TypeOK, wallet, node
<1>1. ASSUME NEW t \in Threads, ReadView(t)
      PROVE  TypeOK'
  <2>1. made[t] + 1 \in 0..MaxCalls
    BY <1>1, BridgeAssumption DEF ReadView
  <2> QED
    BY <1>1, <2>1 DEF ReadView
<1>2. ASSUME NEW t \in Threads, ReadPending(t)
      PROVE  TypeOK'
  <2>1. Current(t) \in Calls /\ verdict[Current(t)] # "ok"
    BY <1>2, CurrentIsCall DEF ReadPending, CallsInv
  <2>2. Count \in Nat /\ Count < MaxNonce /\ MaxNonce \in Nat
    BY <2>1, CountBelow, CallsFinite
  <2>3. base[t] \in 0..Count /\ PendingNonce \in 0..Count
    BY NextIsCount, <2>2 DEF OrderInv
  <2>4. Max({base[t], PendingNonce}) \in 0..Count
    <3>1. base[t] \in Nat /\ PendingNonce \in Nat
      BY <2>2, <2>3
    <3>2. Max({base[t], PendingNonce}) \in {base[t], PendingNonce}
      BY <3>1, MaxOfTwo
    <3> QED
      BY <2>3, <3>2
  <2>5. Max({base[t], PendingNonce}) + 1 \in 0..MaxNonce
    BY <2>2, <2>4
  <2> QED
    BY <1>2, <2>1, <2>5 DEF ReadPending
<1>3. ASSUME NEW t \in Threads, PendingRaises(t) \/ Enqueue(t) \/ GetReply(t) \/ GiveUp(t)
      PROVE  TypeOK'
  <2>1. Current(t) \in Calls
    BY <1>3, CurrentIsCall DEF PendingRaises, Enqueue, GetReply, GiveUp
  <2>2. CASE PendingRaises(t)
    BY <2>1, <2>2 DEF PendingRaises
  <2>3. CASE Enqueue(t)
    BY <2>1, <2>3 DEF Enqueue
  <2>4. CASE GetReply(t)
    BY <2>1, <2>4 DEF GetReply
  <2>5. CASE GiveUp(t)
    BY <2>1, <2>5 DEF GiveUp
  <2> QED
    BY <1>3, <2>2, <2>3, <2>4, <2>5
<1>4. CASE Judge
  <2> DEFINE c == Head(netInQ)
             ok == nonce[c] = NextNonce
  <2>1. c \in Calls /\ Tail(netInQ) \in Seq(Calls)
    BY <1>4 DEF Judge
  <2>2. /\ verdict' = [verdict EXCEPT ![c] = IF ok THEN "ok" ELSE "no"]
        /\ pool' = IF ok THEN pool \cup {c} ELSE pool
        /\ replies' = replies \cup {[in |-> c, ok |-> ok]}
        /\ netInQ' = Tail(netInQ) /\ UNCHANGED <<wallet, committed, shown, loop>>
    BY <1>4 DEF Judge, ReplyQueue
  <2>3. ok \in BOOLEAN
    OBVIOUS
  <2>4. [in |-> c, ok |-> ok] \in [in : Calls, ok : BOOLEAN]
    BY <2>1, <2>3
  <2> HIDE DEF c, ok
  <2>5. replies' \subseteq [in : Calls, ok : BOOLEAN]
    BY <2>2, <2>4
  <2>6. pool' \subseteq Calls /\ verdict' \in [Calls -> {"none", "ok", "no"}]
    BY <2>1, <2>2
  <2> QED
    BY <2>1, <2>2, <2>5, <2>6
<1>5. ASSUME NEW n \in 1..MaxNonce, ApplyBlock(n)
      PROVE  TypeOK'
  BY <1>5, CallsFinite DEF ApplyBlock
<1>6. CASE RemoveMany \/ PublishView
  BY <1>6 DEF RemoveMany, PublishView
<1>7. CASE UNCHANGED vars
  BY <1>7 DEF vars
<1> QED
  BY <1>1, <1>2, <1>3, <1>4, <1>5, <1>6, <1>7 DEF Next

(* A call leaves the unqueued ones with Enqueue and is in the queue until  *)
(* it is judged, once.                                                     *)
LEMMA CallsStep ==
  ASSUME BridgeInv, [Next]_vars
  PROVE  CallsInv'
<1> USE DEF BridgeInv, TypeOK, CallsInv
<1>1. ASSUME NEW t \in Threads, ReadView(t)
      PROVE  CallsInv'
  <2>1. made'[t] = made[t] + 1 /\ made[t] \in Nat
    BY <1>1 DEF ReadView
  <2>2. ASSUME NEW c \in Unqueued' PROVE c \in Unqueued
    <3>1. c \in Calls /\ c[1] \in Threads /\ c[2] \in Nat
      BY BridgeAssumption DEF Unqueued, Calls
    <3> QED
      BY <1>1, <2>1, <3>1 DEF ReadView, Unqueued
  <2> QED
    BY <1>1, <2>1, <2>2 DEF ReadView, node
<1>2. ASSUME NEW t \in Threads, ReadPending(t)
      PROVE  CallsInv'
  <2>1. ASSUME NEW c \in Unqueued' PROVE c \in Unqueued
    BY <1>2, <2>1 DEF ReadPending, Unqueued
  <2> QED
    BY <1>2, <2>1 DEF ReadPending, node
<1>3. ASSUME NEW t \in Threads, PendingRaises(t) \/ GetReply(t) \/ GiveUp(t)
      PROVE  CallsInv'
  <2>1. pc' = [pc EXCEPT ![t] = "idle"] /\ UNCHANGED <<made, netInQ, verdict>>
    BY <1>3 DEF PendingRaises, GetReply, GiveUp, node
  <2>2. ASSUME NEW c \in Unqueued' PROVE c \in Unqueued
    BY <2>1, <2>2 DEF Unqueued
  <2> QED
    BY <2>1, <2>2
<1>4. ASSUME NEW t \in Threads, Enqueue(t)
      PROVE  CallsInv'
  <2> DEFINE d == Current(t)
  <2>1. d \in Unqueued /\ d \in Calls /\ d[1] = t /\ d[2] = made[t]
    BY <1>4, CurrentIsCall DEF Enqueue
  <2>2. /\ netInQ' = Append(netInQ, d) /\ pc' = [pc EXCEPT ![t] = "waiting"]
        /\ UNCHANGED <<made, verdict>>
    BY <1>4 DEF Enqueue, node
  <2> HIDE DEF d
  <2>3. ASSUME NEW c \in Unqueued' PROVE c \in Unqueued /\ c # d
    BY <2>1, <2>2, <2>3 DEF Unqueued
  <2>4. /\ Len(netInQ') = Len(netInQ) + 1 /\ Len(netInQ) \in Nat
        /\ netInQ'[Len(netInQ) + 1] = d
        /\ \A i \in 1..Len(netInQ) : netInQ'[i] = netInQ[i]
    BY <2>1, <2>2
  <2>5. \A t1 \in Threads : pc'[t1] # "idle" => made'[t1] >= 1
    BY <1>4, <2>2 DEF Enqueue
  <2>6. \A c \in Unqueued' :
          verdict'[c] = "none" /\ \A i \in 1..Len(netInQ') : netInQ'[i] # c
    <3> SUFFICES ASSUME NEW c \in Unqueued'
                 PROVE  verdict'[c] = "none" /\ \A i \in 1..Len(netInQ') : netInQ'[i] # c
      OBVIOUS
    <3>1. c \in Unqueued /\ c # d
      BY <2>3
    <3>2. verdict[c] = "none" /\ \A i \in 1..Len(netInQ) : netInQ[i] # c
      BY <3>1, Zenon DEF BridgeInv, CallsInv
    <3>3. \A i \in 1..Len(netInQ') : i \in 1..Len(netInQ) \/ i = Len(netInQ) + 1
      BY <2>4
    <3> HIDE DEF BridgeInv, TypeOK, CallsInv
    <3>4. \A i \in 1..Len(netInQ') : netInQ'[i] # c
      BY <2>4, <3>1, <3>2, <3>3
    <3> QED
      BY <2>2, <3>2, <3>4
  <2>7. \A i \in 1..Len(netInQ') : verdict'[netInQ'[i]] = "none"
    BY <2>1, <2>2, <2>4
  <2>8. ASSUME NEW i \in 1..Len(netInQ'), NEW j \in 1..Len(netInQ'), netInQ'[i] = netInQ'[j]
        PROVE  i = j
    <3> HIDE DEF BridgeInv, TypeOK, CallsInv
    <3>1. \A k \in 1..Len(netInQ) : netInQ'[k] # d
      <4>1. \A k \in 1..Len(netInQ) : netInQ[k] # d
        BY <2>1, Zenon DEF BridgeInv, CallsInv
      <4> QED
        BY <4>1, <2>4, Zenon
    <3>4. \A k, m \in 1..Len(netInQ) : netInQ[k] = netInQ[m] => k = m
      BY Zenon DEF BridgeInv, CallsInv
    <3>2. CASE i = Len(netInQ) + 1 \/ j = Len(netInQ) + 1
      BY <3>1, <3>2, <2>4, <2>8
    <3>3. CASE i \in 1..Len(netInQ) /\ j \in 1..Len(netInQ)
      BY <3>3, <3>4, <2>4, <2>8
    <3> QED
      BY <3>2, <3>3, <2>4
  <2> QED
    BY <2>5, <2>6, <2>7, <2>8
<1>5. CASE Judge
  <2> DEFINE c == Head(netInQ)
  <2>1. /\ c \in Calls /\ c = netInQ[1] /\ 1 \in 1..Len(netInQ)
        /\ netInQ' = Tail(netInQ) /\ UNCHANGED <<pc, made>>
        /\ \A d \in Calls : d # c => verdict'[d] = verdict[d]
    BY <1>5 DEF Judge, wallet
  <2>2. /\ Len(netInQ') = Len(netInQ) - 1 /\ Len(netInQ) \in Nat
        /\ \A i \in 1..Len(netInQ') : i + 1 \in 1..Len(netInQ) /\ netInQ'[i] = netInQ[i + 1]
    BY <2>1
  <2>3. Unqueued' = Unqueued /\ Unqueued \subseteq Calls
    BY <2>1 DEF Unqueued
  <2>4. \A i \in 1..Len(netInQ') : netInQ'[i] \in Calls /\ netInQ'[i] # c
    BY <2>1, <2>2
  <2> HIDE DEF c
  <2>5. \A d \in Unqueued' :
          verdict'[d] = "none" /\ \A i \in 1..Len(netInQ') : netInQ'[i] # d
    BY <2>1, <2>2, <2>3
  <2>6. \A i \in 1..Len(netInQ') : verdict'[netInQ'[i]] = "none"
    BY <2>1, <2>2, <2>4
  <2>7. ASSUME NEW i \in 1..Len(netInQ'), NEW j \in 1..Len(netInQ'), netInQ'[i] = netInQ'[j]
        PROVE  i = j
    <3>1. \A k, m \in 1..Len(netInQ) : netInQ[k] = netInQ[m] => k = m
      BY Zenon DEF BridgeInv, CallsInv
    <3> HIDE DEF BridgeInv, TypeOK, CallsInv
    <3>2. i + 1 = j + 1
      BY <2>2, <2>7, <3>1
    <3> QED
      BY <3>2, <2>2
  <2> QED
    BY <2>1, <2>5, <2>6, <2>7
<1>6. CASE (\E n \in 1..MaxNonce : ApplyBlock(n)) \/ RemoveMany \/ PublishView \/ UNCHANGED vars
  <2>1. UNCHANGED <<pc, made, netInQ, verdict>>
    BY <1>6 DEF ApplyBlock, RemoveMany, PublishView, vars, wallet
  <2> QED
    BY <2>1 DEF Unqueued
<1> QED
  BY <1>1, <1>2, <1>3, <1>4, <1>5, <1>6 DEF Next

(* An answer is put with the verdict and read by the call it is for.       *)
LEMMA AnswersStep ==
  ASSUME BridgeInv, [Next]_vars
  PROVE  AnswersInv'
<1> USE DEF BridgeInv, TypeOK, AnswersInv, ToldTheTruth
<1>1. ASSUME NEW t \in Threads, ReadView(t) \/ ReadPending(t) \/ Enqueue(t)
      PROVE  AnswersInv'
  BY <1>1 DEF ReadView, ReadPending, Enqueue, node
<1>2. ASSUME NEW t \in Threads, PendingRaises(t) \/ GiveUp(t)
      PROVE  AnswersInv'
  <2>1. /\ Current(t) \in Calls /\ UNCHANGED <<replies, verdict>>
        /\ \/ told' = [told EXCEPT ![Current(t)] = "error"]
           \/ told' = [told EXCEPT ![Current(t)] = "busy"]
    BY <1>2, CurrentIsCall DEF PendingRaises, GiveUp, node
  <2> QED
    BY <2>1
<1>3. ASSUME NEW t \in Threads, GetReply(t)
      PROVE  AnswersInv'
  <2>1. Current(t) \in Calls /\ UNCHANGED verdict
    BY <1>3, CurrentIsCall DEF GetReply, node
  <2>2. PICK r \in replies :
          /\ r.in = Current(t)
          /\ told' = [told EXCEPT ![Current(t)] = IF r.ok THEN "accepted" ELSE "rejected"]
          /\ replies' = replies \ {r}
    BY <1>3 DEF GetReply, ReplyQueue
  <2> QED
    BY <2>1, <2>2
<1>4. CASE Judge
  <2> DEFINE c == Head(netInQ)
             ok == nonce[c] = NextNonce
  <2>1. c \in Calls /\ verdict[c] = "none"
    <3>1. c = netInQ[1] /\ 1 \in 1..Len(netInQ)
      BY <1>4 DEF Judge
    <3> QED
      BY <3>1 DEF CallsInv
  <2>2. /\ verdict' = [verdict EXCEPT ![c] = IF ok THEN "ok" ELSE "no"]
        /\ replies' = replies \cup {[in |-> c, ok |-> ok]} /\ UNCHANGED told
    BY <1>4 DEF Judge, ReplyQueue, wallet
  <2> HIDE DEF c, ok
  <2>3. \A r \in replies : r.in \in Calls /\ verdict[r.in] \in {"ok", "no"}
    OBVIOUS
  <2>4. \A r \in replies : verdict'[r.in] = verdict[r.in]
    BY <2>1, <2>2, <2>3
  <2>5. verdict'[c] = IF ok THEN "ok" ELSE "no"
    BY <2>1, <2>2
  <2>6. \A r \in replies' : verdict'[r.in] = IF r.ok THEN "ok" ELSE "no"
    BY <2>2, <2>4, <2>5
  <2>7. ToldTheTruth'
    BY <2>1, <2>2
  <2> QED
    BY <2>6, <2>7
<1>5. CASE (\E n \in 1..MaxNonce : ApplyBlock(n)) \/ RemoveMany \/ PublishView \/ UNCHANGED vars
  <2>1. UNCHANGED <<told, replies, verdict>>
    BY <1>5 DEF ApplyBlock, RemoveMany, PublishView, vars, wallet
  <2> QED
    BY <2>1
<1> QED
  BY <1>1, <1>2, <1>3, <1>4, <1>5 DEF Next

(* What is accepted has the next nonce; a block takes what is pending up   *)
(* to one of them, and the rest stays pending.                             *)
LEMMA OrderStep ==
  ASSUME BridgeInv, [Next]_vars
  PROVE  OrderInv'
<1> USE DEF BridgeInv, OrderInv
<1>0. /\ Count \in Nat /\ IsFiniteSet(Accepted) /\ Accepted \subseteq Calls
      /\ committed \in Nat /\ shown \in Nat
      /\ nonce \in [Calls -> Nat] /\ base \in [Threads -> Nat]
  BY CountBelow, CallsFinite DEF TypeOK, Accepted
<1>1. ASSUME NEW t \in Threads, ReadView(t)
      PROVE  OrderInv'
  <2>1. /\ base' = [base EXCEPT ![t] = shown]
        /\ UNCHANGED <<nonce, verdict, pool, committed, shown, loop>>
    BY <1>1 DEF ReadView, node
  <2>2. Accepted' = Accepted /\ Count' = Count
    BY <2>1 DEF Accepted, Count
  <2> QED
    BY <2>1, <2>2, <1>0
<1>2. ASSUME NEW t \in Threads, ReadPending(t)
      PROVE  OrderInv'
  <2>1. /\ Current(t) \in Calls /\ Current(t) \notin Accepted
        /\ \A c \in Calls : c # Current(t) => nonce'[c] = nonce[c]
        /\ UNCHANGED <<base, verdict, pool, committed, shown, loop>>
    BY <1>2, <1>0, CurrentIsCall DEF ReadPending, node, CallsInv, Accepted
  <2>2. Accepted' = Accepted /\ Count' = Count
    BY <2>1 DEF Accepted, Count
  <2>3. \A c \in Accepted : nonce'[c] = nonce[c]
    BY <2>1, <1>0
  <2> QED
    BY <2>1, <2>2, <2>3
<1>3. ASSUME NEW t \in Threads, PendingRaises(t) \/ Enqueue(t) \/ GetReply(t) \/ GiveUp(t)
      PROVE  OrderInv'
  <2>1. UNCHANGED <<base, nonce, verdict, pool, committed, shown, loop>>
    BY <1>3 DEF PendingRaises, Enqueue, GetReply, GiveUp, node
  <2>2. Accepted' = Accepted /\ Count' = Count
    BY <2>1 DEF Accepted, Count
  <2> QED
    BY <2>1, <2>2
<1>4. CASE Judge
  <2> DEFINE c == Head(netInQ)
             ok == nonce[c] = NextNonce
  <2>1. c \in Calls /\ verdict[c] = "none"
    <3>1. c = netInQ[1] /\ 1 \in 1..Len(netInQ)
      BY <1>4 DEF Judge, TypeOK
    <3> QED
      BY <3>1 DEF CallsInv, TypeOK
  <2>2. /\ verdict' = [verdict EXCEPT ![c] = IF ok THEN "ok" ELSE "no"]
        /\ pool' = IF ok THEN pool \cup {c} ELSE pool
        /\ loop = "drain"
        /\ UNCHANGED <<base, nonce, committed, shown, loop>>
    BY <1>4 DEF Judge, wallet
  <2>3. ok <=> nonce[c] = Count + 1
    BY NextIsCount
  <2> HIDE DEF c, ok
  <2>4. CASE ~ok
    <3>1. Accepted' = Accepted /\ Count' = Count
      BY <2>1, <2>2, <2>4 DEF Accepted, Count, TypeOK
    <3> QED
      BY <2>2, <2>4, <3>1
  <2>5. CASE ok
    <3>1. Accepted' = Accepted \cup {c} /\ c \notin Accepted
      BY <2>1, <2>2, <2>5 DEF Accepted, TypeOK
    <3>2. Count' = Count + 1
      BY <1>0, <3>1, FS_AddElement DEF Count
    <3>3. {nonce'[d] : d \in Accepted'} = 1..Count'
      BY <1>0, <2>2, <2>3, <2>5, <3>1, <3>2
    <3>4. nonce[c] > committed
      BY <1>0, <2>3, <2>5
    <3> QED
      BY <1>0, <2>2, <2>5, <3>1, <3>2, <3>3, <3>4
  <2> QED
    BY <2>4, <2>5
<1>5. ASSUME NEW n \in 1..MaxNonce, ApplyBlock(n)
      PROVE  OrderInv'
  <2>1. /\ committed' = n /\ loop' = "applied" /\ loop = "drain"
        /\ UNCHANGED <<base, nonce, verdict, pool, shown>>
    BY <1>5 DEF ApplyBlock, wallet
  <2>2. Accepted' = Accepted /\ Count' = Count
    BY <2>1 DEF Accepted, Count
  <2>3. PICK c \in pool : nonce[c] = n
    BY <1>5 DEF ApplyBlock
  <2>4. n > committed /\ n \in 1..Count
    BY <2>1, <2>3
  <2> QED
    BY <1>0, <2>1, <2>2, <2>3, <2>4
<1>6. CASE RemoveMany
  <2>1. /\ pool' = {c \in pool : nonce[c] > committed} /\ loop' = "removed"
        /\ UNCHANGED <<base, nonce, verdict, committed, shown>>
    BY <1>6 DEF RemoveMany, wallet
  <2>2. Accepted' = Accepted /\ Count' = Count
    BY <2>1 DEF Accepted, Count
  <2> QED
    BY <2>1, <2>2
<1>7. CASE PublishView
  <2>1. /\ shown' = committed /\ loop' = "drain" /\ loop = "removed"
        /\ UNCHANGED <<base, nonce, verdict, pool, committed>>
    BY <1>7 DEF PublishView, wallet
  <2>2. Accepted' = Accepted /\ Count' = Count
    BY <2>1 DEF Accepted, Count
  <2> QED
    BY <2>1, <2>2
<1>8. CASE UNCHANGED vars
  BY <1>8 DEF vars, Accepted, Count
<1> QED
  BY <1>1, <1>2, <1>3, <1>4, <1>5, <1>6, <1>7, <1>8 DEF Next

(* No call has been made and nothing has been accepted at first.           *)
LEMMA InitInv == Init => BridgeInv
<1> SUFFICES ASSUME Init PROVE BridgeInv
  OBVIOUS
<1>1. TypeOK
  <2>1. <<>> \in Seq(Calls)
    OBVIOUS
  <2>2. MaxNonce \in Nat /\ MaxCalls \in Nat
    BY CallsFinite, BridgeAssumption
  <2> QED
    BY <2>1, <2>2 DEF Init, TypeOK
<1>2. Len(netInQ) = 0 /\ \A c \in Calls : verdict[c] = "none" /\ told[c] = "nothing"
  BY DEF Init
<1>3. CallsInv
  BY <1>2 DEF Init, CallsInv, Unqueued
<1>4. AnswersInv
  BY <1>2 DEF Init, AnswersInv, ToldTheTruth
<1>5. OrderInv
  <2>1. Accepted = {} /\ Count = 0
    <3>1. Accepted = {}
      BY <1>2 DEF Accepted
    <3> QED
      BY <3>1, FS_EmptySet DEF Count
  <2> QED
    BY <2>1 DEF Init, OrderInv
<1> QED
  BY <1>1, <1>3, <1>4, <1>5 DEF BridgeInv

(* The inductive invariant: what is queued, judged, answered, accepted and *)
(* committed, taken together.                                              *)
THEOREM BridgeInvariant == Spec => []BridgeInv
<1>1. BridgeInv /\ [Next]_vars => BridgeInv'
  BY TypeStep, CallsStep, AnswersStep, OrderStep DEF BridgeInv
<1> QED
  BY InitInv, <1>1, PTL DEF Spec

(* A thread is told what the loop decided on the call it is in, whatever   *)
(* calls it has given up before.                                           *)
THEOREM AnswersAreTrue == Spec => []ToldTheTruth
<1>1. BridgeInv => ToldTheTruth
  BY DEF BridgeInv, AnswersInv
<1> QED
  BY BridgeInvariant, <1>1, PTL

(* However many threads choose nonces from a view and a mempool that are   *)
(* out of step, those accepted are 1, 2, ... without a gap or repetition.  *)
THEOREM NoncesInOrder == Spec => []AcceptedInOrder
<1>1. BridgeInv => AcceptedInOrder
  BY DEF BridgeInv, OrderInv, AcceptedInOrder, Accepted, Count
<1> QED
  BY BridgeInvariant, <1>1, PTL

-----------------------------------------------------------------------------
(* Explorer: what a client is told while the loop commits. *)

(* The chain read, or an earlier one. *)
Has(blocks) == \E h \in DOMAIN blocks : blocks[h]

(* The transaction is mined once, and the view, the index and the mempool  *)
(* follow self.cs in the order of a commit.                                *)
LoopInv ==
  /\ chain \in Seq(BOOLEAN) /\ view \in Seq(BOOLEAN)
  /\ txPending \in BOOLEAN /\ submitted \in BOOLEAN /\ row \in Nat
  /\ todo \in {<<>>, <<"save", "remove", "publish">>, <<"remove", "publish">>, <<"publish">>}
  /\ \A h, i \in DOMAIN chain : chain[h] /\ chain[i] => h = i
  /\ ~submitted => ~Has(chain)
  /\ Len(view) = IF todo = <<>> THEN Len(chain) ELSE Len(chain) - 1
  /\ \A h \in DOMAIN view : view[h] = chain[h]
  /\ \A h \in DOMAIN view : view[h] => row = h /\ ~txPending
  /\ todo \in {<<"remove", "publish">>, <<"publish">>} =>
       \A h \in DOMAIN chain : chain[h] => row = h
  /\ todo = <<"publish">> => \A h \in DOMAIN chain : chain[h] => ~txPending

(* What a handler may have left to read. *)
LeftToRead == {<<"pool", "row", "view">>, <<"row", "view">>, <<"view">>,
               <<"row", "view", "pool">>, <<"view", "pool">>, <<"pool">>,
               <<"view", "row">>, <<"row">>, <<>>}

Lookup == [kind : {"api", "page", "history"}, todo : LeftToRead,
           chain : Seq(BOOLEAN), height : Nat,
           answer : [said : {"nothing yet", "pending", "confirmed", "not found"},
                     confirmations : Int],
           known : BOOLEAN, late : BOOLEAN]

(* What a lookup has read is of a chain the view has grown from. *)
ReadInv(q) ==
  /\ Len(q.chain) <= Len(view)
  /\ \A h \in DOMAIN q.chain : q.chain[h] = view[h]

(* A lookup begun after somebody was told has found what it has read.      *)
LateInv(q) ==
  /\ q.answer.said \in {"nothing yet", "confirmed"} /\ q.todo # <<"pool">>
  /\ q.todo \in {<<"view">>, <<"view", "pool">>} => q.height \in DOMAIN view /\ view[q.height]
  /\ q.todo = <<"row">> => Has(q.chain)

AnswersKept ==
  /\ confirmed \in BOOLEAN /\ (confirmed => Has(view))
  /\ lookup \in [Clients -> Lookup]
  /\ \A c \in Clients : ReadInv(lookup[c])
  /\ \A c \in Clients : lookup[c].late => confirmed /\ LateInv(lookup[c])

LookupsInv == reorgs \in Nat /\ (reorgs = 0 => LoopInv /\ AnswersKept)

(* What HeightIn finds. *)
LEMMA HeightFound ==
  ASSUME NEW blocks \in Seq(BOOLEAN), NEW h \in DOMAIN blocks, blocks[h],
         \A i, j \in DOMAIN blocks : blocks[i] /\ blocks[j] => i = j
  PROVE  Lookups!HeightIn(blocks) = h
<1>1. TRUE \in Lookups!ToSet(blocks)
  BY DEF Lookups!ToSet
<1> DEFINE g == CHOOSE i \in DOMAIN blocks : blocks[i]
<1>2. g \in DOMAIN blocks /\ blocks[g]
  OBVIOUS
<1>3. g = h
  BY <1>2
<1> QED
  BY <1>1, <1>3 DEF Lookups!HeightIn

(* No height, no such block. *)
LEMMA NotFound ==
  ASSUME NEW blocks \in Seq(BOOLEAN), Lookups!HeightIn(blocks) = 0
  PROVE  ~Has(blocks)
<1> SUFFICES ASSUME NEW h \in DOMAIN blocks, blocks[h]
             PROVE  FALSE
  BY DEF Has
<1>1. TRUE \in Lookups!ToSet(blocks)
  BY DEF Lookups!ToSet
<1> DEFINE g == CHOOSE i \in DOMAIN blocks : blocks[i]
<1>2. g \in DOMAIN blocks
  OBVIOUS
<1>3. g # 0
  BY <1>2
<1> QED
  BY <1>1, <1>3 DEF Lookups!HeightIn

(* A height is a number. *)
LEMMA HeightType ==
  ASSUME NEW blocks \in Seq(BOOLEAN)
  PROVE  Lookups!HeightIn(blocks) \in Nat
<1>1. CASE TRUE \in Lookups!ToSet(blocks)
  <2>1. \E h \in DOMAIN blocks : blocks[h]
    BY <1>1 DEF Lookups!ToSet
  <2> DEFINE g == CHOOSE i \in DOMAIN blocks : blocks[i]
  <2>2. g \in DOMAIN blocks
    BY <2>1
  <2> QED
    BY <1>1, <2>2 DEF Lookups!HeightIn
<1>2. CASE TRUE \notin Lookups!ToSet(blocks)
  BY <1>2 DEF Lookups!HeightIn
<1> QED
  BY <1>1, <1>2

(* The view only grows: what was read of it stays true of it. *)
LEMMA ViewGrows ==
  ASSUME AnswersKept, UNCHANGED <<lookup, confirmed>>, LoopInv, LoopInv',
         Len(view) <= Len(view'), \A h \in DOMAIN view : view'[h] = view[h]
  PROVE  AnswersKept'
<1>1. /\ view \in Seq(BOOLEAN) /\ view' \in Seq(BOOLEAN)
      /\ DOMAIN view = 1..Len(view) /\ DOMAIN view' = 1..Len(view')
  BY DEF LoopInv
<1>2. \A h \in DOMAIN view : h \in DOMAIN view'
  BY <1>1
<1>3. Has(view) => Has(view')
  BY <1>2 DEF Has
<1>4. ASSUME NEW c \in Clients
      PROVE  ReadInv(lookup[c])'
  <2>1. lookup[c].chain \in Seq(BOOLEAN) /\ ReadInv(lookup[c])
    BY DEF AnswersKept, Lookup
  <2>2. \A h \in DOMAIN lookup[c].chain : h \in DOMAIN view
    BY <1>1, <2>1 DEF ReadInv
  <2> QED
    BY <1>1, <2>1, <2>2 DEF ReadInv
<1>5. ASSUME NEW c \in Clients, lookup[c].late
      PROVE  confirmed /\ LateInv(lookup[c])'
  <2>1. confirmed /\ LateInv(lookup[c])
    BY <1>5 DEF AnswersKept
  <2> QED
    BY <1>2, <2>1 DEF LateInv
<1> QED
  BY <1>3, <1>4, <1>5 DEF AnswersKept, Has

(* What the loop has left to do, step by step. *)
LEMMA Doing ==
  ASSUME LoopInv, NEW step, Lookups!Do(step)
  PROVE  \/ /\ step = "save" /\ todo = <<"save", "remove", "publish">>
            /\ todo' = <<"remove", "publish">>
         \/ step = "remove" /\ todo = <<"remove", "publish">> /\ todo' = <<"publish">>
         \/ step = "publish" /\ todo = <<"publish">> /\ todo' = <<>>
<1>1. todo # <<>> /\ Head(todo) = step /\ todo' = Tail(todo)
  BY DEF Lookups!Do
<1>2. CASE todo = <<"save", "remove", "publish">>
  BY <1>1, <1>2
<1>3. CASE todo = <<"remove", "publish">>
  BY <1>1, <1>3
<1>4. CASE todo = <<"publish">>
  BY <1>1, <1>4
<1> QED
  BY <1>1, <1>2, <1>3, <1>4 DEF LoopInv

(* The steps of the loop. *)
LEMMA LoopStep ==
  ASSUME LoopInv, AnswersKept,
         \/ Lookups!Submit \/ \E has \in BOOLEAN : Lookups!Commit(has)
         \/ Lookups!Save \/ Lookups!RemoveMany \/ Lookups!Publish
         \/ Lookups!Swap \/ Lookups!Show \/ Lookups!Readd
  PROVE  LoopInv' /\ AnswersKept'
<1> USE DEF Lookups!clients
<1>1. /\ chain \in Seq(BOOLEAN) /\ view \in Seq(BOOLEAN)
      /\ DOMAIN chain = 1..Len(chain) /\ DOMAIN view = 1..Len(view)
      /\ Len(chain) \in Nat /\ Len(view) \in Nat
      /\ Len(view) <= Len(chain)
      /\ \A h \in DOMAIN view : h \in DOMAIN chain /\ view[h] = chain[h]
  BY DEF LoopInv
<1>2. CASE Lookups!Submit
  <2>1. /\ todo = <<>> /\ ~submitted /\ submitted' = TRUE /\ txPending' = TRUE
        /\ UNCHANGED <<chain, view, row, todo, lookup, confirmed>>
    BY <1>2 DEF Lookups!Submit
  <2>2. ~Has(chain)
    BY <2>1 DEF LoopInv
  <2>3. \A h \in DOMAIN view : ~view[h]
    BY <1>1, <2>2, Zenon DEF Has
  <2>4. LoopInv'
    BY <2>1, <2>2, <2>3 DEF LoopInv, Has
  <2> QED
    BY <2>1, <2>4, ViewGrows
<1>3. ASSUME NEW has \in BOOLEAN, Lookups!Commit(has)
      PROVE  LoopInv' /\ AnswersKept'
  <2>1. /\ todo = <<>> /\ todo' = <<"save", "remove", "publish">>
        /\ has => submitted /\ Lookups!HeightIn(chain) = 0
        /\ chain' = Append(chain, has)
        /\ UNCHANGED <<view, row, txPending, submitted, lookup, confirmed>>
    BY <1>3 DEF Lookups!Commit, Lookups!CommitOrder
  <2>2. /\ chain' \in Seq(BOOLEAN) /\ Len(chain') = Len(chain) + 1
        /\ DOMAIN chain' = 1..(Len(chain) + 1) /\ chain'[Len(chain) + 1] = has
        /\ \A h \in 1..Len(chain) : chain'[h] = chain[h]
    BY <1>1, <2>1
  <2>3. has => \A h \in DOMAIN chain : ~chain[h]
    BY <1>1, <2>1, NotFound DEF Has
  <2>4. ASSUME NEW h \in DOMAIN chain', NEW i \in DOMAIN chain', chain'[h], chain'[i]
        PROVE  h = i
    <3>1. \A k \in DOMAIN chain' : k \in DOMAIN chain \/ k = Len(chain) + 1
      BY <1>1, <2>2
    <3>2. \A k, l \in DOMAIN chain : chain[k] /\ chain[l] => k = l
      BY DEF LoopInv
    <3> QED
      BY <1>1, <2>2, <2>3, <2>4, <3>1, <3>2
  <2>5. ~submitted' => ~Has(chain')
    <3>1. \A k \in DOMAIN chain' : k \in DOMAIN chain \/ k = Len(chain) + 1
      BY <1>1, <2>2
    <3> QED
      BY <1>1, <2>1, <2>2, <3>1 DEF LoopInv, Has
  <2>6. Len(view') = Len(chain') - 1
    BY <1>1, <2>1, <2>2 DEF LoopInv
  <2>7. /\ \A h \in DOMAIN view' : view'[h] = chain'[h]
        /\ \A h \in DOMAIN view' : view'[h] => row' = h /\ ~txPending'
    BY <1>1, <2>1, <2>2 DEF LoopInv
  <2>8. LoopInv'
    BY <2>1, <2>2, <2>4, <2>5, <2>6, <2>7 DEF LoopInv
  <2> QED
    BY <1>1, <2>1, <2>8, ViewGrows
<1>4. CASE Lookups!Save
  <2>1. /\ todo = <<"save", "remove", "publish">> /\ todo' = <<"remove", "publish">>
        /\ row' = Lookups!HeightIn(chain)
        /\ UNCHANGED <<chain, view, txPending, submitted, lookup, confirmed>>
    <3>1. Lookups!Do("save")
      BY <1>4 DEF Lookups!Save
    <3>2. /\ row' = Lookups!HeightIn(chain)
          /\ UNCHANGED <<chain, view, txPending, submitted, lookup, confirmed>>
      BY <1>4 DEF Lookups!Save, Lookups!Do
    <3> QED
      BY <3>1, <3>2, Doing
  <2>2. \A h \in DOMAIN chain : chain[h] => row' = h
    BY <1>1, <2>1, HeightFound DEF LoopInv
  <2>3. \A h \in DOMAIN view : view[h] => row' = h /\ ~txPending
    <3> SUFFICES ASSUME NEW h \in DOMAIN view, view[h]
                 PROVE  row' = h /\ ~txPending
      OBVIOUS
    <3>1. h \in DOMAIN chain /\ chain[h]
      BY <1>1
    <3>2. ~txPending
      BY DEF LoopInv
    <3> QED
      BY <2>2, <3>1, <3>2
  <2>4. row' \in Nat
    BY <1>1, <2>1, HeightType
  <2>5. LoopInv'
    BY <2>1, <2>2, <2>3, <2>4 DEF LoopInv, Has
  <2> QED
    BY <1>1, <2>1, <2>5, ViewGrows
<1>5. CASE Lookups!RemoveMany
  <2>1. /\ todo = <<"remove", "publish">> /\ todo' = <<"publish">>
        /\ txPending' = (txPending /\ ~Lookups!Last(chain))
        /\ UNCHANGED <<chain, view, row, submitted, lookup, confirmed>>
    <3>1. Lookups!Do("remove")
      BY <1>5 DEF Lookups!RemoveMany
    <3>2. /\ txPending' = (txPending /\ ~Lookups!Last(chain))
          /\ UNCHANGED <<chain, view, row, submitted, lookup, confirmed>>
      BY <1>5 DEF Lookups!RemoveMany, Lookups!Do
    <3> QED
      BY <3>1, <3>2, Doing
  <2>2. Len(view) = Len(chain) - 1 /\ Lookups!Last(chain) = chain[Len(chain)]
    BY <2>1 DEF LoopInv, Lookups!Last
  <2>3. \A h \in DOMAIN chain : h \in DOMAIN view \/ h = Len(chain)
    BY <1>1, <2>2
  <2>4. txPending' \in BOOLEAN /\ \A h \in DOMAIN chain : chain[h] => ~txPending'
    BY <2>1, <2>2, <2>3 DEF LoopInv
  <2>5. \A h \in DOMAIN view : view[h] => row = h /\ ~txPending'
    BY <2>1 DEF LoopInv
  <2>6. LoopInv'
    BY <2>1, <2>4, <2>5 DEF LoopInv, Has
  <2> QED
    BY <1>1, <2>1, <2>6, ViewGrows
<1>6. CASE Lookups!Publish
  <2>1. /\ todo = <<"publish">> /\ todo' = <<>> /\ view' = chain
        /\ UNCHANGED <<chain, row, txPending, submitted, lookup, confirmed>>
    <3>1. Lookups!Do("publish")
      BY <1>6 DEF Lookups!Publish
    <3>2. view' = chain /\ UNCHANGED <<chain, row, txPending, submitted, lookup, confirmed>>
      BY <1>6 DEF Lookups!Publish, Lookups!Do
    <3> QED
      BY <3>1, <3>2, Doing
  <2>2. LoopInv'
    BY <1>1, <2>1 DEF LoopInv, Has
  <2>3. \A h \in DOMAIN view : view'[h] = view[h]
    BY <2>1 DEF LoopInv
  <2> QED
    BY <1>1, <2>1, <2>2, <2>3, ViewGrows
<1>7. CASE Lookups!Swap \/ Lookups!Show \/ Lookups!Readd
  BY <1>7, Doing DEF Lookups!Swap, Lookups!Show, Lookups!Readd
<1> QED
  BY <1>2, <1>3, <1>4, <1>5, <1>6, <1>7

(* One client's lookup goes on. *)
LEMMA LookupChanges ==
  ASSUME AnswersKept, NEW c \in Clients, NEW r \in Lookup, UNCHANGED view,
         lookup' = [lookup EXCEPT ![c] = r],
         confirmed' \in BOOLEAN, confirmed => confirmed', confirmed' => Has(view), ReadInv(r),
         r.late => confirmed' /\ LateInv(r)
  PROVE  AnswersKept'
<1>1. lookup \in [Clients -> Lookup]
  BY DEF AnswersKept
<1>2. /\ lookup' \in [Clients -> Lookup] /\ lookup'[c] = r
      /\ \A d \in Clients : d # c => lookup'[d] = lookup[d]
  BY <1>1
<1>3. ASSUME NEW d \in Clients
      PROVE  /\ ReadInv(lookup[d])'
             /\ lookup'[d].late => confirmed' /\ LateInv(lookup[d])'
  <2>1. CASE d = c
    BY <1>2, <2>1 DEF ReadInv, LateInv
  <2>2. CASE d # c
    <3>1. ReadInv(lookup[d]) /\ (lookup[d].late => confirmed /\ LateInv(lookup[d]))
      BY DEF AnswersKept
    <3> QED
      BY <1>2, <2>2, <3>1 DEF ReadInv, LateInv
  <2> QED
    BY <2>1, <2>2
<1> QED
  BY <1>2, <1>3 DEF AnswersKept, Has

(* What a lookup has read. *)
LEMMA LookupTypes ==
  ASSUME NEW q \in Lookup
  PROVE  /\ q.chain \in Seq(BOOLEAN) /\ q.height \in Nat /\ q.todo \in LeftToRead
         /\ Len(q.chain) \in Nat /\ DOMAIN q.chain = 1..Len(q.chain)
<1>1. q.chain \in Seq(BOOLEAN) /\ q.height \in Nat /\ q.todo \in LeftToRead
  BY DEF Lookup
<1> QED
  BY <1>1

(* Somebody was told before this lookup began, and it has found the        *)
(* transaction, or has read enough of where it will.                       *)
Ready(q, inPool) ==
  q.late => /\ confirmed /\ ~inPool /\ q.answer.said \in {"nothing yet", "confirmed"}
            /\ \/ q.todo # <<>> /\ LateInv(q)
               \/ q.todo \in {<<>>, <<"pool">>} /\ Lookups!FoundOn(q)

(* Nothing is left to read but, perhaps, the mempool. *)
AllRead(q) == "row" \notin Lookups!ToSet(q.todo) /\ "view" \notin Lookups!ToSet(q.todo)

(* The mempool is read last, if it was not read first. *)
LEMMA PoolIsLast ==
  ASSUME NEW q, q.todo = <<>> \/ q.todo = <<"pool">>
  PROVE  AllRead(q)
<1>1. CASE q.todo = <<>>
  <2>1. DOMAIN q.todo = {}
    BY <1>1
  <2> QED
    BY <2>1 DEF AllRead, Lookups!ToSet
<1>2. CASE q.todo = <<"pool">>
  <2>1. \A i \in DOMAIN q.todo : q.todo[i] = "pool"
    BY <1>2
  <2> QED
    BY <2>1 DEF AllRead, Lookups!ToSet
<1> QED
  BY <1>1, <1>2

(* An answer ends the lookup and leaves what it has read. *)
LEMMA Returning ==
  ASSUME LoopInv, AnswersKept, NEW c \in Clients, NEW q \in Lookup, ReadInv(q),
         NEW said \in {"pending", "confirmed", "not found"}, NEW n \in Int,
         Lookups!Return(c, q, [said |-> said, confirmations |-> n]),
         said = "confirmed" => Has(view),
         q.late => said = "confirmed"
  PROVE  AnswersKept'
<1>1. UNCHANGED view
  BY DEF Lookups!Return, Lookups!node
<1>2. PICK r : r = [q EXCEPT !.todo = <<>>, !.answer = [said |-> said, confirmations |-> n]]
  OBVIOUS
<1>3. lookup' = [lookup EXCEPT ![c] = r]
  BY <1>2 DEF Lookups!Return
<1>4. confirmed' = (confirmed \/ said = "confirmed")
  BY Zenon DEF Lookups!Return
<1>5. confirmed \in BOOLEAN /\ (confirmed => Has(view))
  BY DEF AnswersKept
<1>6. /\ r \in Lookup /\ r.chain = q.chain /\ r.todo = <<>> /\ r.late = q.late
      /\ r.answer.said = said
  <2>1. <<>> \in LeftToRead
    BY DEF LeftToRead
  <2> QED
    BY <1>2, <2>1 DEF Lookup
<1>7. ReadInv(r)
  BY <1>6 DEF ReadInv
<1>8. r.late => confirmed' /\ LateInv(r)
  <2> SUFFICES ASSUME q.late PROVE confirmed' /\ LateInv(r)
    BY <1>6
  <2>1. said = "confirmed" /\ confirmed'
    BY <1>4
  <2>2. r.todo \notin {<<"pool">>, <<"view">>, <<"view", "pool">>, <<"row">>}
    BY <1>6
  <2> QED
    BY <1>6, <2>1, <2>2, Zenon DEF LateInv
<1>9. confirmed' \in BOOLEAN /\ (confirmed => confirmed') /\ (confirmed' => Has(view))
  BY <1>4, <1>5
<1> QED
  BY <1>1, <1>3, <1>6, <1>7, <1>8, <1>9, LookupChanges

(* A handler with what it has read so far answers or reads on.             *)
LEMMA Deciding ==
  ASSUME LoopInv, AnswersKept, NEW c \in Clients, NEW q \in Lookup, NEW inPool \in BOOLEAN,
         Lookups!Decide(c, q, inPool), ReadInv(q), Ready(q, inPool)
  PROVE  LoopInv' /\ AnswersKept'
<1>1. /\ q.chain \in Seq(BOOLEAN) /\ q.height \in Nat /\ q.todo \in LeftToRead
      /\ Len(q.chain) \in Nat /\ DOMAIN q.chain = 1..Len(q.chain)
  BY LookupTypes
<1>2. UNCHANGED <<chain, view, row, txPending, submitted, todo, old, reorgs>>
  BY DEF Lookups!Decide, Lookups!Return, Lookups!node
<1>3. LoopInv'
  BY <1>2 DEF LoopInv, Has
<1>4. confirmed \in BOOLEAN /\ (confirmed => Has(view))
  BY DEF AnswersKept
<1>5. CASE inPool
  <2>1. Lookups!Return(c, q, [said |-> "pending", confirmations |-> 0])
    BY <1>5 DEF Lookups!Decide
  <2>2. ~q.late
    BY <1>5 DEF Ready
  <2> QED
    <3> DEFINE said == "pending"
               n == 0
    <3>1. said \in {"pending", "confirmed", "not found"} /\ said # "confirmed" /\ n \in Int
      OBVIOUS
    <3>2. Lookups!Return(c, q, [said |-> said, confirmations |-> n])
      BY <2>1
    <3> HIDE DEF said, n
    <3>3. AnswersKept'
      BY <2>2, <3>1, <3>2, Returning
    <3> QED
      BY <1>3, <3>3
<1>6. CASE ~inPool /\ AllRead(q) /\ Lookups!FoundOn(q)
  <2>1. Lookups!Return(c, q, [said |-> "confirmed",
                              confirmations |-> Len(q.chain) - q.height + 1])
    BY <1>6 DEF Lookups!Decide, AllRead
  <2>2. Len(q.chain) - q.height + 1 \in Int
    BY <1>1
  <2>3. Has(view)
    <3>1. q.height \in DOMAIN q.chain /\ q.chain[q.height]
      BY <1>6 DEF Lookups!FoundOn
    <3>2. DOMAIN view = 1..Len(view) /\ Len(view) \in Nat
      BY DEF LoopInv
    <3>3. q.height \in DOMAIN view /\ view[q.height]
      BY <1>1, <3>1, <3>2 DEF ReadInv
    <3> QED
      BY <3>3 DEF Has
  <2> QED
    BY <1>3, <2>1, <2>2, <2>3, Returning
<1>7. CASE ~inPool /\ ~(AllRead(q) /\ Lookups!FoundOn(q)) /\ q.todo = <<>>
  <2>1. Lookups!Return(c, q, [said |-> "not found", confirmations |-> 0])
    BY <1>7 DEF Lookups!Decide, AllRead
  <2>2. ~q.late
    BY <1>7, PoolIsLast DEF Ready
  <2> QED
    <3> DEFINE said == "not found"
               n == 0
    <3>1. said \in {"pending", "confirmed", "not found"} /\ said # "confirmed" /\ n \in Int
      OBVIOUS
    <3>2. Lookups!Return(c, q, [said |-> said, confirmations |-> n])
      BY <2>1
    <3> HIDE DEF said, n
    <3>3. AnswersKept'
      BY <2>2, <3>1, <3>2, Returning
    <3> QED
      BY <1>3, <3>3
<1>8. CASE ~inPool /\ ~(AllRead(q) /\ Lookups!FoundOn(q)) /\ q.todo # <<>>
  <2>1. lookup' = [lookup EXCEPT ![c] = q] /\ confirmed' = confirmed
    BY <1>8 DEF Lookups!Decide, AllRead
  <2>2. q.late => confirmed' /\ LateInv(q)
    BY <1>8, <2>1, PoolIsLast DEF Ready
  <2> QED
    BY <1>2, <1>3, <1>4, <2>1, <2>2, LookupChanges
<1> QED
  BY <1>5, <1>6, <1>7, <1>8

(* The beginning of a lookup. *)
LEMMA AskStep ==
  ASSUME LoopInv, AnswersKept, NEW c \in Clients, NEW kind \in {"api", "page", "history"},
         Lookups!Ask(c, kind)
  PROVE  LoopInv' /\ AnswersKept'
<1>1. PICK r : r = [Lookups!Idle EXCEPT !.kind = kind, !.todo = Lookups!Reads(kind),
                                        !.known = submitted, !.late = confirmed]
  OBVIOUS
<1>2. /\ lookup' = [lookup EXCEPT ![c] = r]
      /\ UNCHANGED <<chain, view, row, txPending, submitted, todo, confirmed>>
  BY <1>1 DEF Lookups!Ask, Lookups!node
<1>3. LoopInv'
  BY <1>2 DEF LoopInv, Has
<1>4. Lookups!Reads(kind) \in {<<"pool", "row", "view">>, <<"row", "view", "pool">>,
                               <<"view", "row">>}
  <2>1. CASE kind = "api"
    BY <2>1 DEF Lookups!Reads
  <2>2. CASE kind = "page"
    BY <2>2 DEF Lookups!Reads
  <2>3. CASE kind = "history"
    BY <2>3 DEF Lookups!Reads
  <2> QED
    BY <2>1, <2>2, <2>3
<1> DEFINE first == Lookups!Reads(kind)
           told0 == [said |-> "nothing yet", confirmations |-> 0]
<1>5. /\ r.todo = first /\ r.chain = <<>> /\ r.answer.said = "nothing yet"
      /\ r.late = confirmed
  BY <1>1 DEF Lookups!Idle, Lookups!None
<1>10. r = [kind |-> kind, todo |-> first, chain |-> <<>>, height |-> 0, answer |-> told0,
             known |-> submitted, late |-> confirmed]
  BY <1>1 DEF Lookups!Idle, Lookups!None
<1>6. submitted \in BOOLEAN /\ confirmed \in BOOLEAN /\ (confirmed => Has(view))
  BY DEF LoopInv, AnswersKept
<1>7. r \in Lookup
  <2>1. first \in LeftToRead
    BY <1>4 DEF LeftToRead
  <2>2. told0 \in [said : {"nothing yet", "pending", "confirmed", "not found"},
                  confirmations : Int]
    OBVIOUS
  <2>3. <<>> \in Seq(BOOLEAN)
    OBVIOUS
  <2> HIDE DEF first, told0
  <2> QED
    BY <1>6, <1>10, <2>1, <2>2, <2>3 DEF Lookup
<1>8. ReadInv(r)
  <2>1. Len(r.chain) = 0 /\ DOMAIN r.chain = {}
    <3>1. r.chain = <<>>
      BY <1>5
    <3> QED
      BY <3>1
  <2>2. Len(view) \in Nat
    BY DEF LoopInv
  <2> QED
    BY <2>1, <2>2 DEF ReadInv
<1>9. LateInv(r)
  <2>1. first \notin {<<"pool">>, <<"view">>, <<"view", "pool">>, <<"row">>}
    BY <1>4
  <2> HIDE DEF first
  <2> QED
    BY <1>5, <2>1, Zenon DEF LateInv
<1> QED
  BY <1>2, <1>3, <1>5, <1>6, <1>7, <1>8, <1>9, LookupChanges

(* What a handler has left after a read. *)
LEMMA ReadingOn ==
  ASSUME NEW list \in LeftToRead, list # <<>>
  PROVE  /\ Tail(list) \in LeftToRead
         /\ Head(list) = "pool" => list = <<"pool", "row", "view">> \/ list = <<"pool">>
         /\ Head(list) = "row" => \/ list = <<"row", "view">> /\ Tail(list) = <<"view">>
                                  \/ list = <<"row">> /\ Tail(list) = <<>>
                                  \/ /\ list = <<"row", "view", "pool">>
                                     /\ Tail(list) = <<"view", "pool">>
         /\ Head(list) = "view" => \/ list = <<"view", "pool">> /\ Tail(list) = <<"pool">>
                                   \/ list = <<"view">> /\ Tail(list) = <<>>
                                   \/ list = <<"view", "row">> /\ Tail(list) = <<"row">>
<1>1. CASE list = <<"pool", "row", "view">>
  BY <1>1 DEF LeftToRead
<1>2. CASE list = <<"row", "view">>
  BY <1>2 DEF LeftToRead
<1>3. CASE list = <<"view">>
  BY <1>3 DEF LeftToRead
<1>4. CASE list = <<"row", "view", "pool">>
  BY <1>4 DEF LeftToRead
<1>5. CASE list = <<"view", "pool">>
  BY <1>5 DEF LeftToRead
<1>6. CASE list = <<"pool">>
  BY <1>6 DEF LeftToRead
<1>7. CASE list = <<"view", "row">>
  BY <1>7 DEF LeftToRead
<1>8. CASE list = <<"row">>
  BY <1>8 DEF LeftToRead
<1> QED
  BY <1>1, <1>2, <1>3, <1>4, <1>5, <1>6, <1>7, <1>8 DEF LeftToRead

(* A handler reads the mempool, the index or the view. *)
LEMMA ReadStep ==
  ASSUME LoopInv, AnswersKept, NEW c \in Clients,
         Lookups!ReadPool(c) \/ Lookups!ReadRow(c) \/ Lookups!ReadView(c)
  PROVE  LoopInv' /\ AnswersKept'
<1>1. PICK l : l = lookup[c]
  OBVIOUS
<1>2. /\ l \in Lookup /\ ReadInv(l) /\ (l.late => confirmed /\ LateInv(l))
      /\ (confirmed => Has(view))
  BY <1>1 DEF AnswersKept
<1>3. l.todo \in LeftToRead /\ l.todo # <<>>
  BY <1>1, <1>2, LookupTypes DEF Lookups!ReadPool, Lookups!ReadRow, Lookups!ReadView
<1>4. Tail(l.todo) \in LeftToRead
  BY <1>3, ReadingOn
<1>5. view \in Seq(BOOLEAN) /\ txPending \in BOOLEAN /\ row \in Nat
  BY DEF LoopInv
<1>6. CASE Lookups!ReadPool(c)
  <2>1. PICK q : q = [l EXCEPT !.todo = Tail(l.todo)]
    OBVIOUS
  <2>2. Lookups!Decide(c, q, txPending) /\ Head(l.todo) = "pool"
    BY <1>1, <1>6, <2>1 DEF Lookups!ReadPool, Lookups!Rest
  <2>3. /\ q \in Lookup /\ q.chain = l.chain /\ q.height = l.height /\ q.late = l.late
        /\ q.answer = l.answer /\ q.todo = Tail(l.todo)
    BY <1>2, <1>4, <2>1 DEF Lookup
  <2>4. ReadInv(q)
    BY <1>2, <2>3 DEF ReadInv
  <2>5. Ready(q, txPending)
    <3> SUFFICES ASSUME q.late
                 PROVE  /\ confirmed /\ ~txPending /\ q.answer.said \in {"nothing yet", "confirmed"}
                        /\ q.todo # <<>> /\ LateInv(q)
      BY DEF Ready
    <3>1. confirmed /\ LateInv(l)
      BY <1>2, <2>3
    <3>2. ~txPending
      BY <1>2, <3>1 DEF LoopInv, Has
    <3>3. l.todo = <<"pool", "row", "view">>
      BY <1>3, <2>2, <3>1, ReadingOn DEF LateInv
    <3>4. q.todo = <<"row", "view">>
      BY <2>3, <3>3
    <3>5. q.answer.said \in {"nothing yet", "confirmed"}
      BY <2>3, <3>1 DEF LateInv
    <3>6. q.todo \notin {<<"pool">>, <<"view">>, <<"view", "pool">>, <<"row">>, <<>>}
      BY <3>4
    <3>7. q.todo # <<>> /\ LateInv(q)
      BY <3>5, <3>6, Zenon DEF LateInv
    <3> QED
      BY <3>1, <3>2, <3>5, <3>7
  <2> QED
    BY <1>5, <2>2, <2>3, <2>4, <2>5, Deciding
<1>7. CASE Lookups!ReadRow(c)
  <2>1. PICK q0 : q0 = [l EXCEPT !.todo = Tail(l.todo)]
    OBVIOUS
  <2>2. PICK q : q = [q0 EXCEPT !.height = row]
    OBVIOUS
  <2>3. Lookups!Decide(c, q, FALSE) /\ Head(l.todo) = "row"
    BY <1>1, <1>7, <2>1, <2>2 DEF Lookups!ReadRow, Lookups!Rest
  <2>4. /\ q0 \in Lookup /\ q0.chain = l.chain /\ q0.late = l.late
        /\ q0.answer = l.answer /\ q0.todo = Tail(l.todo)
    BY <1>2, <1>4, <2>1 DEF Lookup
  <2>5. /\ q \in Lookup /\ q.chain = l.chain /\ q.height = row /\ q.late = l.late
        /\ q.answer = l.answer /\ q.todo = Tail(l.todo)
    BY <1>5, <2>2, <2>4 DEF Lookup
  <2>6. ReadInv(q)
    BY <1>2, <2>5 DEF ReadInv
  <2>7. Ready(q, FALSE)
    <3> SUFFICES ASSUME q.late
                 PROVE  /\ confirmed /\ q.answer.said \in {"nothing yet", "confirmed"}
                        /\ \/ q.todo # <<>> /\ LateInv(q)
                           \/ q.todo \in {<<>>, <<"pool">>} /\ Lookups!FoundOn(q)
      BY DEF Ready
    <3>1. confirmed /\ LateInv(l)
      BY <1>2, <2>5
    <3>2. q.answer.said \in {"nothing yet", "confirmed"}
      BY <2>5, <3>1 DEF LateInv
    <3>3. row \in DOMAIN view /\ view[row]
      BY <1>2, <3>1 DEF LoopInv, Has
    <3>4. CASE l.todo = <<"row">>
      <4>1. q.todo = <<>>
        BY <2>5, <3>4
      <4>2. Has(l.chain)
        BY <3>1, <3>4 DEF LateInv
      <4>3. PICK h \in DOMAIN l.chain : l.chain[h]
        BY <4>2 DEF Has
      <4>4. h \in DOMAIN view /\ view[h]
        BY <1>2, <1>5, <4>3, LookupTypes DEF ReadInv
      <4>5. h = row
        BY <4>4 DEF LoopInv
      <4>6. Lookups!FoundOn(q)
        BY <2>5, <4>3, <4>5 DEF Lookups!FoundOn
      <4> QED
        BY <3>1, <3>2, <4>1, <4>6
    <3>5. CASE l.todo # <<"row">>
      <4>1. q.todo = <<"view">> \/ q.todo = <<"view", "pool">>
        BY <1>3, <2>3, <2>5, <3>5, ReadingOn
      <4>3. q.todo \notin {<<"pool">>, <<"row">>, <<>>}
        BY <4>1
      <4>4. q.height = row
        BY <2>5
      <4>2. LateInv(q) /\ q.todo # <<>>
        BY <3>2, <3>3, <4>3, <4>4, Zenon DEF LateInv
      <4> QED
        BY <3>1, <3>2, <4>2
    <3> QED
      BY <3>4, <3>5
  <2> QED
    BY <2>3, <2>5, <2>6, <2>7, Deciding
<1>8. CASE Lookups!ReadView(c)
  <2>1. PICK q0 : q0 = [l EXCEPT !.todo = Tail(l.todo)]
    OBVIOUS
  <2>2. PICK q : q = [q0 EXCEPT !.chain = view]
    OBVIOUS
  <2>3. Lookups!Decide(c, q, FALSE) /\ Head(l.todo) = "view"
    BY <1>1, <1>8, <2>1, <2>2 DEF Lookups!ReadView, Lookups!Rest
  <2>4. /\ q0 \in Lookup /\ q0.height = l.height /\ q0.late = l.late
        /\ q0.answer = l.answer /\ q0.todo = Tail(l.todo)
    BY <1>2, <1>4, <2>1 DEF Lookup
  <2>5. /\ q \in Lookup /\ q.chain = view /\ q.height = l.height /\ q.late = l.late
        /\ q.answer = l.answer /\ q.todo = Tail(l.todo)
    BY <1>5, <2>2, <2>4 DEF Lookup
  <2>6. ReadInv(q)
    BY <1>5, <2>5 DEF ReadInv
  <2>7. Ready(q, FALSE)
    <3> SUFFICES ASSUME q.late
                 PROVE  /\ confirmed /\ q.answer.said \in {"nothing yet", "confirmed"}
                        /\ \/ q.todo # <<>> /\ LateInv(q)
                           \/ q.todo \in {<<>>, <<"pool">>} /\ Lookups!FoundOn(q)
      BY DEF Ready
    <3>1. confirmed /\ LateInv(l)
      BY <1>2, <2>5
    <3>2. q.answer.said \in {"nothing yet", "confirmed"}
      BY <2>5, <3>1 DEF LateInv
    <3>3. CASE l.todo = <<"view", "row">>
      <4>1. q.todo = <<"row">>
        BY <2>5, <3>3
      <4>2. Has(q.chain)
        BY <1>2, <2>5, <3>1
      <4>3. q.todo \notin {<<"pool">>, <<"view">>, <<"view", "pool">>, <<>>}
        BY <4>1
      <4>4. LateInv(q) /\ q.todo # <<>>
        BY <3>2, <4>2, <4>3, Zenon DEF LateInv
      <4> QED
        BY <3>1, <3>2, <4>4
    <3>4. CASE l.todo = <<"view", "pool">> \/ l.todo = <<"view">>
      <4>1. l.height \in DOMAIN view /\ view[l.height]
        BY <3>1, <3>4 DEF LateInv
      <4>2. Lookups!FoundOn(q)
        BY <2>5, <4>1 DEF Lookups!FoundOn
      <4>3. q.todo = <<>> \/ q.todo = <<"pool">>
        <5>1. CASE l.todo = <<"view", "pool">>
          BY <2>5, <5>1
        <5>2. CASE l.todo = <<"view">>
          BY <2>5, <5>2
        <5> QED
          BY <3>4, <5>1, <5>2
      <4> QED
        BY <3>1, <3>2, <4>2, <4>3
    <3> QED
      BY <1>3, <2>3, <3>3, <3>4, ReadingOn
  <2> QED
    BY <2>3, <2>5, <2>6, <2>7, Deciding
<1> QED
  BY <1>6, <1>7, <1>8

(* Once told that it is confirmed, always told so, whatever the number of  *)
(* clients, blocks and lookups: the handlers of api.py read the mempool,   *)
(* the index and the view at different moments, but the loop shows a       *)
(* commit in the view last (node.py: _commit).                             *)
THEOREM ConfirmedIsKept == Lookups!Spec => []ConfirmedStaysConfirmed
<1>1. Lookups!Init => LookupsInv
  <2> SUFFICES ASSUME Lookups!Init PROVE LookupsInv
    OBVIOUS
  <2> USE DEF Lookups!Init
  <2>1. LoopInv
    <3>1. DOMAIN chain = {} /\ DOMAIN view = {} /\ Len(chain) = 0 /\ Len(view) = 0
      OBVIOUS
    <3>2. chain \in Seq(BOOLEAN) /\ view \in Seq(BOOLEAN)
      OBVIOUS
    <3> QED
      BY <3>1, <3>2 DEF LoopInv, Has
  <2>2. AnswersKept
    <3>1. ASSUME NEW c \in Clients
          PROVE  lookup[c] \in Lookup /\ ReadInv(lookup[c]) /\ ~lookup[c].late
      <4>1. <<>> \in LeftToRead
        BY DEF LeftToRead
      <4>2. lookup[c] = Lookups!Idle
        OBVIOUS
      <4>3. lookup[c].chain = <<>> /\ ~lookup[c].late
        BY <4>2 DEF Lookups!Idle
      <4>4. Lookups!None \in [said : {"nothing yet", "pending", "confirmed", "not found"},
                              confirmations : Int]
        BY DEF Lookups!None
      <4>5. <<>> \in Seq(BOOLEAN)
        OBVIOUS
      <4>6. Lookups!Idle \in Lookup
        BY <4>1, <4>4, <4>5 DEF Lookup, Lookups!Idle
      <4>7. DOMAIN lookup[c].chain = {} /\ Len(lookup[c].chain) = 0 /\ Len(view) = 0
        BY <4>3
      <4> QED
        BY <4>2, <4>3, <4>6, <4>7 DEF ReadInv
    <3> QED
      BY <3>1 DEF AnswersKept, Lookups!Idle
  <2> QED
    BY <2>1, <2>2 DEF LookupsInv
<1>2. LookupsInv /\ [Lookups!Next]_(Lookups!vars) => LookupsInv'
  <2> SUFFICES ASSUME LookupsInv, [Lookups!Next]_(Lookups!vars) PROVE LookupsInv'
    OBVIOUS
  <2>1. CASE UNCHANGED Lookups!vars
    BY <2>1 DEF Lookups!vars, LookupsInv, LoopInv, AnswersKept, ReadInv, LateInv, Has
  <2>2. ASSUME NEW new \in Lookups!Blocks, Lookups!Reorganise(new)
        PROVE  LookupsInv'
    BY <2>2 DEF Lookups!Reorganise, LookupsInv
  <2>3. ASSUME ~\E new \in Lookups!Blocks : Lookups!Reorganise(new), Lookups!Next
        PROVE  LookupsInv'
    <3>1. UNCHANGED reorgs
      BY <2>3 DEF Lookups!Next, Lookups!Submit, Lookups!Commit, Lookups!Save, Lookups!RemoveMany,
        Lookups!Publish, Lookups!Swap, Lookups!Show, Lookups!Readd, Lookups!Do, Lookups!Ask,
        Lookups!ReadPool, Lookups!ReadRow, Lookups!ReadView, Lookups!Decide, Lookups!Return,
        Lookups!node
    <3>2. LoopInv /\ AnswersKept => LoopInv' /\ AnswersKept'
      BY <2>3, LoopStep, AskStep, ReadStep DEF Lookups!Next
    <3> QED
      BY <3>1, <3>2 DEF LookupsInv
  <2> QED
    BY <2>1, <2>2, <2>3 DEF Lookups!Next
<1>3. LookupsInv => ConfirmedStaysConfirmed
  BY DEF LookupsInv, AnswersKept, LateInv, ConfirmedStaysConfirmed,
         Lookups!ConfirmedStaysConfirmed, Lookups!Said
<1> QED
  BY <1>1, <1>2, <1>3, PTL DEF Lookups!Spec

-----------------------------------------------------------------------------
(* Payouts: the budget and what was paid of it. *)

Payments == Rewarder!Ids

(* The payouts that hold ticks of the budget, the one being debited too.   *)
Taken(p) == p \in Rewarder!InCirculation \/ (cycle = "accepted" /\ p = sent)

(* What each payout holds. *)
Holds == [p \in Payments |-> IF Taken(p) THEN payouts[p].amount ELSE 0]

(* Where payout and budget are at each step of a cycle. *)
CycleInv ==
  /\ left \in Nat /\ granted \in Int /\ page \subseteq Nat
  /\ cycle \in {"asleep", "found", "settled", "sending", "accepted"}
  /\ sent \in 0..MaxPayouts /\ pending \in 0..sent /\ reorged = {}
  /\ payouts \in [Payments -> [amount : Nat,
                               at : {"unsent", "queued", "pool", "away", "chain", "gone"}]]
  /\ \A p \in Payments : payouts[p].at = "unsent" <=> p > sent
  /\ \A p \in Payments : payouts[p].at = "queued" <=> cycle = "sending" /\ p = sent
  /\ \A p \in Payments : payouts[p].at \in {"pool", "away"} =>
                           p = pending \/ (cycle = "accepted" /\ p = sent)
  /\ cycle = "found" =>
       /\ pending # 0 /\ payouts[pending].at \in {"chain", "gone"}
       /\ seen = IF payouts[pending].at = "chain" THEN 0 ELSE payouts[pending].amount
  /\ cycle \in {"settled", "sending", "accepted"} => pending = 0
  /\ cycle \in {"sending", "accepted"} =>
       sent # 0 /\ seen = left /\ payouts[sent].amount <= left

(* Without trouble no tick is lost at any step: what is left and what the  *)
(* payouts hold is what was granted; between the answer and the debit the  *)
(* payout is counted on both sides.                                        *)
BooksInv ==
  faults = {} =>
    /\ CycleInv
    /\ left + Total(Holds) = granted + (IF cycle = "accepted" THEN payouts[sent].amount ELSE 0)

(* Two functions that differ at one point differ in total by what they     *)
(* differ there.                                                           *)
LEMMA TotalMove ==
  ASSUME NEW S, IsFiniteSet(S), NEW f \in [S -> Nat], NEW h \in [S -> Nat], NEW x \in S,
         \A y \in S : y # x => h[y] = f[y]
  PROVE  /\ Total(f) \in Nat /\ Total(h) \in Nat
         /\ Total(h) + f[x] = Total(f) + h[x]
<1>1. Total(f) \in Nat /\ Total(h) \in Nat
  BY UnitsFinite
<1>2. CASE f[x] <= h[x]
  <2>1. h[x] - f[x] \in Nat /\ h[x] = f[x] + (h[x] - f[x])
    BY <1>2
  <2>2. Total(h) = Total(f) + (h[x] - f[x])
    BY <2>1, TotalOneChange
  <2> QED
    BY <1>1, <2>1, <2>2
<1>3. CASE h[x] <= f[x]
  <2>1. f[x] - h[x] \in Nat /\ f[x] = h[x] + (f[x] - h[x])
    BY <1>3
  <2>2. Total(f) = Total(h) + (f[x] - h[x])
    BY <2>1, TotalOneChange
  <2> QED
    BY <1>1, <2>1, <2>2
<1> QED
  BY <1>2, <1>3

(* What the payouts hold is counted as the property counts it.             *)
LEMMA HoldsInCirculation ==
  ASSUME CycleInv, cycle = "asleep", MaxPayouts \in Nat
  PROVE  Rewarder!Total([p \in Rewarder!InCirculation |-> payouts[p].amount]) = Total(Holds)
<1> DEFINE f == [p \in Rewarder!InCirculation |-> payouts[p].amount]
<1>1. \A g : Rewarder!Total(g) = Total(g)
  <2>1. \A S : Rewarder!Cardinality(S) = Cardinality(S)
    BY DEF Rewarder!Cardinality, Cardinality
  <2> QED
    BY <2>1 DEF Rewarder!Total, Total, Rewarder!Units, Units
<1>2. Rewarder!InCirculation \subseteq Payments
  BY DEF Rewarder!InCirculation, Payments
<1>3. \A p \in Rewarder!InCirculation : Holds[p] = f[p]
  BY <1>2 DEF Holds, Taken
<1>4. \A p \in Payments \ Rewarder!InCirculation : Holds[p] = 0
  BY DEF Holds, Taken
<1>5. DOMAIN f = Rewarder!InCirculation /\ DOMAIN Holds = Payments
  BY DEF Holds
<1> HIDE DEF f
<1>6. \A x : x \in Units(f) <=> x \in Units(Holds)
  <2>1. ASSUME NEW x \in Units(f)
        PROVE  x \in Units(Holds)
    <3>1. PICK p \in DOMAIN f : x \in {p} \X (1..f[p])
      BY DEF Units
    <3>2. p \in DOMAIN Holds /\ Holds[p] = f[p]
      BY <1>2, <1>3, <1>5
    <3> QED
      BY <3>1, <3>2 DEF Units
  <2>2. ASSUME NEW x \in Units(Holds)
        PROVE  x \in Units(f)
    <3>1. PICK p \in DOMAIN Holds : x \in {p} \X (1..Holds[p])
      BY DEF Units
    <3>2. Holds[p] # 0
      <4> SUFFICES ASSUME Holds[p] = 0 PROVE FALSE
        OBVIOUS
      <4>1. 1..Holds[p] = {}
        OBVIOUS
      <4> QED
        BY <3>1, <4>1
    <3>3. p \in DOMAIN f /\ Holds[p] = f[p]
      BY <1>3, <1>4, <1>5, <3>2
    <3> QED
      BY <3>1, <3>3 DEF Units
  <2> QED
    BY <2>1, <2>2
<1>7. Units(f) = Units(Holds)
  BY <1>6
<1> QED
  BY <1>1, <1>7 DEF Total, f

(* A payout that no longer holds anything, or begins to.                   *)
LEMMA HoldsChange ==
  ASSUME MaxPayouts \in Nat, CycleInv, CycleInv', NEW x \in Payments,
         \A p \in Payments : p # x => Holds'[p] = Holds[p]
  PROVE  /\ Total(Holds) \in Nat /\ Total(Holds)' \in Nat
         /\ Total(Holds)' + Holds[x] = Total(Holds) + Holds'[x]
<1>1. IsFiniteSet(Payments)
  BY FS_Interval DEF Payments, Rewarder!Ids
<1>2. Holds \in [Payments -> Nat] /\ Holds' \in [Payments -> Nat]
  BY DEF Holds, CycleInv
<1>3. Total(Holds)' = Total(Holds')
  BY DEF Total, Units
<1> QED
  BY <1>1, <1>2, <1>3, TotalMove

(* Payouts that hold what they held. *)
LEMMA HoldsStay ==
  ASSUME \A p \in Payments : Holds'[p] = Holds[p]
  PROVE  Total(Holds)' = Total(Holds)
<1>1. Holds' = Holds
  BY DEF Holds
<1> QED
  BY <1>1 DEF Total, Units

(* run_once looks the last payout up, refunds it or not, and may rest.     *)
LEMMA SettlingStep ==
  ASSUME Rewarder!PayoutsAssumption, BooksInv, faults' = {},
         Rewarder!FindPending \/ Rewarder!Settle \/ Rewarder!NothingToSend
  PROVE  BooksInv'
<1> USE DEF Payments, Rewarder!Ids
<1>1. MaxPayouts \in Nat
  BY DEF Rewarder!PayoutsAssumption
<1>2. faults = {} /\ UNCHANGED <<payouts, sent, page, granted, reorged>>
  BY DEF Rewarder!FindPending, Rewarder!Settle, Rewarder!NothingToSend, Rewarder!network,
         Rewarder!web
<1>3. /\ CycleInv
      /\ left + Total(Holds) = granted + (IF cycle = "accepted" THEN payouts[sent].amount ELSE 0)
  BY <1>2 DEF BooksInv
<1>4. CASE Rewarder!FindPending
  <2>1. /\ cycle = "asleep" /\ pending # 0 /\ Rewarder!HourIsOver /\ cycle' = "found"
        /\ seen' = IF payouts[pending].at \in {"pool", "chain"} THEN 0
                                                                 ELSE payouts[pending].amount
        /\ UNCHANGED <<left, pending>>
    BY <1>4 DEF Rewarder!FindPending, Rewarder!At
  <2>2. pending \in Payments
    BY <1>1, <1>3, <2>1 DEF CycleInv
  <2>3. payouts[pending].at \in {"chain", "gone"}
    <3>1. payouts[pending].at \notin {"queued", "pool", "away"}
      BY <1>3, <2>1, <2>2 DEF Rewarder!HourIsOver, Rewarder!At, CycleInv
    <3>2. payouts[pending].at # "unsent"
      BY <1>1, <1>3, <2>2 DEF CycleInv
    <3> QED
      BY <1>3, <2>2, <3>1, <3>2 DEF CycleInv
  <2>4. CycleInv'
    BY <1>2, <1>3, <2>1, <2>3 DEF CycleInv
  <2>5. \A p \in Payments : Holds'[p] = Holds[p]
    BY <1>2, <2>1 DEF Holds, Taken, Rewarder!InCirculation, Rewarder!At
  <2> QED
    BY <1>2, <1>3, <2>1, <2>4, <2>5, HoldsStay DEF BooksInv
<1>5. CASE Rewarder!Settle
  <2>1. cycle = "found" /\ cycle' = "settled" /\ left' = left + seen /\ pending' = 0 /\ seen' = 0
    BY <1>5 DEF Rewarder!Settle
  <2>2. /\ pending \in Payments /\ payouts[pending].at \in {"chain", "gone"}
        /\ payouts[pending].amount \in Nat
        /\ seen = IF payouts[pending].at = "chain" THEN 0 ELSE payouts[pending].amount
    BY <1>1, <1>3, <2>1 DEF CycleInv
  <2>3. CycleInv'
    BY <1>2, <1>3, <2>1, <2>2 DEF CycleInv
  <2>4. \A p \in Payments : p # pending => Holds'[p] = Holds[p]
    BY <1>2, <2>1 DEF Holds, Taken, Rewarder!InCirculation, Rewarder!At
  <2>5. /\ Holds[pending] = payouts[pending].amount
        /\ Holds'[pending] = payouts[pending].amount - seen
    BY <1>1, <1>2, <2>1, <2>2 DEF Holds, Taken, Rewarder!InCirculation, Rewarder!At
  <2>6. /\ Total(Holds) \in Nat /\ Total(Holds)' \in Nat
        /\ Total(Holds)' + Holds[pending] = Total(Holds) + Holds'[pending]
    BY <1>1, <1>3, <2>2, <2>3, <2>4, HoldsChange
  <2>7. left \in Nat /\ granted \in Int /\ seen \in Nat
    BY <1>3, <2>2 DEF CycleInv
  <2>8. left' + Total(Holds)' = granted'
    BY <1>2, <1>3, <2>1, <2>2, <2>5, <2>6, <2>7
  <2>9. granted' + 0 = granted' /\ cycle' # "accepted"
    BY <1>2, <2>1, <2>7
  <2> QED
    BY <2>3, <2>8, <2>9 DEF BooksInv
<1>6. CASE Rewarder!NothingToSend
  <2>1. cycle = "settled" /\ cycle' = "asleep" /\ UNCHANGED <<left, pending, seen>>
    BY <1>6 DEF Rewarder!NothingToSend
  <2>2. CycleInv'
    BY <1>2, <1>3, <2>1 DEF CycleInv
  <2>3. \A p \in Payments : Holds'[p] = Holds[p]
    BY <1>2, <2>1 DEF Holds, Taken, Rewarder!InCirculation, Rewarder!At
  <2> QED
    BY <1>2, <1>3, <2>1, <2>2, <2>3, HoldsStay DEF BooksInv
<1> QED
  BY <1>4, <1>5, <1>6

(* The next payout is signed and submitted, and the budget debited.        *)
LEMMA PayingStep ==
  ASSUME Rewarder!PayoutsAssumption, BooksInv, faults' = {},
         \/ \E amount \in 1..MaxBudget : Rewarder!Send(amount)
         \/ Rewarder!Accepted \/ Rewarder!Rejected \/ Rewarder!Unanswered
         \/ Rewarder!AcceptedLate \/ Rewarder!Debit
  PROVE  BooksInv'
<1> USE DEF Payments, Rewarder!Ids
<1>1. MaxPayouts \in Nat /\ MaxBudget \in Nat
  BY DEF Rewarder!PayoutsAssumption
<1>2. faults = {} /\ UNCHANGED <<page, granted, reorged>>
  BY DEF Rewarder!Send, Rewarder!Accepted, Rewarder!Rejected, Rewarder!Unanswered,
         Rewarder!AcceptedLate, Rewarder!Debit, Rewarder!network, Rewarder!web
<1>3. /\ CycleInv
      /\ left + Total(Holds) = granted + (IF cycle = "accepted" THEN payouts[sent].amount ELSE 0)
  BY <1>2 DEF BooksInv
<1>4. left \in Nat /\ granted \in Int /\ sent \in 0..MaxPayouts
  BY <1>3 DEF CycleInv
<1>5. ASSUME NEW amount \in 1..MaxBudget, Rewarder!Send(amount)
      PROVE  BooksInv'
  <2>1. /\ cycle = "settled" \/ (cycle = "asleep" /\ pending = 0)
        /\ amount \in 1..left /\ sent < MaxPayouts
        /\ sent' = sent + 1 /\ seen' = left /\ cycle' = "sending"
        /\ payouts' = [payouts EXCEPT ![sent + 1] = [amount |-> amount, at |-> "queued"]]
        /\ UNCHANGED <<left, pending>>
    BY <1>5 DEF Rewarder!Send
  <2>2. pending = 0
    BY <1>3, <2>1 DEF CycleInv
  <2>3. /\ sent + 1 \in Payments /\ payouts[sent + 1].at = "unsent"
        /\ payouts \in [Payments -> [amount : Nat,
                                     at : {"unsent", "queued", "pool", "away", "chain", "gone"}]]
    BY <1>1, <1>3, <1>4, <2>1 DEF CycleInv
  <2>4. /\ payouts'[sent + 1] = [amount |-> amount, at |-> "queued"]
        /\ \A p \in Payments : p # sent + 1 => payouts'[p] = payouts[p]
    BY <2>1, <2>3
  <2>5. CycleInv'
    <3>1. payouts' \in [Payments -> [amount : Nat,
                               at : {"unsent", "queued", "pool", "away", "chain", "gone"}]]
      BY <1>1, <2>1, <2>3
    <3>2. \A p \in Payments : payouts'[p].at = "unsent" <=> p > sent'
      BY <1>3, <1>4, <2>1, <2>3, <2>4 DEF CycleInv
    <3>3. \A p \in Payments : payouts'[p].at = "queued" <=> cycle' = "sending" /\ p = sent'
      BY <1>3, <1>4, <2>1, <2>3, <2>4 DEF CycleInv
    <3>4. \A p \in Payments : payouts'[p].at \notin {"pool", "away"}
      BY <1>3, <1>4, <2>1, <2>2, <2>3, <2>4 DEF CycleInv
    <3>5. sent' # 0 /\ payouts'[sent'].amount <= left'
      BY <1>1, <1>4, <2>1, <2>3, <2>4
    <3> QED
      BY <1>1, <1>2, <1>3, <1>4, <2>1, <2>2, <2>3, <3>1, <3>2, <3>3, <3>4, <3>5 DEF CycleInv
  <2>6. \A p \in Payments : Holds'[p] = Holds[p]
    BY <1>4, <2>1, <2>2, <2>3, <2>4 DEF Holds, Taken, Rewarder!InCirculation, Rewarder!At
  <2> QED
    BY <1>2, <1>3, <2>1, <2>5, <2>6, HoldsStay DEF BooksInv
<1>6. CASE Rewarder!Accepted
  <2>1. /\ cycle = "sending" /\ cycle' = "accepted"
        /\ payouts' = [payouts EXCEPT ![sent].at = "pool"]
        /\ UNCHANGED <<left, pending, seen, sent>>
    BY <1>6 DEF Rewarder!Accepted
  <2>2. /\ sent \in Payments /\ payouts[sent].at = "queued" /\ payouts[sent].amount \in Nat
        /\ payouts'[sent].at = "pool" /\ payouts'[sent].amount = payouts[sent].amount
        /\ \A p \in Payments : p # sent => payouts'[p] = payouts[p]
        /\ pending = 0
    BY <1>1, <1>3, <1>4, <2>1 DEF CycleInv
  <2>3. CycleInv'
    <3>1. payouts' \in [Payments -> [amount : Nat,
                               at : {"unsent", "queued", "pool", "away", "chain", "gone"}]]
      BY <1>3, <2>1, <2>2 DEF CycleInv
    <3>2. \A p \in Payments : payouts'[p].at = "unsent" <=> p > sent'
      BY <1>3, <1>4, <2>1, <2>2 DEF CycleInv
    <3>3. \A p \in Payments : payouts'[p].at # "queued"
      BY <1>3, <2>1, <2>2 DEF CycleInv
    <3>4. \A p \in Payments : payouts'[p].at \in {"pool", "away"} => p = sent'
      BY <1>3, <2>1, <2>2 DEF CycleInv
    <3> QED
      BY <1>2, <1>3, <2>1, <2>2, <3>1, <3>2, <3>3, <3>4 DEF CycleInv
  <2>4. \A p \in Payments : p # sent => Holds'[p] = Holds[p]
    BY <1>4, <2>1, <2>2 DEF Holds, Taken, Rewarder!InCirculation, Rewarder!At
  <2>5. Holds[sent] = 0 /\ Holds'[sent] = payouts[sent].amount
    BY <1>4, <2>1, <2>2 DEF Holds, Taken, Rewarder!InCirculation, Rewarder!At
  <2>6. /\ Total(Holds) \in Nat /\ Total(Holds)' \in Nat
        /\ Total(Holds)' + Holds[sent] = Total(Holds) + Holds'[sent]
    BY <1>1, <1>3, <2>2, <2>3, <2>4, HoldsChange
  <2>7. left' + Total(Holds)' = granted' + payouts'[sent'].amount
    BY <1>2, <1>3, <1>4, <2>1, <2>2, <2>5, <2>6
  <2> QED
    BY <2>1, <2>3, <2>7 DEF BooksInv
<1>7. CASE Rewarder!Rejected
  <2>1. /\ cycle = "sending" /\ cycle' = "asleep" /\ seen' = 0
        /\ payouts' = [payouts EXCEPT ![sent].at = "gone"]
        /\ UNCHANGED <<left, pending, sent>>
    BY <1>7 DEF Rewarder!Rejected
  <2>2. /\ sent \in Payments /\ payouts[sent].at = "queued" /\ payouts[sent].amount \in Nat
        /\ payouts'[sent].at = "gone" /\ payouts'[sent].amount = payouts[sent].amount
        /\ \A p \in Payments : p # sent => payouts'[p] = payouts[p]
        /\ pending = 0
    BY <1>1, <1>3, <1>4, <2>1 DEF CycleInv
  <2>3. CycleInv'
    <3>1. payouts' \in [Payments -> [amount : Nat,
                               at : {"unsent", "queued", "pool", "away", "chain", "gone"}]]
      BY <1>3, <2>1, <2>2 DEF CycleInv
    <3>2. \A p \in Payments : payouts'[p].at = "unsent" <=> p > sent'
      BY <1>3, <1>4, <2>1, <2>2 DEF CycleInv
    <3>3. \A p \in Payments : payouts'[p].at \notin {"queued", "pool", "away"}
      BY <1>3, <2>1, <2>2 DEF CycleInv
    <3> QED
      BY <1>2, <1>3, <2>1, <2>2, <3>1, <3>2, <3>3 DEF CycleInv
  <2>4. \A p \in Payments : Holds'[p] = Holds[p]
    BY <1>4, <2>1, <2>2 DEF Holds, Taken, Rewarder!InCirculation, Rewarder!At
  <2> QED
    BY <1>2, <1>3, <2>1, <2>3, <2>4, HoldsStay DEF BooksInv
<1>8. CASE Rewarder!Unanswered
  BY <1>2, <1>8 DEF Rewarder!Unanswered
<1>9. CASE Rewarder!AcceptedLate
  <2>1. cycle = "asleep" /\ sent > 0 /\ payouts[sent].at = "queued"
    BY <1>9 DEF Rewarder!AcceptedLate, Rewarder!At
  <2> QED
    BY <1>1, <1>3, <1>4, <2>1 DEF CycleInv
<1>10. CASE Rewarder!Debit
  <2>1. /\ cycle = "accepted" /\ cycle' = "asleep" /\ left' = seen - payouts[sent].amount
        /\ pending' = sent /\ seen' = 0 /\ UNCHANGED <<sent, payouts>>
    BY <1>10 DEF Rewarder!Debit, Rewarder!network
  <2>2. /\ sent \in Payments /\ payouts[sent].amount \in Nat /\ payouts[sent].amount <= left
        /\ seen = left /\ pending = 0
    BY <1>1, <1>3, <1>4, <2>1 DEF CycleInv
  <2>3. left' = left - payouts[sent].amount /\ left' \in Nat
    BY <1>4, <2>1, <2>2
  <2>4. CycleInv'
    BY <1>2, <1>3, <1>4, <2>1, <2>2, <2>3 DEF CycleInv
  <2>5. \A p \in Payments : Holds'[p] = Holds[p]
    BY <1>4, <2>1, <2>2 DEF Holds, Taken, Rewarder!InCirculation, Rewarder!At
  <2>6. Total(Holds)' = Total(Holds) /\ Total(Holds) \in Int
    <3>1. IsFiniteSet(Payments) /\ Holds \in [Payments -> Nat]
      BY <1>1, <1>3, FS_Interval DEF Holds, CycleInv
    <3>2. Total(Holds) \in Nat
      BY <3>1, UnitsFinite
    <3>3. Total(Holds)' = Total(Holds)
      BY <2>5, HoldsStay
    <3> QED
      BY <3>2, <3>3
  <2>7. left' + Total(Holds)' = granted' + 0
    BY <1>2, <1>3, <1>4, <2>1, <2>2, <2>3, <2>6
  <2> QED
    BY <2>1, <2>4, <2>7 DEF BooksInv
<1> QED
  BY <1>5, <1>6, <1>7, <1>8, <1>9, <1>10

(* The page changes the budget, the process restarts, the network moves.   *)
LEMMA OutsideStep ==
  ASSUME Rewarder!PayoutsAssumption, BooksInv, faults' = {},
         \/ Rewarder!ShowBudget \/ \E new \in 0..MaxBudget : Rewarder!EditBudget(new)
         \/ Rewarder!Restart
         \/ \E p \in Payments : Rewarder!Move(p) \/ Rewarder!Reorganise(p)
  PROVE  BooksInv'
<1> USE DEF Payments, Rewarder!Ids
<1>1. MaxPayouts \in Nat /\ MaxBudget \in Nat
  BY DEF Rewarder!PayoutsAssumption
<1>2. faults = {} /\ UNCHANGED <<pending, sent>>
  BY DEF Rewarder!ShowBudget, Rewarder!EditBudget, Rewarder!Restart, Rewarder!Move,
         Rewarder!Reorganise, Rewarder!network, Rewarder!web
<1>3. /\ CycleInv
      /\ left + Total(Holds) = granted + (IF cycle = "accepted" THEN payouts[sent].amount ELSE 0)
  BY <1>2 DEF BooksInv
<1>4. /\ left \in Nat /\ granted \in Int /\ sent \in 0..MaxPayouts /\ page \subseteq Nat
      /\ reorged = {}
      /\ payouts \in [Payments -> [amount : Nat,
                                   at : {"unsent", "queued", "pool", "away", "chain", "gone"}]]
  BY <1>3 DEF CycleInv
<1>5. Total(Holds) \in Int
  <2>1. IsFiniteSet(Payments) /\ Holds \in [Payments -> Nat]
    BY <1>1, <1>4, FS_Interval DEF Holds
  <2>2. Total(Holds) \in Nat
    BY <2>1, UnitsFinite
  <2> QED
    BY <2>2
<1>6. CASE Rewarder!ShowBudget
  <2>1. page' = {left} /\ UNCHANGED <<left, cycle, seen, granted, payouts, reorged>>
    BY <1>6 DEF Rewarder!ShowBudget, Rewarder!network
  <2>2. CycleInv'
    BY <1>2, <1>3, <2>1 DEF CycleInv
  <2>3. \A p \in Payments : Holds'[p] = Holds[p]
    BY <1>2, <2>1 DEF Holds, Taken, Rewarder!InCirculation, Rewarder!At
  <2> QED
    BY <1>2, <1>3, <2>1, <2>2, <2>3, HoldsStay DEF BooksInv
<1>7. ASSUME NEW new \in 0..MaxBudget, Rewarder!EditBudget(new)
      PROVE  BooksInv'
  <2>1. PICK read \in page : left' = Rewarder!Adjusted(new, read)
    BY <1>7 DEF Rewarder!EditBudget
  <2>2. /\ granted' = granted + left' - left /\ page' = {}
        /\ UNCHANGED <<cycle, seen, payouts, reorged>>
    BY <1>7 DEF Rewarder!EditBudget
  <2>3. cycle \notin {"sending", "accepted"}
    BY <1>7 DEF Rewarder!EditBudget
  <2>4. left' \in Nat
    BY <1>1, <1>4, <2>1 DEF Rewarder!Adjusted
  <2>5. granted' \in Int
    BY <1>4, <2>2, <2>4
  <2>6. CycleInv'
    BY <1>2, <1>3, <2>2, <2>3, <2>4, <2>5 DEF CycleInv
  <2>7. \A p \in Payments : Holds'[p] = Holds[p]
    BY <1>2, <2>2 DEF Holds, Taken, Rewarder!InCirculation, Rewarder!At
  <2>8. Total(Holds)' = Total(Holds)
    BY <2>7, HoldsStay
  <2>9. left' + Total(Holds)' = granted' + 0
    BY <1>3, <1>4, <1>5, <2>2, <2>3, <2>4, <2>8
  <2> QED
    BY <2>2, <2>3, <2>6, <2>9 DEF BooksInv
<1>8. CASE Rewarder!Restart
  <2>1. /\ cycle \notin {"sending", "accepted"} /\ cycle' = "asleep" /\ seen' = 0 /\ page' = {}
        /\ UNCHANGED <<left, granted, reorged>>
    BY <1>8 DEF Rewarder!Restart
  <2>2. /\ payouts' = [p \in Payments |-> [payouts[p] EXCEPT !.at =
                         CASE @ = "pool" -> "away" [] @ = "queued" -> "gone" [] OTHER -> @]]
    BY <1>8 DEF Rewarder!Restart
  <2>3. \A p \in Payments :
          /\ payouts[p].at # "queued"
          /\ payouts'[p] = [amount |-> payouts[p].amount,
                            at |-> IF payouts[p].at = "pool" THEN "away" ELSE payouts[p].at]
    <3>1. \A p \in Payments : payouts[p].at # "queued"
      BY <1>3, <2>1 DEF CycleInv
    <3>2. ASSUME NEW p \in Payments
          PROVE  payouts'[p] = [amount |-> payouts[p].amount,
                                at |-> IF payouts[p].at = "pool" THEN "away" ELSE payouts[p].at]
      <4>1. payouts[p] \in [amount : Nat, at : {"unsent", "queued", "pool", "away", "chain",
                                                "gone"}]
        BY <1>4
      <4> QED
        BY <2>2, <3>1, <4>1
    <3> QED
      BY <3>1, <3>2
  <2>4. payouts' \in [Payments -> [amount : Nat,
                               at : {"unsent", "queued", "pool", "away", "chain", "gone"}]]
    BY <1>4, <2>2, <2>3
  <2>5. CycleInv'
    BY <1>2, <1>3, <2>1, <2>3, <2>4 DEF CycleInv
  <2>6. \A p \in Payments : Holds'[p] = Holds[p]
    <3> SUFFICES ASSUME NEW p \in Payments
                 PROVE  Holds'[p] = Holds[p]
      OBVIOUS
    <3> DEFINE d == payouts'[p]
               w == IF payouts[p].at = "pool" THEN "away" ELSE payouts[p].at
    <3>0. d = [amount |-> payouts[p].amount, at |-> w]
      BY <2>3, Zenon
    <3> HIDE DEF d, w
    <3>4. d.amount = payouts[p].amount /\ d.at = w
      BY <3>0
    <3>1. payouts'[p].amount = payouts[p].amount
      BY <3>4 DEF d
    <3>2. payouts'[p].at \in {"pool", "away", "chain"}
            <=> payouts[p].at \in {"pool", "away", "chain"}
      BY <3>4 DEF d, w
    <3>3. Taken(p)' <=> Taken(p)
      BY <1>2, <2>1, <3>2 DEF Taken, Rewarder!InCirculation, Rewarder!At
    <3> QED
      BY <3>1, <3>3 DEF Holds
  <2>7. Total(Holds)' = Total(Holds)
    BY <2>6, HoldsStay
  <2> QED
    BY <1>3, <2>1, <2>5, <2>7 DEF BooksInv
<1>9. ASSUME NEW p \in Payments, Rewarder!Move(p)
      PROVE  BooksInv'
  <2>1. PICK where \in {"chain", "gone", "away"} : payouts' = [payouts EXCEPT ![p].at = where]
    BY <1>9 DEF Rewarder!Move
  <2>2. /\ payouts[p].at \in {"pool", "away"}
        /\ UNCHANGED <<left, granted, page, cycle, seen, reorged>>
    BY <1>9 DEF Rewarder!Move, Rewarder!At, Rewarder!web
  <2>3. /\ payouts'[p] = [amount |-> payouts[p].amount, at |-> where]
        /\ \A q \in Payments : q # p => payouts'[q] = payouts[q]
    BY <1>4, <2>1
  <2>4. p = pending \/ (cycle = "accepted" /\ p = sent)
    BY <1>3, <2>2 DEF CycleInv
  <2>5. payouts' \in [Payments -> [amount : Nat,
                               at : {"unsent", "queued", "pool", "away", "chain", "gone"}]]
    BY <1>4, <2>1, <2>3
  <2>6. CycleInv'
    <3>1. cycle = "found" => p # pending
      BY <1>3, <2>2 DEF CycleInv
    <3>2. \A q \in Payments : payouts'[q].at = "unsent" <=> q > sent'
      BY <1>2, <1>3, <2>2, <2>3 DEF CycleInv
    <3>3. \A q \in Payments : payouts'[q].at = "queued" <=> cycle' = "sending" /\ q = sent'
      BY <1>2, <1>3, <2>2, <2>3 DEF CycleInv
    <3>4. \A q \in Payments : payouts'[q].at \in {"pool", "away"} =>
                                q = pending' \/ (cycle' = "accepted" /\ q = sent')
      BY <1>2, <1>3, <2>2, <2>3, <2>4 DEF CycleInv
    <3>5. cycle \in {"sending", "accepted"} => payouts'[sent].amount = payouts[sent].amount
      BY <1>1, <1>3, <2>3 DEF CycleInv
    <3> QED
      BY <1>1, <1>2, <1>3, <2>2, <2>3, <2>5, <3>1, <3>2, <3>3, <3>4, <3>5 DEF CycleInv
  <2>7. \A q \in Payments : Holds'[q] = Holds[q]
    BY <1>2, <2>2, <2>3, <2>4 DEF Holds, Taken, Rewarder!InCirculation, Rewarder!At
  <2>8. Total(Holds)' = Total(Holds)
    BY <2>7, HoldsStay
  <2>9. cycle = "accepted" => payouts'[sent].amount = payouts[sent].amount
    BY <1>1, <1>3, <2>3 DEF CycleInv
  <2>10. left' + Total(Holds)' =
           granted' + (IF cycle' = "accepted" THEN payouts'[sent'].amount ELSE 0)
    BY <1>2, <1>3, <2>2, <2>8, <2>9
  <2> QED
    BY <2>6, <2>10 DEF BooksInv
<1>10. ASSUME NEW p \in Payments, Rewarder!Reorganise(p)
       PROVE  BooksInv'
  BY <1>2, <1>10 DEF Rewarder!Reorganise
<1> QED
  BY <1>6, <1>7, <1>8, <1>9, <1>10

(* The books balance between two cycles, whatever the budget, the amounts  *)
(* and the number of payouts, edits and restarts: no tick of the budget is *)
(* lost and none is spent twice (uptime_rewarder.py: run_once,             *)
(* _resolve_pending, adjust_budget).                                       *)
THEOREM BooksStayBalanced ==
  ASSUME Rewarder!PayoutsAssumption
  PROVE  Rewarder!Spec => []BooksBalance
<1>1. MaxPayouts \in Nat
  BY DEF Rewarder!PayoutsAssumption
<1>2. Rewarder!Init => BooksInv
  <2> SUFFICES ASSUME Rewarder!Init PROVE BooksInv
    OBVIOUS
  <2> USE DEF Rewarder!Init, Payments, Rewarder!Ids
  <2>1. CycleInv
    BY <1>1 DEF CycleInv
  <2>2. \A p \in Payments : Holds[p] = 0
    BY DEF Holds
  <2>3. Holds \in [Payments -> Nat]
    BY DEF Holds
  <2>4. Total(Holds) = 0
    BY <2>2, <2>3, TotalZero
  <2> QED
    BY <2>1, <2>4 DEF BooksInv
<1>3. BooksInv /\ [Rewarder!Next]_(Rewarder!vars) => BooksInv'
  <2> SUFFICES ASSUME BooksInv, [Rewarder!Next]_(Rewarder!vars), faults' = {} PROVE BooksInv'
    BY DEF BooksInv
  <2>1. CASE UNCHANGED Rewarder!vars
    <3>1. /\ UNCHANGED <<left, pending, cycle, seen, payouts, sent, page, granted, reorged,
                         faults>>
      BY <2>1 DEF Rewarder!vars
    <3>2. CycleInv <=> CycleInv'
      BY <3>1 DEF CycleInv
    <3>3. \A p \in Payments : Holds'[p] = Holds[p]
      BY <3>1 DEF Holds, Taken, Rewarder!InCirculation, Rewarder!At
    <3> QED
      BY <3>1, <3>2, <3>3, HoldsStay DEF BooksInv
  <2>2. CASE Rewarder!Next
    BY <2>2, SettlingStep, PayingStep, OutsideStep DEF Rewarder!Next, Payments
  <2> QED
    BY <2>1, <2>2
<1>4. BooksInv => BooksBalance
  <2> SUFFICES ASSUME BooksInv, faults = {}, cycle = "asleep"
               PROVE  left + Rewarder!Total([p \in Rewarder!InCirculation |-> payouts[p].amount])
                        = granted
    BY DEF BooksBalance, Rewarder!BooksBalance, Rewarder!Balanced
  <2>1. CycleInv /\ left + Total(Holds) = granted + 0
    BY DEF BooksInv
  <2>2. granted \in Int
    BY <2>1 DEF CycleInv
  <2> QED
    BY <1>1, <2>1, <2>2, HoldsInCirculation
<1> QED
  BY <1>2, <1>3, <1>4, PTL DEF Rewarder!Spec

-----------------------------------------------------------------------------
(* Startup: the lock and the processes that hold it. *)

(* A process past the lock holds the lock of its directory, and a lock is  *)
(* held by a process past it.                                              *)
LockInv ==
  /\ Launches!TypeOK
  /\ \A p \in Procs : at[p] \in {"opening", "running"} => holder[cwd[p]] = {p}
  /\ \A d \in Dirs : \A p \in holder[d] : at[p] \in {"opening", "running"}

(* The lock is taken before the database is opened and kept to the end.    *)
LEMMA LockStep ==
  ASSUME Launches!StartupAssumption, LockInv, [Launches!Next]_(Launches!vars)
  PROVE  LockInv'
<1> USE DEF LockInv, Launches!TypeOK
<1>1. ASSUME NEW p \in Procs, Launches!Launch(p)
      PROVE  LockInv'
  <2>1. launches + 1 \in 0..MaxLaunches
    BY <1>1 DEF Launches!Launch, Launches!StartupAssumption
  <2>2. PICK d \in Dirs, b \in Dbs : cwd' = [cwd EXCEPT ![p] = d] /\ db' = [db EXCEPT ![p] = b]
    BY <1>1 DEF Launches!Launch
  <2> QED
    BY <1>1, <2>1, <2>2 DEF Launches!Launch
<1>2. ASSUME NEW p \in Procs, Launches!Acquire(p)
      PROVE  LockInv'
  BY <1>2 DEF Launches!Acquire
<1>3. ASSUME NEW p \in Procs, Launches!Refuse(p)
      PROVE  LockInv'
  BY <1>3 DEF Launches!Refuse
<1>4. ASSUME NEW p \in Procs, Launches!Open(p)
      PROVE  LockInv'
  BY <1>4 DEF Launches!Open
<1>5. ASSUME NEW p \in Procs, Launches!End(p)
      PROVE  LockInv'
  BY <1>5 DEF Launches!End, Launches!FreeLock
<1>6. CASE UNCHANGED Launches!vars
  BY <1>6 DEF Launches!vars
<1> QED
  BY <1>1, <1>2, <1>3, <1>4, <1>5, <1>6 DEF Launches!Next

(* The lock and the processes that hold it.                                *)
THEOREM LockInvariant ==
  ASSUME Launches!StartupAssumption
  PROVE  Launches!Spec => []LockInv
<1>1. Launches!Init => LockInv
  <2> SUFFICES ASSUME Launches!Init PROVE LockInv
    OBVIOUS
  <2>1. (CHOOSE d \in Dirs : TRUE) \in Dirs /\ (CHOOSE b \in Dbs : TRUE) \in Dbs
    BY DEF Launches!StartupAssumption
  <2> QED
    BY <2>1 DEF Launches!Init, LockInv, Launches!TypeOK, Launches!StartupAssumption
<1> QED
  BY <1>1, LockStep, PTL DEF Launches!Spec

(* From one directory, two processes never have one database open.         *)
THEOREM OneDirectoryOneWriter ==
  ASSUME Launches!StartupAssumption, \A d, e \in Dirs : d = e
  PROVE  Launches!Spec => []SoleWriter
<1>1. LockInv => SoleWriter
  <2> SUFFICES ASSUME LockInv, NEW p \in Procs, NEW q \in Procs, p # q,
                      at[p] = "running", at[q] = "running"
               PROVE  FALSE
    BY DEF SoleWriter, Launches!SoleWriter
  <2>1. cwd[p] = cwd[q]
    BY DEF LockInv, Launches!TypeOK
  <2>2. holder[cwd[p]] = {p} /\ holder[cwd[q]] = {q}
    BY DEF LockInv
  <2> QED
    BY <2>1, <2>2
<1> QED
  BY <1>1, LockInvariant, PTL

(* Where locks work, a launch is refused only while another process is up: *)
(* neither a crash nor a kill leaves a lock behind.                        *)
THEOREM NoLockIsLeftBehind ==
  ASSUME Launches!StartupAssumption, NoLocking = {}
  PROVE  Launches!Spec => []NoStartIsBlocked
<1>1. Launches!Init => Launches!NoStartIsBlocked
  BY DEF Launches!Init, Launches!NoStartIsBlocked
<1>2. LockInv /\ Launches!NoStartIsBlocked /\ [Launches!Next]_(Launches!vars)
        => Launches!NoStartIsBlocked'
  <2> SUFFICES ASSUME LockInv, Launches!NoStartIsBlocked, [Launches!Next]_(Launches!vars)
               PROVE  Launches!NoStartIsBlocked'
    OBVIOUS
  <2> USE DEF LockInv, Launches!TypeOK, Launches!NoStartIsBlocked
  <2>1. ASSUME NEW p \in Procs, Launches!Refuse(p)
        PROVE  Launches!NoStartIsBlocked'
    <3>1. PICK q \in Procs : q \in holder[cwd[p]]
      BY <2>1 DEF Launches!Refuse
    <3>2. at[q] \in {"opening", "running"}
      BY <3>1
    <3>3. blocker'[p] # {}
      BY <2>1, <3>2 DEF Launches!Refuse
    <3> QED
      BY <2>1, <3>3 DEF Launches!Refuse
  <2>2. ASSUME NEW p \in Procs,
               Launches!Launch(p) \/ Launches!Acquire(p) \/ Launches!Open(p) \/ Launches!End(p)
        PROVE  Launches!NoStartIsBlocked'
    BY <2>2 DEF Launches!Launch, Launches!Acquire, Launches!Open, Launches!End
  <2>3. CASE UNCHANGED Launches!vars
    BY <2>3 DEF Launches!vars
  <2> QED
    BY <2>1, <2>2, <2>3 DEF Launches!Next
<1>3. Launches!NoStartIsBlocked => NoStartIsBlocked
  BY DEF NoStartIsBlocked
<1> QED
  BY <1>1, <1>2, <1>3, LockInvariant, PTL DEF Launches!Spec

-----------------------------------------------------------------------------
(* The four worlds of the run. *)

(* A behaviour of one of the four worlds is a behaviour of each component: *)
(* the others stand still.                                                 *)
LEMMA WorldsAreComponents ==
  WorldSpec => Spec /\ Lookups!Spec /\ Rewarder!Spec /\ Launches!Spec
<1>1. WorldInit => Init /\ Lookups!Init /\ Rewarder!Init /\ Launches!Init
  BY DEF WorldInit
<1>2. [WorldNext]_<<world, vars, lookupVars, payoutVars, launchVars>> =>
        /\ [Next]_vars /\ [Lookups!Next]_(Lookups!vars)
        /\ [Rewarder!Next]_(Rewarder!vars) /\ [Launches!Next]_(Launches!vars)
  BY DEF WorldNext, vars, lookupVars, payoutVars, launchVars, Lookups!vars, Rewarder!vars,
         Launches!vars
<1> QED
  BY <1>1, <1>2, PTL DEF WorldSpec, Spec, Lookups!Spec, Rewarder!Spec, Launches!Spec

(* What the run of the four worlds checks, for any number of threads,      *)
(* calls, clients, blocks, payouts, processes and launches from one        *)
(* directory.                                                              *)
THEOREM ServicesAreSafe ==
  ASSUME \A d, e \in Dirs : d = e
  PROVE  WorldSpec => [](/\ ToldTheTruth /\ AcceptedInOrder /\ ConfirmedStaysConfirmed
                         /\ BooksBalance /\ SoleWriter)
                       /\ (NoLocking = {} => []NoStartIsBlocked)
<1>1. Rewarder!PayoutsAssumption /\ Launches!StartupAssumption
  BY ServicesAssumption
<1>2. Rewarder!Spec => []BooksBalance
  BY <1>1, BooksStayBalanced
<1>3. Launches!Spec => []SoleWriter
  BY <1>1, OneDirectoryOneWriter
<1>4. NoLocking = {} => (Launches!Spec => []NoStartIsBlocked)
  <2> SUFFICES ASSUME NoLocking = {} PROVE Launches!Spec => []NoStartIsBlocked
    OBVIOUS
  <2> QED
    BY <1>1, NoLockIsLeftBehind
<1> QED
  BY <1>2, <1>3, <1>4, AnswersAreTrue, NoncesInOrder, ConfirmedIsKept, WorldsAreComponents, PTL
=============================================================================
