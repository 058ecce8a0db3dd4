---------------------------- MODULE NetworkProofs ----------------------------
(***************************************************************************)
(* What runs between nodes, for any nodes, peers, addresses, threads,      *)
(* messages, losses and delays: the peer pool, the chunk layer and its     *)
(* rate limit, the private phase of a transaction and the download of a    *)
(* chain, and with them what the run of all these worlds checks.           *)
(***************************************************************************)
EXTENDS MCNetwork, SumsTheorems

-----------------------------------------------------------------------------
(* Peers: the pool, its caps and our own address. *)

(* A thread that pings pings an address.                                   *)
PingInv == \A t \in Pingers : ping[t].at # "idle" => ping[t].addr \in Every

(* The caps, for every address and not only for those of peers.            *)
CapsInv ==
  /\ IsFiniteSet(peers) /\ Cardinality(peers) <= MaxPeers
  /\ \A a \in Every : Cardinality({p \in peers : Subnet[p] = Subnet[a]}) <= MaxPerSubnet

IInv == TypeOK /\ PingInv /\ CapsInv /\ InfoOnlyOfPeers

-----------------------------------------------------------------------------

(* What a step does to the pool and to what is stored.                     *)
LEMMA PoolSteps ==
  ASSUME TypeOK, PingInv, [Next]_vars
  PROVE  \/ peers' = peers /\ (info' = info \/ \E a \in Every, kind \in Kinds :
              info' = IF a \in peers THEN info \cup {<<a, kind>>} ELSE info)
         \/ peers' = fresh /\ info' = {i \in info : i[1] \notin peers \ fresh}
         \/ peers' = {} /\ info' = {}
         \/ \E a \in Every :
                peers' = (IF Admissible(a) THEN peers \cup {a} ELSE peers) /\ info' = info
<1>1. ASSUME NEW a \in Every, Touch(a) \/ GrowStale(a) \/ Hear(a) \/ Fall(a)
      PROVE  peers' = peers /\ info' = info
  BY <1>1 DEF Touch, GrowStale, Hear, Fall, pool
<1>2. ASSUME NEW a \in Every, AddByHand(a)
      PROVE  peers' = (IF Admissible(a) THEN peers \cup {a} ELSE peers) /\ info' = info
  BY <1>2 DEF AddByHand, Add
<1>3. ASSUME NEW a \in Every, NEW kind \in Kinds, Choose(a, kind) \/ StoreInfo(a, kind)
      PROVE  /\ peers' = peers
             /\ info' = info \/ info' = IF a \in peers THEN info \cup {<<a, kind>>} ELSE info
  BY <1>3 DEF Choose, StoreInfo, StillPeer, pool
<1>4. ASSUME NEW t \in Pingers, NEW a \in Every, Flush(t, a) \/ PunchGo(t, a)
      PROVE  peers' = peers /\ info' = info
  BY <1>4 DEF Flush, PunchGo, pool
<1>5. ASSUME EvictStale
      PROVE  peers' = fresh /\ info' = {i \in info : i[1] \notin peers \ fresh}
  BY <1>5 DEF EvictStale, DropInfo
<1>6. ASSUME SaveCache \/ ChangeAddress
      PROVE  peers' = peers /\ info' = info
  BY <1>6 DEF SaveCache, ChangeAddress, pool
<1>7. ASSUME Restart
      PROVE  peers' = {} /\ info' = {}
  BY <1>7 DEF Restart
<1>8. ASSUME NEW t \in Pingers, Pong(t) \/ NoPong(t)
      PROVE  peers' = peers /\ info' = info
  BY <1>8 DEF Pong, NoPong, pool
<1>9. ASSUME NEW t \in Pingers, Admit(t)
      PROVE  \E a \in Every :
               peers' = (IF Admissible(a) THEN peers \cup {a} ELSE peers) /\ info' = info
  <2>1. ping[t].addr \in Every
    BY <1>9 DEF Admit, PingInv
  <2> QED
    BY <1>9, <2>1 DEF Admit, Add
<1>10. CASE UNCHANGED vars
  BY <1>10 DEF vars
<1> QED
  BY <1>1, <1>2, <1>3, <1>4, <1>5, <1>6, <1>7, <1>8, <1>9, <1>10 DEF Next

(* Every step keeps the types.                                             *)
LEMMA TypeStep ==
  ASSUME IInv, [Next]_vars
  PROVE  TypeOK' /\ PingInv'
<1> USE PeersAssumption DEF IInv, TypeOK, PingInv, pool, address
<1>1. ASSUME NEW a \in Every, Touch(a) \/ GrowStale(a) \/ Hear(a) \/ Fall(a)
      PROVE  TypeOK' /\ PingInv'
  BY <1>1 DEF Touch, GrowStale, Hear, Fall
<1>2. ASSUME NEW a \in Every, AddByHand(a)
      PROVE  TypeOK' /\ PingInv'
  BY <1>2 DEF AddByHand, Add
<1>3. ASSUME NEW a \in Every, NEW kind \in Kinds, Choose(a, kind) \/ StoreInfo(a, kind)
      PROVE  TypeOK' /\ PingInv'
  BY <1>3 DEF Choose, StoreInfo, StillPeer
<1>4. ASSUME NEW t \in Pingers, NEW a \in Every, Flush(t, a) \/ PunchGo(t, a)
      PROVE  TypeOK' /\ PingInv'
  <2>1. /\ ping' = [ping EXCEPT ![t] = [at |-> "sent", addr |-> a]]
        /\ pings < MaxPings /\ pings' = pings + 1
        /\ candidates' \subseteq candidates
        /\ UNCHANGED <<peers, fresh, info, cache, asking, ext, votes, own, up, restarts>>
    BY <1>4 DEF Flush, PunchGo, Send
  <2>2. [at |-> "sent", addr |-> a]
          \in [at : {"idle", "sent", "answered"}, addr : Every \cup {NoAddr}]
    OBVIOUS
  <2> QED
    BY <2>1, <2>2
<1>5. ASSUME EvictStale \/ SaveCache
      PROVE  TypeOK' /\ PingInv'
  BY <1>5 DEF EvictStale, DropInfo, SaveCache
<1>6. ASSUME ChangeAddress
      PROVE  TypeOK' /\ PingInv'
  BY <1>6 DEF ChangeAddress
<1>7. ASSUME Restart
      PROVE  TypeOK' /\ PingInv'
  <2>1. /\ peers' = {} /\ fresh' = {} /\ info' = {} /\ asking' = {} /\ votes' = {}
        /\ candidates' \subseteq cache /\ cache' \subseteq cache
        /\ ping' = [t \in Pingers |-> Quiet] /\ ext' \in {NoAddr, own}
        /\ restarts < MaxRestarts /\ restarts' = restarts + 1 /\ UNCHANGED <<own, up, pings>>
    BY <1>7 DEF Restart
  <2>2. Quiet \in [at : {"idle", "sent", "answered"}, addr : Every \cup {NoAddr}]
    BY DEF Quiet
  <2>3. Quiet.at = "idle"
    BY DEF Quiet
  <2> QED
    BY <2>1, <2>2, <2>3
<1>8. ASSUME NEW t \in Pingers, Pong(t)
      PROVE  TypeOK' /\ PingInv'
  <2>1. own \in Every /\ ping[t].addr \in Every
    BY <1>8 DEF Pong, Every
  <2>2. Vote(ping[t].addr) \subseteq {OwnFirst, OwnLater} \X Every
    BY <2>1 DEF Vote
  <2>3. /\ ping' = [ping EXCEPT ![t].at = "answered"] /\ ext' \in {ext, own}
        /\ votes' = votes \cup Vote(ping[t].addr)
        /\ UNCHANGED <<peers, fresh, info, candidates, cache, asking, own, up, pings, restarts>>
    BY <1>8 DEF Pong
  <2>4. ping' \in [Pingers -> [at : {"idle", "sent", "answered"}, addr : Every \cup {NoAddr}]]
    BY <2>3
  <2>5. \A u \in Pingers : ping'[u].addr = ping[u].addr /\ (u # t => ping'[u] = ping[u])
    BY <2>3
  <2> QED
    BY <2>1, <2>2, <2>3, <2>4, <2>5
<1>9. ASSUME NEW t \in Pingers, NoPong(t) \/ Admit(t)
      PROVE  TypeOK' /\ PingInv'
  <2>1. /\ ping' = [ping EXCEPT ![t] = Quiet]
        /\ ping[t].addr \in Every
        /\ peers' \subseteq peers \cup {ping[t].addr} /\ fresh' \subseteq peers'
        /\ UNCHANGED <<info, candidates, cache, asking, ext, votes, own, up, pings, restarts>>
    BY <1>9 DEF NoPong, Admit, Add
  <2>2. /\ Quiet \in [at : {"idle", "sent", "answered"}, addr : Every \cup {NoAddr}]
        /\ Quiet.at = "idle"
    BY DEF Quiet
  <2> QED
    BY <2>1, <2>2
<1>10. CASE UNCHANGED vars
  BY <1>10 DEF vars
<1> QED
  BY <1>1, <1>2, <1>3, <1>4, <1>5, <1>6, <1>7, <1>8, <1>9, <1>10 DEF Next

(* Whoever adds looks at both caps again, in the same step.                *)
LEMMA CapsStep ==
  ASSUME IInv, [Next]_vars
  PROVE  CapsInv'
<1> USE PeersAssumption DEF IInv, CapsInv
<1>1. ASSUME peers' \subseteq peers
      PROVE  CapsInv'
  <2>1. IsFiniteSet(peers') /\ Cardinality(peers') <= Cardinality(peers)
    BY <1>1, FS_Subset
  <2>2. Cardinality(peers') <= MaxPeers
    BY <2>1, FS_CardinalityType
  <2>3. ASSUME NEW a \in Every
        PROVE  Cardinality({p \in peers' : Subnet[p] = Subnet[a]}) <= MaxPerSubnet
    <3> DEFINE N == {p \in peers : Subnet[p] = Subnet[a]}
               M == {p \in peers' : Subnet[p] = Subnet[a]}
    <3>1. N \in SUBSET peers /\ M \in SUBSET N
      BY <1>1
    <3>2. IsFiniteSet(N) /\ IsFiniteSet(M) /\ Cardinality(M) <= Cardinality(N)
      BY <3>1, FS_Subset
    <3>3. Cardinality(N) \in Nat /\ Cardinality(M) \in Nat /\ Cardinality(N) <= MaxPerSubnet
      BY <3>2, FS_CardinalityType
    <3> QED
      BY <3>2, <3>3
  <2> QED
    BY <2>1, <2>2, <2>3
<1>2. ASSUME NEW b \in Every, Admissible(b), peers' = peers \cup {b}
      PROVE  CapsInv'
  <2>1. b \notin peers /\ Cardinality(peers) < MaxPeers /\ SubnetHasRoom(b)
    BY <1>2 DEF Admissible
  <2>2. /\ IsFiniteSet(peers') /\ Cardinality(peers') = Cardinality(peers) + 1
        /\ Cardinality(peers) \in Nat
    BY <1>2, <2>1, FS_AddElement, FS_CardinalityType
  <2>3. ASSUME NEW a \in Every
        PROVE  Cardinality({p \in peers' : Subnet[p] = Subnet[a]}) <= MaxPerSubnet
    <3> DEFINE N == {p \in peers : Subnet[p] = Subnet[a]}
               M == {p \in peers' : Subnet[p] = Subnet[a]}
    <3>1. IsFiniteSet(N) /\ Cardinality(N) \in Nat /\ Cardinality(N) <= MaxPerSubnet
      <4>1. N \in SUBSET peers
        OBVIOUS
      <4>2. IsFiniteSet(N)
        BY <4>1, FS_Subset
      <4> QED
        BY <4>2, FS_CardinalityType
    <3>2. CASE Subnet[b] = Subnet[a]
      <4>1. M = N \cup {b} /\ b \notin N
        BY <1>2, <2>1, <3>2
      <4>2. Cardinality(N) < MaxPerSubnet
        BY <2>1, <3>2 DEF SubnetHasRoom
      <4> HIDE DEF M, N
      <4>3. Cardinality(M) = Cardinality(N) + 1
        BY <3>1, <4>1, FS_AddElement
      <4>4. Cardinality(M) <= MaxPerSubnet
        BY <3>1, <4>2, <4>3
      <4> QED
        BY <4>4 DEF M
    <3>3. CASE Subnet[b] # Subnet[a]
      <4>1. M = N
        BY <1>2, <3>3
      <4> QED
        BY <3>1, <4>1
    <3> QED
      BY <3>2, <3>3
  <2> QED
    BY <2>1, <2>2, <2>3
<1>3. fresh \subseteq peers
  BY DEF TypeOK
<1> QED
  BY <1>1, <1>2, <1>3, PoolSteps

(* What comes too late finds the address gone and is dropped.              *)
LEMMA InfoStep ==
  ASSUME IInv, [Next]_vars
  PROVE  InfoOnlyOfPeers'
<1> USE DEF IInv, InfoOnlyOfPeers
<1>1. \A i \in info : i[1] \in peers
  OBVIOUS
<1>2. CASE peers' = peers /\ \E a \in Every, kind \in Kinds :
             info' = IF a \in peers THEN info \cup {<<a, kind>>} ELSE info
  BY <1>1, <1>2
<1>3. CASE peers' = fresh /\ info' = {i \in info : i[1] \notin peers \ fresh}
  BY <1>1, <1>3
<1>4. CASE \E a \in Every :
               peers' = (IF Admissible(a) THEN peers \cup {a} ELSE peers) /\ info' = info
  BY <1>1, <1>4
<1>5. CASE (peers' = peers /\ info' = info) \/ (peers' = {} /\ info' = {})
  BY <1>1, <1>5
<1> QED
  BY <1>2, <1>3, <1>4, <1>5, PoolSteps

-----------------------------------------------------------------------------

(* Types, caps and stored information together are inductive.              *)
THEOREM PeersInvariant == Spec => []IInv
<1>1. Init => IInv
  <2> SUFFICES ASSUME Init PROVE IInv
    OBVIOUS
  <2>1. IsFiniteSet(peers) /\ Cardinality(peers) = 0
    BY FS_EmptySet DEF Init
  <2>2. \A a \in Every : {p \in peers : Subnet[p] = Subnet[a]} = {}
    BY DEF Init
  <2>3. CapsInv
    BY <2>1, <2>2, PeersAssumption, FS_EmptySet DEF CapsInv
  <2>4. TypeOK /\ PingInv
    <3>1. /\ Quiet \in [at : {"idle", "sent", "answered"}, addr : Every \cup {NoAddr}]
          /\ Quiet.at = "idle"
      BY DEF Quiet
    <3> QED
      BY <3>1, PeersAssumption DEF Init, TypeOK, PingInv
  <2>5. InfoOnlyOfPeers
    BY DEF Init, InfoOnlyOfPeers
  <2> QED
    BY <2>3, <2>4, <2>5 DEF IInv
<1>2. IInv /\ [Next]_vars => IInv'
  BY TypeStep, CapsStep, InfoStep DEF IInv
<1> QED
  BY <1>1, <1>2, PTL DEF Spec

(* Nothing is stored of an address that is not a peer.                     *)
THEOREM NoStaleInfo == Spec => []InfoOnlyOfPeers
<1>1. IInv => InfoOnlyOfPeers
  BY DEF IInv
<1> QED
  BY PeersInvariant, <1>1, PTL

(* Both caps hold, however many threads ping and add at once.              *)
THEOREM CapsHold == Spec => []WithinCaps
<1>1. IInv => WithinCaps
  BY DEF IInv, CapsInv, WithinCaps, TypeOK
<1> QED
  BY PeersInvariant, <1>1, PTL

(* Two peers must have shown an address before it replaces the confirmed   *)
(* one.                                                                    *)
THEOREM TwoPeersMoveOurAddress == Spec => OnlyPeersMoveOurAddress
<1> DEFINE A == ext # NoAddr /\ ext' \notin {ext, NoAddr} /\ restarts' = restarts
           B == Cardinality({v \in votes' : v[1] = ext'}) >= 2
<1>1. TypeOK /\ [Next]_vars => [A => B]_vars
  <2> SUFFICES ASSUME TypeOK, Next, A PROVE B
    OBVIOUS
  <2>1. ASSUME NEW t \in Pingers, Pong(t)
        PROVE  B
    <3>1. ext' = own /\ Agreed(votes') /\ own \notin {ext, NoAddr}
      BY <2>1 DEF Pong
    <3> QED
      BY <3>1 DEF Agreed
  <2>2. CASE Restart
    BY <2>2 DEF Restart, TypeOK
  <2>3. ASSUME NEW a \in Every, Touch(a) \/ GrowStale(a) \/ Hear(a) \/ Fall(a) \/ AddByHand(a)
        PROVE  ext' = ext
    BY <2>3 DEF Touch, GrowStale, Hear, Fall, AddByHand, address
  <2>4. ASSUME NEW a \in Every, NEW kind \in Kinds, Choose(a, kind) \/ StoreInfo(a, kind)
        PROVE  ext' = ext
    BY <2>4 DEF Choose, StoreInfo, address
  <2>5. ASSUME NEW t \in Pingers, NEW a \in Every, Flush(t, a) \/ PunchGo(t, a)
        PROVE  ext' = ext
    BY <2>5 DEF Flush, PunchGo, address
  <2>6. ASSUME NEW t \in Pingers, NoPong(t) \/ Admit(t)
        PROVE  ext' = ext
    BY <2>6 DEF NoPong, Admit, address
  <2>7. ASSUME EvictStale \/ SaveCache \/ ChangeAddress
        PROVE  ext' = ext
    BY <2>7 DEF EvictStale, SaveCache, ChangeAddress, address
  <2> QED
    BY <2>1, <2>2, <2>3, <2>4, <2>5, <2>6, <2>7 DEF Next
<1>2. IInv => TypeOK
  BY DEF IInv
<1> QED
  BY PeersInvariant, <1>1, <1>2, PTL DEF Spec, OnlyPeersMoveOurAddress

-----------------------------------------------------------------------------
(* Transport: what is acknowledged and what is handed over. *)

(* on_block is called once for each time _seen_msg came to have the        *)
(* message.                                                                *)
SeenTyped ==
  delivered \in [DOMAIN ChunksOf -> Nat] /\ forgot \in [DOMAIN ChunksOf -> Nat]

SeenInv ==
  \A m \in DOMAIN ChunksOf : delivered[m] = forgot[m] + (IF m \in seen THEN 1 ELSE 0)

(* The types the argument needs.                                           *)
SendsTyped ==
  /\ stage \in [ChunkSends -> {"idle", "waiting", "acked", "gaveup"}]
  /\ acked \in [ChunkSends -> SUBSET Nat] /\ held \in [ChunkSends -> SUBSET Nat]
  /\ \A d \in net : d.of \in ChunkSends /\ d.chunk \in Chunks!Chunks(d.of)
  /\ \A a \in acks : a.of \in ChunkSends /\ a.chunks \in SUBSET Nat
  /\ task \in [Workers -> Chunks!Tasks]

(* Nothing is under way of a send that has not begun.                      *)
NothingBeforeSend ==
  \A k \in ChunkSends : stage[k] = "idle" =>
    /\ acked[k] = {} /\ held[k] = {}
    /\ \A d \in net : d.of # k
    /\ \A a \in acks : a.of # k
    /\ \A w \in Workers : task[w].at # "idle" => task[w].of # k

(* A buffer is never complete: what completes it empties it.               *)
BuffersIncomplete ==
  /\ \A k \in ChunkSends : held[k] \subseteq Chunks!Chunks(k) /\ held[k] # Chunks!Chunks(k)
  /\ \A w \in Workers : task[w].at = "fed" /\ task[w].full => task[w].of \in whole

(* While the message of a tracked send was never whole and never evicted,  *)
(* what is acknowledged, or on its way to be, is in the buffer.            *)
AckedIsHeld ==
  \A k \in ChunkSends : stage[k] = "waiting" /\ k \notin whole \cup dropped =>
    /\ acked[k] \subseteq held[k]
    /\ \A a \in acks : a.of = k => a.chunks \subseteq held[k]

ChunksInv ==
  /\ SendsTyped /\ NothingBeforeSend /\ BuffersIncomplete
  /\ AckedIsHeld /\ Chunks!AckedMeansWhole

-----------------------------------------------------------------------------

(* A set of chunks that is complete by its number has all of them, and all *)
(* of them are complete.                                                   *)
LEMMA CompleteIsAll ==
  ASSUME Chunks!TransportAssumption, NEW k \in ChunkSends
  PROVE  /\ Chunks!Complete(k, Chunks!Chunks(k)) /\ Chunks!Chunks(k) # {}
         /\ Chunks!Chunks(k) \subseteq Nat
<1>1. ChunksOf[MessageOf[k]] \in Nat \ {0, 1}
  BY DEF Chunks!TransportAssumption
<1>2. Cardinality(0..(ChunksOf[MessageOf[k]] - 1)) = ChunksOf[MessageOf[k]]
  <2>1. ChunksOf[MessageOf[k]] - 1 \in Int /\ 0 \in Int /\ ~(0 > ChunksOf[MessageOf[k]] - 1)
    BY <1>1
  <2>2. Cardinality(0..(ChunksOf[MessageOf[k]] - 1)) = ChunksOf[MessageOf[k]] - 1 - 0 + 1
    BY <2>1, FS_Interval
  <2> QED
    BY <1>1, <2>2
<1>3. 0 \in Chunks!Chunks(k)
  BY <1>1 DEF Chunks!Chunks
<1>4. Chunks!Cardinality(0..(ChunksOf[MessageOf[k]] - 1))
        = Cardinality(0..(ChunksOf[MessageOf[k]] - 1))
  BY DEF Chunks!Cardinality, Cardinality
<1> QED
  BY <1>1, <1>2, <1>3, <1>4 DEF Chunks!Chunks, Chunks!Complete

(* The sender's steps.                                                     *)
LEMMA SenderStep ==
  ASSUME Chunks!TransportAssumption, ChunksInv, NEW k \in ChunkSends,
         Chunks!Send(k) \/ Chunks!Resend(k) \/ Chunks!Finish(k) \/ Chunks!GiveUp(k)
  PROVE  ChunksInv'
<1> USE DEF ChunksInv, SendsTyped, NothingBeforeSend, BuffersIncomplete, AckedIsHeld,
            Chunks!AckedMeansWhole,
            Chunks!receiving, Chunks!Datagrams
<1>1. CASE Chunks!Send(k)
  BY <1>1 DEF Chunks!Send
<1>2. CASE Chunks!Resend(k)
  BY <1>2 DEF Chunks!Resend, Chunks!Missing
<1>3. CASE Chunks!Finish(k)
  <2>1. k \in whole \cup dropped
    <3>1. SUFFICES ASSUME k \notin whole \cup dropped PROVE FALSE
      OBVIOUS
    <3>2. Chunks!Chunks(k) \subseteq acked[k] /\ acked[k] \subseteq held[k]
      BY <1>3, <3>1 DEF Chunks!Finish, Chunks!AllAcked
    <3>3. held[k] \subseteq Chunks!Chunks(k) /\ held[k] # Chunks!Chunks(k)
      OBVIOUS
    <3> QED
      BY <3>2, <3>3
  <2> QED
    BY <1>3, <2>1 DEF Chunks!Finish
<1>4. CASE Chunks!GiveUp(k)
  BY <1>4 DEF Chunks!GiveUp
<1> QED
  BY <1>1, <1>2, <1>3, <1>4

(* Acknowledgements that arrive, and losses.                               *)
LEMMA NetworkStep ==
  ASSUME Chunks!TransportAssumption, ChunksInv,
         \/ \E a \in acks : Chunks!HandleAck(a) \/ Chunks!LoseAck(a)
         \/ \E d \in net : Chunks!LoseChunk(d)
         \/ Chunks!OtherTraffic
  PROVE  ChunksInv'
<1> USE DEF ChunksInv, SendsTyped, NothingBeforeSend, BuffersIncomplete, AckedIsHeld,
            Chunks!AckedMeansWhole,
            Chunks!receiving, Chunks!sending
<1>1. ASSUME NEW a \in acks, Chunks!HandleAck(a)
      PROVE  ChunksInv'
  <2>1. /\ acks' \subseteq acks /\ UNCHANGED <<stage, net, held, task, whole, dropped>>
        /\ acked' = IF stage[a.of] = "waiting" THEN [acked EXCEPT ![a.of] = @ \cup a.chunks]
                                                ELSE acked
    BY <1>1 DEF Chunks!HandleAck
  <2>2. a.of \in ChunkSends /\ a.chunks \in SUBSET Nat
    OBVIOUS
  <2>3. acked' \in [ChunkSends -> SUBSET Nat]
    BY <2>1, <2>2
  <2>4. \A k \in ChunkSends :
          \/ acked'[k] = acked[k]
          \/ k = a.of /\ stage[k] = "waiting" /\ acked'[k] = acked[k] \cup a.chunks
    BY <2>1, <2>2
  <2>5. SendsTyped' /\ NothingBeforeSend' /\ BuffersIncomplete' /\ Chunks!AckedMeansWhole'
    BY <2>1, <2>3, <2>4
  <2>6. AckedIsHeld'
    BY <2>1, <2>4
  <2> QED
    BY <2>5, <2>6
<1>2. ASSUME NEW a \in acks, Chunks!LoseAck(a)
      PROVE  ChunksInv'
  BY <1>2 DEF Chunks!LoseAck
<1>3. ASSUME NEW d \in net, Chunks!LoseChunk(d)
      PROVE  ChunksInv'
  BY <1>3 DEF Chunks!LoseChunk
<1>4. CASE Chunks!OtherTraffic
  BY <1>4 DEF Chunks!OtherTraffic
<1> QED
  BY <1>1, <1>2, <1>3, <1>4

(* A chunk that comes is added, or completes the message and empties the   *)
(* buffer.                                                                 *)
LEMMA FeedStep ==
  ASSUME Chunks!TransportAssumption, ChunksInv, NEW w \in Workers, NEW d \in net, Chunks!Feed(w, d)
  PROVE  ChunksInv'
<1> DEFINE k == d.of
           chunks == held[k] \cup {d.chunk}
           full == Chunks!Complete(k, chunks)
           t == [at |-> "fed", of |-> k, full |-> full]
<1>1. k \in ChunkSends /\ d.chunk \in Chunks!Chunks(k)
  BY DEF ChunksInv, SendsTyped
<1>2. /\ net' \subseteq net
      /\ held' = [held EXCEPT ![k] = IF full THEN {} ELSE chunks]
      /\ whole' = IF full THEN whole \cup {k} ELSE whole
      /\ task' = [task EXCEPT ![w] = t]
      /\ UNCHANGED <<stage, acked, acks, dropped>>
  BY DEF Chunks!Feed, Chunks!Deliver, Chunks!sending
<1>3. stage[k] # "idle"
  BY <1>1 DEF ChunksInv, NothingBeforeSend
<1>4. full \in BOOLEAN /\ t \in Chunks!Tasks
  BY <1>1 DEF Chunks!Tasks, Chunks!Complete
<1>5. chunks \subseteq Chunks!Chunks(k) /\ chunks \subseteq Nat
  BY <1>1, CompleteIsAll DEF ChunksInv, BuffersIncomplete
<1>6. ~full => chunks # Chunks!Chunks(k)
  BY <1>1, CompleteIsAll
<1>7. {} # Chunks!Chunks(k)
  BY <1>1, CompleteIsAll
<1>8. t.at = "fed" /\ t.of = k /\ (t.full <=> full)
  OBVIOUS
<1> HIDE DEF k, chunks, full, t
<1>9. /\ held'[k] = IF full THEN {} ELSE chunks
      /\ task'[w] = t
      /\ \A j \in ChunkSends : j # k => held'[j] = held[j]
      /\ \A v \in Workers : v # w => task'[v] = task[v]
  <2>1. held \in [ChunkSends -> SUBSET Nat] /\ task \in [Workers -> Chunks!Tasks]
    BY DEF ChunksInv, SendsTyped
  <2>2. held'[k] = IF full THEN {} ELSE chunks
    BY <1>1, <1>2, <2>1
  <2>3. \A j \in ChunkSends : j # k => held'[j] = held[j]
    BY <1>2, <2>1
  <2>4. task'[w] = t /\ \A v \in Workers : v # w => task'[v] = task[v]
    BY <1>2, <2>1
  <2> QED
    BY <2>2, <2>3, <2>4
<1>10. SendsTyped'
  <2>1. held' \in [ChunkSends -> SUBSET Nat]
    BY <1>1, <1>2, <1>5 DEF ChunksInv, SendsTyped
  <2>2. task' \in [Workers -> Chunks!Tasks]
    BY <1>2, <1>4 DEF ChunksInv, SendsTyped
  <2> QED
    BY <1>2, <2>1, <2>2 DEF ChunksInv, SendsTyped
<1>11. NothingBeforeSend'
  BY <1>2, <1>3, <1>8, <1>9 DEF ChunksInv, NothingBeforeSend
<1>12. BuffersIncomplete'
  <2>1. \A j \in ChunkSends : held'[j] \subseteq Chunks!Chunks(j) /\ held'[j] # Chunks!Chunks(j)
    BY <1>5, <1>6, <1>7, <1>9 DEF ChunksInv, BuffersIncomplete
  <2>2. \A v \in Workers : task'[v].at = "fed" /\ task'[v].full => task'[v].of \in whole'
    BY <1>2, <1>8, <1>9 DEF ChunksInv, BuffersIncomplete
  <2> QED
    BY <2>1, <2>2 DEF BuffersIncomplete
<1>13. AckedIsHeld'
  <2> SUFFICES ASSUME NEW j \in ChunkSends, stage[j] = "waiting",
                      j \notin whole' \cup dropped
               PROVE  /\ acked[j] \subseteq held'[j]
                      /\ \A a \in acks : a.of = j => a.chunks \subseteq held'[j]
    BY <1>2 DEF AckedIsHeld
  <2>1. j \notin whole \cup dropped
    BY <1>2
  <2>2. acked[j] \subseteq held[j] /\ \A a \in acks : a.of = j => a.chunks \subseteq held[j]
    BY <2>1 DEF ChunksInv, AckedIsHeld
  <2>3. CASE j # k
    BY <2>2, <2>3, <1>9
  <2>4. CASE j = k
    <3>1. ~full
      BY <2>4, <1>2
    <3>2. held[j] \subseteq held'[j]
      BY <2>4, <3>1, <1>9 DEF chunks
    <3> QED
      BY <2>2, <3>2
  <2> QED
    BY <2>3, <2>4
<1>14. Chunks!AckedMeansWhole'
  BY <1>2 DEF ChunksInv, Chunks!AckedMeansWhole
<1> QED
  BY <1>10, <1>11, <1>12, <1>13, <1>14 DEF ChunksInv

(* The other steps of a worker: only chunks that are held, or all of a     *)
(* message that is whole, are acknowledged.                                *)
LEMMA WorkerStep ==
  ASSUME Chunks!TransportAssumption, ChunksInv, NEW w \in Workers,
         \/ \E d \in net : Chunks!Refuse(w, d)
         \/ Chunks!Acknowledge(w) \/ Chunks!Dispatch(w) \/ Chunks!DropSeen(w)
  PROVE  ChunksInv'
<1> USE DEF ChunksInv, SendsTyped, NothingBeforeSend, BuffersIncomplete, AckedIsHeld,
            Chunks!AckedMeansWhole
<1>1. ASSUME NEW d \in net, Chunks!Refuse(w, d)
      PROVE  ChunksInv'
  <2> DEFINE t == [at |-> "fed", of |-> d.of, full |-> FALSE]
  <2>1. /\ net' \subseteq net /\ task' = [task EXCEPT ![w] = t]
        /\ UNCHANGED <<stage, acked, acks, held, whole, dropped>>
    BY <1>1 DEF Chunks!Refuse, Chunks!Deliver, Chunks!sending
  <2>2. t \in Chunks!Tasks /\ t.of = d.of /\ t.full = FALSE /\ stage[d.of] # "idle"
    BY DEF Chunks!Tasks
  <2> HIDE DEF t
  <2>3. task'[w] = t /\ \A v \in Workers : v # w => task'[v] = task[v]
    BY <2>1
  <2> QED
    BY <2>1, <2>2, <2>3
<1>2. CASE Chunks!Acknowledge(w)
  <2> DEFINE j == task[w].of
             sent == Chunks!Held(j, task[w].full)
             a == [of |-> j, chunks |-> sent]
             t == IF task[w].full THEN [at |-> "dispatch", of |-> j] ELSE Chunks!Idle
  <2>1. /\ acks' = acks \cup {a} /\ task' = [task EXCEPT ![w] = t] /\ task[w].at = "fed"
        /\ UNCHANGED <<stage, acked, net, held, whole, dropped>>
    BY <1>2 DEF Chunks!Acknowledge, Chunks!sending
  <2>2. j \in ChunkSends /\ task[w].full \in BOOLEAN
    BY <2>1 DEF Chunks!Tasks, Chunks!Idle
  <2>3. stage[j] # "idle"
    BY <2>1, <2>2
  <2>4. /\ sent \in SUBSET Nat
        /\ j \notin whole \cup dropped => sent \subseteq held[j]
    BY <2>1, <2>2, CompleteIsAll DEF Chunks!Held
  <2>5. a.of = j /\ a.chunks = sent
    OBVIOUS
  <2>6. t \in Chunks!Tasks /\ (t.at # "idle" => t.of = j) /\ t.at # "fed"
    BY <2>2 DEF Chunks!Tasks, Chunks!Idle
  <2> HIDE DEF a, t, j, sent
  <2>7. task'[w] = t /\ \A v \in Workers : v # w => task'[v] = task[v]
    BY <2>1
  <2>8. SendsTyped'
    BY <2>1, <2>2, <2>4, <2>5, <2>6
  <2>9. NothingBeforeSend'
    BY <2>1, <2>3, <2>5, <2>6, <2>7
  <2>10. BuffersIncomplete'
    BY <2>1, <2>6, <2>7
  <2>11. AckedIsHeld'
    BY <2>1, <2>4, <2>5
  <2>12. Chunks!AckedMeansWhole'
    BY <2>1
  <2> QED
    BY <2>8, <2>9, <2>10, <2>11, <2>12
<1>3. CASE Chunks!Dispatch(w) \/ Chunks!DropSeen(w)
  <2>1. /\ task' = [task EXCEPT ![w] = Chunks!Idle]
        /\ UNCHANGED <<stage, acked, net, acks, held, whole, dropped>>
    BY <1>3 DEF Chunks!Dispatch, Chunks!DropSeen, Chunks!sending
  <2>2. Chunks!Idle \in Chunks!Tasks /\ Chunks!Idle.at = "idle"
    BY DEF Chunks!Idle, Chunks!Tasks
  <2>3. task'[w] = Chunks!Idle /\ \A v \in Workers : v # w => task'[v] = task[v]
    BY <2>1
  <2> QED
    BY <2>1, <2>2, <2>3
<1> QED
  BY <1>1, <1>2, <1>3

(* Time: a send whose buffer is evicted is known to be.                    *)
LEMMA TimeStep ==
  ASSUME Chunks!TransportAssumption, ChunksInv,
         Chunks!Tick \/ Chunks!EvictStale \/ \E m \in DOMAIN ChunksOf : Chunks!Forget(m)
  PROVE  ChunksInv'
<1> USE DEF ChunksInv, SendsTyped, NothingBeforeSend, BuffersIncomplete, AckedIsHeld,
            Chunks!AckedMeansWhole
<1>1. CASE Chunks!Tick \/ \E m \in DOMAIN ChunksOf : Chunks!Forget(m)
  <2>1. UNCHANGED <<stage, acked, net, acks, held, task, whole, dropped>>
    BY <1>1 DEF Chunks!Tick, Chunks!Forget, Chunks!sending
  <2> QED
    BY <2>1
<1>2. CASE Chunks!EvictStale
  <2>1. /\ held' = [k \in ChunkSends |-> IF k \in Chunks!Stale THEN {} ELSE held[k]]
        /\ dropped' = dropped \cup
                        {k \in Chunks!Stale \ whole : stage[k] # "acked"}
        /\ UNCHANGED <<stage, acked, net, acks, task, whole>>
    BY <1>2 DEF Chunks!EvictStale, Chunks!sending
  <2>2. \A k \in ChunkSends :
          stage[k] = "waiting" /\ k \notin whole \cup dropped' => k \notin Chunks!Stale
    BY <2>1
  <2>3. \A k \in ChunkSends : {} # Chunks!Chunks(k)
    BY CompleteIsAll
  <2>4. SendsTyped'
    BY <2>1
  <2>5. NothingBeforeSend' /\ Chunks!AckedMeansWhole'
    BY <2>1
  <2>6. BuffersIncomplete'
    BY <2>1, <2>3
  <2>7. AckedIsHeld'
    BY <2>1, <2>2
  <2> QED
    BY <2>4, <2>5, <2>6, <2>7
<1> QED
  BY <1>1, <1>2

-----------------------------------------------------------------------------

(* A send that heard everything acknowledged was reassembled whole, unless *)
(* evict_stale dropped a part of it in the middle, for any losses,         *)
(* duplicates, delays, workers and ages.                                   *)
THEOREM AcknowledgedIsWhole ==
  ASSUME Chunks!TransportAssumption
  PROVE  Chunks!Spec => []AckedMeansWhole
<1>1. Chunks!Init => ChunksInv
  <2> SUFFICES ASSUME Chunks!Init PROVE ChunksInv
    OBVIOUS
  <2>1. \A k \in ChunkSends : {} # Chunks!Chunks(k)
    BY CompleteIsAll
  <2>2. Chunks!Idle \in Chunks!Tasks /\ Chunks!Idle.at = "idle"
    BY DEF Chunks!Idle, Chunks!Tasks
  <2> USE <2>1, <2>2 DEF Chunks!Init
  <2>3. SendsTyped
    BY DEF SendsTyped
  <2>4. NothingBeforeSend /\ BuffersIncomplete /\ AckedIsHeld /\ Chunks!AckedMeansWhole
    BY DEF NothingBeforeSend, BuffersIncomplete, AckedIsHeld, Chunks!AckedMeansWhole
  <2> QED
    BY <2>3, <2>4 DEF ChunksInv
<1>2. ChunksInv /\ [Chunks!Next]_(Chunks!vars) => ChunksInv'
  <2> SUFFICES ASSUME ChunksInv, [Chunks!Next]_(Chunks!vars) PROVE ChunksInv'
    OBVIOUS
  <2>1. ASSUME NEW k \in ChunkSends,
               Chunks!Send(k) \/ Chunks!Resend(k) \/ Chunks!Finish(k) \/ Chunks!GiveUp(k)
        PROVE  ChunksInv'
    BY <2>1, SenderStep
  <2>2. ASSUME NEW a \in acks, Chunks!HandleAck(a) \/ Chunks!LoseAck(a)
        PROVE  ChunksInv'
    BY <2>2, NetworkStep
  <2>3. ASSUME NEW w \in Workers, NEW d \in net, Chunks!Feed(w, d)
        PROVE  ChunksInv'
    BY <2>3, FeedStep
  <2>4. ASSUME NEW w \in Workers,
               \/ \E d \in net : Chunks!Refuse(w, d)
               \/ Chunks!Acknowledge(w) \/ Chunks!Dispatch(w) \/ Chunks!DropSeen(w)
        PROVE  ChunksInv'
    BY <2>4, WorkerStep
  <2>5. CASE (\E d \in net : Chunks!LoseChunk(d)) \/ Chunks!OtherTraffic
    BY <2>5, NetworkStep
  <2>6. CASE Chunks!EvictStale \/ Chunks!Tick \/ \E m \in DOMAIN ChunksOf : Chunks!Forget(m)
    BY <2>6, TimeStep
  <2>7. CASE UNCHANGED Chunks!vars
    BY <2>7 DEF Chunks!vars, Chunks!sending, Chunks!receiving, ChunksInv, SendsTyped,
                NothingBeforeSend,
                BuffersIncomplete, AckedIsHeld, Chunks!AckedMeansWhole
  <2> QED
    BY <2>1, <2>2, <2>3, <2>4, <2>5, <2>6, <2>7 DEF Chunks!Next
<1>3. ChunksInv => AckedMeansWhole
  BY DEF ChunksInv, AckedMeansWhole
<1> QED
  BY <1>1, <1>2, <1>3, PTL DEF Chunks!Spec

(* A block is handed to the node once, however many senders relay it and   *)
(* however many workers complete it at the same time, and once more only   *)
(* when its id was forgotten.                                              *)
THEOREM HandedOverOnce == Chunks!Spec => []DeliveredOnce
<1> USE DEF SeenInv, SeenTyped
<1>1. Chunks!Init => SeenInv /\ SeenTyped
  BY DEF Chunks!Init
<1>2. SeenInv /\ SeenTyped /\ [Chunks!Next]_(Chunks!vars) => (SeenInv /\ SeenTyped)'
  <2> SUFFICES ASSUME SeenInv, SeenTyped, [Chunks!Next]_(Chunks!vars)
               PROVE  SeenInv' /\ SeenTyped'
    OBVIOUS
  <2>1. ASSUME NEW w \in Workers, Chunks!Dispatch(w)
        PROVE  SeenInv' /\ SeenTyped'
    <3>1. PICK m : /\ m \notin seen /\ seen' = seen \cup {m}
                   /\ delivered' = [delivered EXCEPT ![m] = @ + 1]
                   /\ forgot' = forgot
      BY <2>1 DEF Chunks!Dispatch, Chunks!IsNew
    <3>2. delivered' = [x \in DOMAIN ChunksOf |->
                          IF x = m THEN delivered[x] + 1 ELSE delivered[x]]
      BY <3>1
    <3>3. ASSUME NEW x \in DOMAIN ChunksOf
          PROVE  delivered'[x] = forgot'[x] + (IF x \in seen' THEN 1 ELSE 0)
      <4>1. CASE x = m
        <5>1. delivered[x] = forgot[x] /\ forgot[x] \in Nat
          BY <3>1, <4>1
        <5> QED
          BY <3>1, <3>2, <4>1, <5>1
      <4>2. CASE x # m
        BY <3>1, <3>2, <4>2
      <4> QED
        BY <4>1, <4>2
    <3>4. SeenTyped'
      <4>1. \A x \in DOMAIN ChunksOf : delivered[x] \in Nat /\ delivered[x] + 1 \in Nat
        OBVIOUS
      <4>2. delivered' \in [DOMAIN ChunksOf -> Nat]
        BY <3>2, <4>1
      <4> QED
        BY <3>1, <4>2
    <3> QED
      BY <3>3, <3>4
  <2>2. ASSUME NEW m \in DOMAIN ChunksOf, Chunks!Forget(m)
        PROVE  SeenInv' /\ SeenTyped'
    <3>1. /\ m \in seen /\ seen' = seen \ {m} /\ delivered' = delivered
          /\ forgot' = [forgot EXCEPT ![m] = @ + 1]
      BY <2>2 DEF Chunks!Forget
    <3>2. forgot' = [x \in DOMAIN ChunksOf |-> IF x = m THEN forgot[x] + 1 ELSE forgot[x]]
      BY <3>1
    <3>3. ASSUME NEW x \in DOMAIN ChunksOf
          PROVE  delivered'[x] = forgot'[x] + (IF x \in seen' THEN 1 ELSE 0)
      <4>1. forgot[x] \in Nat /\ delivered[x] = forgot[x] + (IF x \in seen THEN 1 ELSE 0)
        OBVIOUS
      <4> QED
        BY <3>1, <3>2, <4>1
    <3>4. SeenTyped'
      <4>1. \A x \in DOMAIN ChunksOf : forgot[x] \in Nat /\ forgot[x] + 1 \in Nat
        OBVIOUS
      <4>2. forgot' \in [DOMAIN ChunksOf -> Nat]
        BY <3>2, <4>1
      <4> QED
        BY <3>1, <4>2
    <3> QED
      BY <3>3, <3>4
  <2>3. CASE UNCHANGED <<seen, delivered, forgot>>
    BY <2>3
  <2>4. \A k \in ChunkSends :
          Chunks!Send(k) \/ Chunks!Resend(k) \/ Chunks!Finish(k) \/ Chunks!GiveUp(k)
          => UNCHANGED <<seen, delivered, forgot>>
    BY DEF Chunks!Send, Chunks!Resend, Chunks!Finish, Chunks!GiveUp, Chunks!receiving
  <2>5. \A a \in acks : Chunks!HandleAck(a) \/ Chunks!LoseAck(a)
          => UNCHANGED <<seen, delivered, forgot>>
    BY DEF Chunks!HandleAck, Chunks!LoseAck, Chunks!receiving
  <2>6. \A w \in Workers, d \in net : Chunks!Feed(w, d) \/ Chunks!Refuse(w, d)
          => UNCHANGED <<seen, delivered, forgot>>
    BY DEF Chunks!Feed, Chunks!Refuse
  <2>7. \A w \in Workers : Chunks!Acknowledge(w) \/ Chunks!DropSeen(w)
          => UNCHANGED <<seen, delivered, forgot>>
    BY DEF Chunks!Acknowledge, Chunks!DropSeen
  <2>8.   \/ \E d \in net : Chunks!LoseChunk(d)
          \/ Chunks!EvictStale \/ Chunks!OtherTraffic \/ Chunks!Tick \/ UNCHANGED Chunks!vars
        => UNCHANGED <<seen, delivered, forgot>>
    BY DEF Chunks!LoseChunk, Chunks!EvictStale, Chunks!OtherTraffic, Chunks!Tick,
           Chunks!receiving, Chunks!vars
  <2> QED
    BY <2>1, <2>2, <2>3, <2>4, <2>5, <2>6, <2>7, <2>8 DEF Chunks!Next
<1>3. SeenInv /\ SeenTyped => DeliveredOnce
  <2> SUFFICES ASSUME SeenInv, SeenTyped, NEW m \in DOMAIN ChunksOf
               PROVE  delivered[m] <= 1 + forgot[m]
    BY DEF DeliveredOnce, Chunks!DeliveredOnce
  <2>1. forgot[m] \in Nat /\ delivered[m] = forgot[m] + (IF m \in seen THEN 1 ELSE 0)
    OBVIOUS
  <2> QED
    BY <2>1
<1> QED
  BY <1>1, <1>2, <1>3, PTL DEF Chunks!Spec

-----------------------------------------------------------------------------
(* RateLimit: the bucket of a source. *)

LevelTyped ==
  /\ bucket \in [known : BOOLEAN, tokens : 0..Burst, idle : 0..(PruneAge + 1)]
  /\ ideal \in 0..Burst /\ refused \in BOOLEAN

(* A bucket that is not kept stands for a full one; one that is kept has   *)
(* no more than the ordinary bucket, and as much until the first refusal.  *)
SameLevel ==
  /\ ~bucket.known => ideal = Burst
  /\ bucket.known => Limit!Level(bucket) <= ideal
  /\ bucket.known /\ ~refused => Limit!Level(bucket) = ideal

LevelInv == LevelTyped /\ SameLevel

-----------------------------------------------------------------------------

(* What the bucket admits the ordinary bucket can pay for.                 *)
LEMMA AdmittedIsPaid ==
  ASSUME Limit!BucketAssumption, LevelInv, Limit!Allowed(bucket)
  PROVE  ideal >= Cost
<1>1. CASE bucket.known
  BY <1>1 DEF LevelInv, LevelTyped, SameLevel, Limit!Allowed, Limit!Level, Limit!AtMost,
              Limit!BucketAssumption
<1>2. CASE ~bucket.known
  BY <1>2 DEF LevelInv, SameLevel, Limit!BucketAssumption
<1> QED
  BY <1>1, <1>2

(* A datagram: admitted by both, or refused by the code, which forgets     *)
(* what was refilled since the last one.                                   *)
LEMMA ArriveStep ==
  ASSUME Limit!BucketAssumption, Limit!LimitAssumption, LevelInv, Limit!Arrive
  PROVE  LevelInv' /\ ideal' >= 0 /\ (refused' /\ ~refused => ideal < Cost)
<1> USE DEF Limit!BucketAssumption, Limit!LimitAssumption
<1>1. CASE ~bucket.known
  <2>1. /\ bucket' = [known |-> TRUE, tokens |-> Burst - Cost, idle |-> 0]
        /\ ideal' = ideal - Cost /\ ideal = Burst /\ refused' = refused /\ refused \in BOOLEAN
    BY <1>1 DEF LevelInv, LevelTyped, SameLevel, Limit!Arrive, Limit!AfterArrival,
                Limit!FirstBucket, Limit!Bucket, Limit!Allowed
  <2> QED
    BY <2>1 DEF LevelInv, LevelTyped, SameLevel, Limit!Level, Limit!AtMost
<1>2. CASE bucket.known /\ Limit!Allowed(bucket)
  <2>1. /\ bucket' = [known |-> TRUE, tokens |-> Limit!Level(bucket) - Cost, idle |-> 0]
        /\ ideal' = ideal - Cost /\ refused' = refused
    BY <1>2 DEF LevelInv, LevelTyped, Limit!Arrive, Limit!AfterArrival, Limit!Bucket
  <2>2. ideal \in Cost..Burst /\ refused \in BOOLEAN
    BY <1>2, AdmittedIsPaid DEF LevelInv, LevelTyped
  <2>3. Limit!Level(bucket) \in Cost..Burst
    BY <1>2 DEF LevelInv, LevelTyped, Limit!Allowed, Limit!Level, Limit!AtMost
  <2>4. Limit!Level(bucket) <= ideal /\ (~refused => Limit!Level(bucket) = ideal)
    BY <1>2 DEF LevelInv, SameLevel
  <2>5. Limit!Level(bucket') = Limit!Level(bucket) - Cost
    BY <2>1, <2>3 DEF Limit!Level, Limit!AtMost
  <2> QED
    BY <2>1, <2>2, <2>3, <2>4, <2>5 DEF LevelInv, LevelTyped, SameLevel
<1>3. CASE bucket.known /\ ~Limit!Allowed(bucket)
  <2>1. /\ bucket' = [known |-> TRUE, tokens |-> bucket.tokens, idle |-> 0]
        /\ ideal' = ideal /\ refused' = TRUE
    BY <1>3 DEF LevelInv, LevelTyped, Limit!Arrive, Limit!AfterArrival
  <2>2. Limit!Level(bucket) < Cost /\ Limit!Level(bucket') <= Limit!Level(bucket)
    BY <1>3, <2>1 DEF LevelInv, LevelTyped, Limit!Allowed, Limit!Level, Limit!AtMost
  <2>3. bucket.tokens \in 0..Burst /\ ideal \in 0..Burst /\ Limit!Level(bucket) <= ideal
    BY <1>3 DEF LevelInv, LevelTyped, SameLevel
  <2>4. ~refused => ideal < Cost
    BY <1>3, <2>2 DEF LevelInv, SameLevel
  <2>5. Limit!Level(bucket') \in 0..Burst /\ Limit!Level(bucket) \in 0..Burst
    BY <2>1, <2>3 DEF LevelInv, LevelTyped, Limit!Level, Limit!AtMost
  <2> QED
    BY <2>1, <2>2, <2>3, <2>4, <2>5 DEF LevelInv, LevelTyped, SameLevel
<1> QED
  BY <1>1, <1>2, <1>3 DEF LevelInv, LevelTyped

(* A tick refills both; a bucket so old that its age is not counted any    *)
(* further is full.                                                        *)
LEMMA TickStep ==
  ASSUME Limit!BucketAssumption, Limit!LimitAssumption, LevelInv, Limit!Tick
  PROVE  LevelInv' /\ ideal' >= 0 /\ refused' = refused
<1> USE DEF Limit!BucketAssumption, Limit!LimitAssumption
<1>1. /\ ideal' = Limit!AtMost(ideal + 1, Burst) /\ refused' = refused
      /\ ideal \in 0..Burst /\ refused \in BOOLEAN
  BY DEF Limit!Tick, LevelInv, LevelTyped
<1>2. CASE ~bucket.known
  <2>1. bucket' = bucket /\ ideal = Burst
    BY <1>2 DEF Limit!Tick, Limit!Later, LevelInv, SameLevel
  <2> QED
    BY <1>1, <1>2, <2>1 DEF LevelInv, LevelTyped, SameLevel, Limit!AtMost
<1>3. CASE bucket.known
  <2> DEFINE old == Limit!AtMost(bucket.idle + 1, PruneAge + 1)
  <2>1. bucket' = [known |-> TRUE, tokens |-> bucket.tokens, idle |-> old]
    BY <1>3 DEF Limit!Tick, Limit!Later, LevelInv, LevelTyped
  <2>2. bucket.tokens \in 0..Burst /\ bucket.idle \in 0..(PruneAge + 1)
    BY DEF LevelInv, LevelTyped
  <2>3. old \in 0..(PruneAge + 1)
    BY <2>2 DEF Limit!AtMost
  <2>4. Limit!Level(bucket') = Limit!AtMost(Limit!Level(bucket) + 1, Burst)
    BY <2>1, <2>2 DEF Limit!Level, Limit!AtMost
  <2>5. /\ Limit!Level(bucket) <= ideal /\ (~refused => Limit!Level(bucket) = ideal)
        /\ Limit!Level(bucket) \in 0..Burst
    BY <1>3, <2>2 DEF LevelInv, SameLevel, Limit!Level, Limit!AtMost
  <2> HIDE DEF old
  <2>6. /\ Limit!Level(bucket') <= ideal' /\ (~refused => Limit!Level(bucket') = ideal')
        /\ ideal' \in 0..Burst
    BY <1>1, <2>4, <2>5 DEF Limit!AtMost
  <2> QED
    BY <1>1, <2>1, <2>2, <2>3, <2>6 DEF LevelInv, LevelTyped, SameLevel
<1> QED
  BY <1>2, <1>3 DEF LevelInv, LevelTyped

(* A bucket is forgotten when it is full again, so nothing is given away.  *)
LEMMA PruneStep ==
  ASSUME Limit!BucketAssumption, Limit!LimitAssumption, LevelInv, Limit!Prune
  PROVE  LevelInv' /\ ideal' >= 0 /\ refused' = refused
<1> USE DEF Limit!BucketAssumption, Limit!LimitAssumption
<1>1. /\ bucket' = [known |-> FALSE, tokens |-> 0, idle |-> 0]
      /\ ideal' = ideal /\ refused' = refused /\ bucket.known /\ bucket.idle > PruneAge
  BY DEF Limit!Prune, Limit!IsIdle, Limit!NoBucket
<1>2. Limit!Level(bucket) = Burst
  BY <1>1 DEF LevelInv, LevelTyped, Limit!Level, Limit!AtMost
<1>3. ideal = Burst
  BY <1>1, <1>2 DEF LevelInv, LevelTyped, SameLevel
<1> QED
  BY <1>1, <1>3 DEF LevelInv, LevelTyped, SameLevel

-----------------------------------------------------------------------------

(* The limit is that of an ordinary token bucket: it never admits what the *)
(* ordinary one could not pay for, and first refuses when that is empty.   *)
THEOREM LimitIsTokenBucket ==
  ASSUME Limit!BucketAssumption, Limit!LimitAssumption
  PROVE  Limit!Spec => LikeTokenBucket
<1>1. Limit!Init => LevelInv
  <2> SUFFICES ASSUME Limit!Init PROVE LevelInv
    OBVIOUS
  <2>1. bucket = [known |-> FALSE, tokens |-> 0, idle |-> 0] /\ ideal = Burst /\ refused = FALSE
    BY DEF Limit!Init, Limit!NoBucket
  <2>2. 0 \in 0..Burst /\ 0 \in 0..(PruneAge + 1) /\ Burst \in 0..Burst
    BY DEF Limit!BucketAssumption, Limit!LimitAssumption
  <2>3. LevelTyped
    BY <2>1, <2>2 DEF LevelTyped
  <2>4. ~bucket.known
    BY <2>1
  <2>5. SameLevel
    BY <2>1, <2>4 DEF SameLevel
  <2> QED
    BY <2>3, <2>5 DEF LevelInv
<1>2. LevelInv /\ [Limit!Next]_(Limit!vars) =>
        LevelInv' /\ [ideal' >= 0 /\ (refused' /\ ~refused => ideal < Cost)]_(Limit!vars)
  <2> SUFFICES ASSUME LevelInv, [Limit!Next]_(Limit!vars)
               PROVE  /\ LevelInv'
                      /\ [ideal' >= 0 /\ (refused' /\ ~refused => ideal < Cost)]_(Limit!vars)
    OBVIOUS
  <2>1. CASE Limit!Arrive
    BY <2>1, ArriveStep
  <2>2. CASE Limit!Tick
    BY <2>2, TickStep
  <2>3. CASE Limit!Prune
    BY <2>3, PruneStep
  <2>4. CASE UNCHANGED Limit!vars
    BY <2>4 DEF Limit!vars, LevelInv, LevelTyped, SameLevel, Limit!Level
  <2> QED
    BY <2>1, <2>2, <2>3, <2>4 DEF Limit!Next
<1> QED
  BY <1>1, <1>2, PTL DEF Limit!Spec, LikeTokenBucket, Limit!LikeTokenBucket

-----------------------------------------------------------------------------
(* Gossip: the private phase of a transaction. *)

(* A datagram with hops left.                                              *)
IsStem(m) == m.hops > 0

(* The transaction is submitted once and is nowhere before; at most one    *)
(* datagram is a stem.                                                     *)
StemInv ==
  /\ submitted \in BOOLEAN
  /\ ~submitted => txNet = {} /\ localTx = {} /\ \A n \in Nodes : st[n] = "unknown"
  /\ \A m \in txNet : m.hops \in Nat
  /\ \A m, d \in txNet : IsStem(m) /\ IsStem(d) => m = d

(* Whatever a relay adds to datagrams without a stem, it is one stem or    *)
(* a flood.                                                                *)
LEMMA FluffStep ==
  ASSUME NEW n, NEW others, StemInv, others \subseteq txNet, Gossip!Fluff(n, others)
  PROVE  /\ \A m \in txNet' : m.hops \in Nat
         /\ \A m, d \in txNet' : IsStem(m) /\ IsStem(d) => m = d
<1>1. txNet' \subseteq others \cup Gossip!Flood(n)
  BY DEF Gossip!Fluff
<1>2. \A m \in Gossip!Flood(n) : m.hops = 0
  BY DEF Gossip!Flood
<1> QED
  BY <1>1, <1>2 DEF StemInv, IsStem

(* Passing a stem on keeps it the only one.                                *)
LEMMA StemStep ==
  ASSUME NEW n, NEW others, NEW hops \in Nat \ {0}, others \subseteq txNet, StemInv,
         \A m \in others : ~IsStem(m),
         Gossip!Stem(n, hops, others)
  PROVE  /\ \A m \in txNet' : m.hops \in Nat
         /\ \A m, d \in txNet' : IsStem(m) /\ IsStem(d) => m = d
<1>1. PICK p \in known[n] : txNet' = others \cup {[to |-> p, hops |-> hops - 1]}
  BY DEF Gossip!Stem
<1> QED
  BY <1>1 DEF StemInv

(* The private phase is one path, for any nodes, peers, losses and         *)
(* reorganisations: only the origin begins a stem, once, and whoever       *)
(* passes it on gives it away (gossip.py, node.py: the retry floods).      *)
THEOREM StemIsOnePath ==
  ASSUME Gossip!RelayAssumption
  PROVE  Gossip!Spec => []OneStem
<1>1. Gossip!Init => StemInv
  BY DEF Gossip!Init, StemInv
<1>2. StemInv /\ [Gossip!Next]_(Gossip!vars) => StemInv'
  <2> SUFFICES ASSUME StemInv, [Gossip!Next]_(Gossip!vars) PROVE StemInv'
    OBVIOUS
  <2>1. ASSUME NEW n \in Nodes, Gossip!Submit(n)
        PROVE  StemInv'
    <3>1. /\ txNet = {} /\ submitted' = TRUE
          /\ Gossip!StartStem(n, txNet) \/ Gossip!StartFlood(n, txNet)
      BY <2>1 DEF Gossip!Submit, StemInv
    <3>2. CASE Gossip!StartStem(n, txNet)
      <4>1. PICK hops \in HopsMin..HopsMax : Gossip!Stem(n, hops, txNet)
        BY <3>2 DEF Gossip!StartStem
      <4>2. hops \in Nat \ {0}
        BY <4>1 DEF Gossip!RelayAssumption
      <4> QED
        BY <3>1, <4>1, <4>2, StemStep DEF StemInv
    <3>3. CASE Gossip!StartFlood(n, txNet)
      BY <3>1, <3>3, FluffStep DEF Gossip!StartFlood, StemInv
    <3> QED
      BY <3>1, <3>2, <3>3
  <2>2. ASSUME NEW n \in Nodes, Gossip!Retry(n)
        PROVE  StemInv'
    <3>1. /\ txNet' = txNet \cup Gossip!Flood(n) /\ submitted' = submitted /\ submitted
      BY <2>2 DEF Gossip!Retry, Gossip!Reflood, StemInv
    <3>2. \A m \in Gossip!Flood(n) : m.hops = 0
      BY DEF Gossip!Flood
    <3> QED
      BY <3>1, <3>2 DEF StemInv, IsStem
  <2>3. ASSUME NEW n \in Nodes, Gossip!ForgetLocal(n) \/ Gossip!Discover(n)
        PROVE  StemInv'
    BY <2>3 DEF Gossip!ForgetLocal, Gossip!Discover, StemInv, IsStem
  <2>4. ASSUME NEW n \in Nodes, Gossip!Reorganise(n)
        PROVE  StemInv'
    <3>1. submitted' = submitted /\ submitted /\ Gossip!Fluff(n, txNet)
      BY <2>4 DEF Gossip!Reorganise, StemInv
    <3> QED
      BY <3>1, FluffStep DEF StemInv
  <2>5. ASSUME NEW m \in txNet, Gossip!PassOn(m)
        PROVE  StemInv'
    <3> DEFINE others == txNet \ {m}
    <3>1. submitted' = submitted /\ submitted /\ IsStem(m) /\ m.hops \in Nat
      BY <2>5 DEF Gossip!PassOn, StemInv, IsStem
    <3>2. Gossip!Fluff(m.to, others) \/ Gossip!Stem(m.to, m.hops, others)
      BY <2>5 DEF Gossip!PassOn
    <3>3. \A d \in others : ~IsStem(d)
      BY <3>1 DEF StemInv
    <3>4. m.hops \in Nat \ {0}
      BY <3>1 DEF IsStem
    <3> QED
      BY <3>1, <3>2, <3>3, <3>4, FluffStep, StemStep DEF StemInv
  <2>6. ASSUME NEW m \in txNet, Gossip!AcceptTx(m)
        PROVE  StemInv'
    <3>1. submitted' = submitted /\ submitted /\ Gossip!Fluff(m.to, txNet \ {m})
      BY <2>6 DEF Gossip!AcceptTx, Gossip!ContinueFluff, StemInv
    <3> QED
      BY <3>1, FluffStep DEF StemInv
  <2>7. ASSUME NEW m \in txNet, Gossip!RejectTx(m) \/ Gossip!Lose(m)
        PROVE  StemInv'
    BY <2>7 DEF Gossip!RejectTx, Gossip!Lose, StemInv
  <2>8. ASSUME NEW S \in SUBSET Nodes, Gossip!Confirm(S)
        PROVE  StemInv'
    BY <2>8 DEF Gossip!Confirm, StemInv, IsStem
  <2>9. CASE UNCHANGED Gossip!vars
    BY <2>9 DEF Gossip!vars, StemInv, IsStem
  <2> QED
    BY <2>1, <2>2, <2>3, <2>4, <2>5, <2>6, <2>7, <2>8, <2>9 DEF Gossip!Next, Gossip!Receive
<1>3. StemInv => OneStem
  <2> SUFFICES ASSUME StemInv PROVE OneStem
    OBVIOUS
  <2> DEFINE stems == {m \in txNet : m.hops > 0}
  <2>1. Cardinality(stems) <= 1
    <3>1. CASE stems = {}
      BY <3>1, FS_EmptySet
    <3>2. ASSUME NEW m \in stems
          PROVE  Cardinality(stems) <= 1
      <4>1. stems = {m}
        BY DEF StemInv, IsStem
      <4> HIDE DEF stems
      <4> QED
        <5>1. Cardinality({m}) = 1
          BY FS_Singleton
        <5> QED
          BY <4>1, <5>1
    <3> QED
      BY <3>1, <3>2
  <2>2. Gossip!Cardinality(stems) = Cardinality(stems)
    BY DEF Gossip!Cardinality, Cardinality
  <2> QED
    BY <2>1, <2>2 DEF OneStem, Gossip!OneStem
<1> QED
  BY <1>1, <1>2, <1>3, PTL DEF Gossip!Spec

-----------------------------------------------------------------------------
(* Download: what the node gets to replace its chain. *)

(* A block the peer has had on one of its chains: the chain up to it.      *)
PeerBlocks ==
  {c \in Seq(Contents) : \E i \in 1..peer : Sync!IsPrefix(c, PeerChains[i])}

(* What a message may say. *)
SoundMessage(m) ==
  /\ m.kind = "GETSYNC" => m.from \in Int /\ m.to \in Int
  /\ m.kind = "INFO" => m.chain \in Seq(Contents)
  /\ m.kind = "SYNC" => m.page \in Seq(PeerBlocks)

(* The search stays above genesis, and all that is fetched is the peer's.  *)
SyncInv ==
  /\ peer \in 1..Len(PeerChains) /\ local \in Seq(Contents)
  /\ lo \in Nat /\ hi \in Int /\ result \in Nat \cup {-1} /\ remote \in Int /\ fork \in Nat
  /\ call.from \in Int /\ call.to \in Int
  /\ pc = "search" /\ call # Sync!NoCall => lo <= hi
  /\ tail \in Seq(PeerBlocks)
  /\ \A m \in syncNet : SoundMessage(m)
  /\ OnlyPeerChains

(* Blocks that name one another from a prefix on are the prefix extended   *)
(* by what they hold.                                                      *)
LEMMA LinkedIsPath ==
  ASSUME NEW S, NEW t \in Seq(Seq(S)), t # << >>, NEW p, NEW n \in Nat,
         Len(t[1]) = n + 1,
         \A i \in 1..Len(t) :
           SubSeq(t[i], 1, Len(t[i]) - 1) = IF i = 1 THEN p ELSE t[i - 1]
  PROVE  p \o [i \in DOMAIN t |-> t[i][Len(t[i])]] = t[Len(t)]
<1> DEFINE path == p \o [i \in DOMAIN t |-> t[i][Len(t[i])]]
<1>1. Len(t) \in Nat \ {0} /\ DOMAIN t = 1..Len(t) /\ \A i \in 1..Len(t) : t[i] \in Seq(S)
  OBVIOUS
<1>2. p \in Seq(S) /\ Len(p) = n /\ \A k \in 1..n : p[k] = t[1][k]
  <2>1. t[1] \in Seq(S) /\ p = SubSeq(t[1], 1, n)
    BY <1>1
  <2>2. \A k \in 1..n : t[1][k] \in S
    BY <2>1
  <2> QED
    BY <2>1, <2>2, SubSeqProperties
<1>3. ASSUME NEW i \in 2..Len(t), Len(t[i - 1]) = n + i - 1
      PROVE  Len(t[i]) = n + i /\ \A k \in 1..(n + i - 1) : t[i][k] = t[i - 1][k]
  <2>1. t[i] \in Seq(S) /\ t[i - 1] = SubSeq(t[i], 1, Len(t[i]) - 1) /\ Len(t[i]) \in Nat
    BY <1>1
  <2>2. \A k \in 1..(Len(t[i]) - 1) : t[i][k] \in S
    BY <2>1
  <2>3. /\ Len(t[i - 1]) = IF 1 <= Len(t[i]) - 1 THEN Len(t[i]) - 1 ELSE 0
        /\ \A k \in 1..(Len(t[i]) - 1) : t[i - 1][k] = t[i][k]
    BY <2>1, <2>2, SubSeqProperties
  <2> QED
    BY <1>3, <2>1, <2>3
<1> DEFINE Ok(i) == /\ Len(t[i]) = n + i
                    /\ \A k \in 1..n : t[i][k] = p[k]
                    /\ \A k \in 1..i : t[i][n + k] = t[k][Len(t[k])]
           Good == {i \in 0..Len(t) : i = 0 \/ Ok(i)}
<1>4. 0..Len(t) \subseteq Good
  <2>1. ASSUME NEW i \in 1..Len(t), i - 1 \in Good
        PROVE  Ok(i)
    <3>1. CASE i = 1
      BY <1>1, <1>2, <3>1
    <3>2. CASE i # 1
      <4>1. i \in 2..Len(t) /\ Ok(i - 1)
        BY <2>1, <3>2
      <4>2. Len(t[i]) = n + i /\ \A k \in 1..(n + i - 1) : t[i][k] = t[i - 1][k]
        BY <1>3, <4>1
      <4>3. ASSUME NEW k \in 1..i
            PROVE  t[i][n + k] = t[k][Len(t[k])]
        <5>1. CASE k = i
          BY <4>2, <5>1
        <5>2. CASE k < i
          BY <4>1, <4>2, <5>2
        <5> QED
          BY <5>1, <5>2
      <4>4. ASSUME NEW k \in 1..n
            PROVE  t[i][k] = p[k]
        BY <4>1, <4>2
      <4> QED
        BY <4>2, <4>3, <4>4
    <3> QED
      BY <3>1, <3>2
  <2>2. 0 \in Good
    BY <1>1
  <2>3. ASSUME NEW i \in 1..Len(t), i - 1 \in Good
        PROVE  i \in Good
    <3>1. Ok(i)
      BY <2>1, <2>3
    <3> HIDE DEF Ok
    <3> QED
      BY <3>1, <1>1
  <2> HIDE DEF Good
  <2> QED
    BY <1>1, <2>2, <2>3, UpTo
<1>5. ASSUME NEW i \in 1..Len(t)
      PROVE  Ok(i)
  <2>1. i \in Good
    <3>1. i \in 0..Len(t)
      BY <1>1
    <3> HIDE DEF Good
    <3> QED
      BY <3>1, <1>4
  <2> HIDE DEF Ok
  <2> QED
    BY <2>1
<1>6. [i \in DOMAIN t |-> t[i][Len(t[i])]] \in Seq(S)
  <2>1. ASSUME NEW i \in 1..Len(t)
        PROVE  t[i][Len(t[i])] \in S
    <3>1. Ok(i)
      BY <1>5
    <3>2. t[i] \in Seq(S) /\ Len(t[i]) = n + i
      BY <1>1, <3>1
    <3> QED
      BY <3>2
  <2> QED
    BY <1>1, <2>1
<1> DEFINE lasts == [i \in DOMAIN t |-> t[i][Len(t[i])]]
<1>7. Len(lasts) = Len(t) /\ \A k \in 1..Len(t) : lasts[k] = t[k][Len(t[k])]
  BY <1>1
<1>8. t[Len(t)] \in Seq(S) /\ Len(t[Len(t)]) = n + Len(t)
  BY <1>1, <1>5
<1>13. Len(t) \in 1..Len(t)
  BY <1>1
<1>9. /\ \A k \in 1..n : t[Len(t)][k] = p[k]
      /\ \A k \in 1..Len(t) : t[Len(t)][n + k] = lasts[k]
  BY <1>5, <1>7
<1> HIDE DEF lasts, Ok, Good
<1>10. /\ p \o lasts \in Seq(S) /\ Len(p \o lasts) = n + Len(t)
       /\ \A k \in 1..(n + Len(t)) :
            (p \o lasts)[k] = IF k <= n THEN p[k] ELSE lasts[k - n]
  <2>1. lasts \in Seq(S) /\ Len(p) = n /\ Len(lasts) = Len(t)
    BY <1>2, <1>6, <1>7 DEF lasts
  <2>2. /\ p \o lasts \in Seq(S) /\ Len(p \o lasts) = Len(p) + Len(lasts)
        /\ \A k \in 1..(Len(p) + Len(lasts)) :
             (p \o lasts)[k] = IF k <= Len(p) THEN p[k] ELSE lasts[k - Len(p)]
    <3>1. p \in Seq(S)
      BY <1>2
    <3>2. p \o lasts \in Seq(S) /\ Len(p \o lasts) = Len(p) + Len(lasts)
      <4>1. p \o lasts \in Seq(S)
        BY <2>1, <3>1
      <4>2. Len(p \o lasts) = Len(p) + Len(lasts)
        <5>1. lasts \in Seq(S)
          BY <2>1
        <5> QED
          BY <3>1, <5>1, ConcatProperties, Zenon
      <4> QED
        BY <4>1, <4>2
    <3>3. ASSUME NEW k \in 1..(Len(p) + Len(lasts))
          PROVE  (p \o lasts)[k] = IF k <= Len(p) THEN p[k] ELSE lasts[k - Len(p)]
      BY <2>1, <3>1
    <3> QED
      BY <3>2, <3>3
  <2> QED
    BY <2>1, <2>2
<1>11. ASSUME NEW k \in 1..(n + Len(t))
       PROVE  (p \o lasts)[k] = t[Len(t)][k]
  <2>1. CASE k <= n
    <3>1. k \in 1..n
      BY <2>1
    <3> QED
      BY <1>9, <1>10, <2>1, <3>1
  <2>2. CASE ~(k <= n)
    <3>1. k - n \in 1..Len(t) /\ k = n + (k - n)
      BY <1>1, <2>2
    <3>2. t[Len(t)][n + (k - n)] = lasts[k - n]
      BY <1>9, <3>1
    <3> QED
      BY <1>10, <2>2, <3>1, <3>2
  <2> QED
    BY <2>1, <2>2
<1>12. p \o lasts = t[Len(t)]
  BY <1>8, <1>10, <1>11, SeqEqual
<1> QED
  BY <1>12 DEF lasts

(* The peer's chains only become more.                                     *)
LEMMA PeerStep ==
  ASSUME Sync!DownloadAssumption, SyncInv, Sync!PeerMoves
  PROVE  SyncInv'
<1>1. /\ peer' = peer + 1 /\ peer' \in 1..Len(PeerChains) /\ peer \in 1..Len(PeerChains)
      /\ UNCHANGED <<local, lo, hi, result, remote, fork, call, pc, tail, syncNet>>
  BY DEF Sync!PeerMoves, Sync!search, SyncInv, Sync!DownloadAssumption
<1>2. \A i \in 1..peer : i \in 1..peer'
  BY <1>1
<1>3. PeerBlocks \subseteq PeerBlocks'
  BY <1>1, <1>2 DEF PeerBlocks
<1>4. tail' \in Seq(PeerBlocks')
  <2>1. tail \in Seq(PeerBlocks)
    BY DEF SyncInv
  <2> HIDE DEF PeerBlocks
  <2> QED
    BY <1>1, <1>3, <2>1, SeqMonotonic
<1>5. ASSUME NEW m \in syncNet
      PROVE  SoundMessage(m)'
  <2>1. SoundMessage(m)
    BY DEF SyncInv
  <2>2. m.kind = "SYNC" => m.page \in Seq(PeerBlocks')
    <3>1. SUFFICES ASSUME m.kind = "SYNC" PROVE m.page \in Seq(PeerBlocks')
      OBVIOUS
    <3>2. m.page \in Seq(PeerBlocks)
      BY <2>1, <3>1 DEF SoundMessage
    <3> QED
      BY <1>3, <3>2, SeqMonotonic
  <2> QED
    BY <2>1, <2>2 DEF SoundMessage
<1>6. OnlyPeerChains'
  BY <1>1, <1>2 DEF SyncInv, OnlyPeerChains, Sync!OnlyPeerChains
<1> QED
  BY <1>1, <1>4, <1>5, <1>6 DEF SyncInv

(* What is asked for.                                                      *)
LEMMA RequestStep ==
  ASSUME Sync!DownloadAssumption, SyncInv, Sync!Poll \/ Sync!Probe \/ Sync!Fetch \/ Sync!Retry
  PROVE  SyncInv'
<1>1. PICK kind \in {"GETINFO", "GETSYNC"}, from \in Int, to \in Int : Sync!Ask(kind, from, to)
  <2>1. CASE Sync!Poll
    BY <2>1 DEF Sync!Poll
  <2>2. CASE Sync!Probe
    <3>1. Sync!Mid \in Int
      BY DEF Sync!Mid, SyncInv
    <3> QED
      BY <2>2, <3>1 DEF Sync!Probe
  <2>3. CASE Sync!Fetch
    <3>1. Sync!At \in Int /\ Sync!At + FetchChunk - 1 \in Int
      <4>1. Len(tail) \in Int /\ fork \in Int /\ FetchChunk \in Int
        BY DEF SyncInv, Sync!DownloadAssumption
      <4> QED
        BY <4>1 DEF Sync!At
    <3> QED
      BY <2>3, <3>1 DEF Sync!Fetch, SyncInv
  <2>4. CASE Sync!Retry
    BY <2>4 DEF Sync!Retry, SyncInv
  <2> QED
    BY <2>1, <2>2, <2>3, <2>4
<1>2. /\ UNCHANGED <<local, peer, lo, hi, result, remote, fork, tail>>
      /\ call' # Sync!NoCall /\ pc' = "search" => lo <= hi
  BY DEF Sync!Poll, Sync!Probe, Sync!Fetch, Sync!Retry, Sync!Waited, Sync!search, SyncInv
<1> DEFINE id == Sync!FreshId
           asked == [kind |-> kind, id |-> id, from |-> from, to |-> to]
<1>3. syncNet' = syncNet \cup {asked} /\ call' = [id |-> id, from |-> from, to |-> to]
  BY <1>1 DEF Sync!Ask
<1> HIDE DEF id
<1>4. call'.from \in Int /\ call'.to \in Int
  BY <1>3
<1>5. PeerBlocks' = PeerBlocks
  BY <1>2 DEF PeerBlocks
<1>6. SoundMessage(asked)
  BY DEF SoundMessage
<1>7. ASSUME NEW m \in syncNet'
      PROVE  SoundMessage(m)'
  <2>1. SoundMessage(m)
    BY <1>3, <1>6, <1>7 DEF SyncInv
  <2> QED
    BY <2>1, <1>5 DEF SoundMessage
<1>8. OnlyPeerChains'
  BY <1>2 DEF SyncInv, OnlyPeerChains, Sync!OnlyPeerChains
<1> QED
  BY <1>2, <1>4, <1>5, <1>7, <1>8 DEF SyncInv

(* The end of a wait, of a search or of a message, and what an answer      *)
(* means for the search.                                                   *)
LEMMA SearchStep ==
  ASSUME SyncInv,
         \/ Sync!InfoFails \/ Sync!ProbeFails \/ Sync!EndSearch \/ Sync!FetchFails \/ Sync!EndFetch
         \/ \E m \in syncNet : \/ Sync!Informed(m) \/ Sync!Probed(m)
                              \/ Sync!DropLate(m) \/ Sync!Lose(m)
  PROVE  SyncInv'
<1> USE DEF Sync!Unanswered, Sync!Waited, Sync!Hear, Sync!search, Sync!Nobody
<1>1. UNCHANGED <<local, peer>> /\ syncNet' \subseteq syncNet
  BY DEF Sync!InfoFails, Sync!ProbeFails, Sync!EndSearch, Sync!FetchFails, Sync!EndFetch,
         Sync!Informed, Sync!Probed, Sync!DropLate, Sync!Lose
<1>2. PeerBlocks' = PeerBlocks
  BY <1>1 DEF PeerBlocks
<1>3. OnlyPeerChains' /\ \A m \in syncNet' : SoundMessage(m)'
  BY <1>1, <1>2 DEF SyncInv, SoundMessage, OnlyPeerChains, Sync!OnlyPeerChains
<1>4. tail' = tail \/ tail' = << >>
  BY DEF Sync!InfoFails, Sync!ProbeFails, Sync!EndSearch, Sync!FetchFails, Sync!EndFetch,
         Sync!Informed, Sync!Probed, Sync!DropLate, Sync!Lose
<1>5. tail' \in Seq(PeerBlocks')
  BY <1>2, <1>4, EmptySeq DEF SyncInv
<1> DEFINE Searching ==
             /\ lo' \in Nat /\ hi' \in Int /\ result' \in Nat \cup {-1} /\ remote' \in Int
             /\ fork' \in Nat /\ call'.from \in Int /\ call'.to \in Int
             /\ pc' = "search" /\ call' # Sync!NoCall => lo' <= hi'
<1>6. Sync!NoCall.from \in Int /\ Sync!NoCall.to \in Int
  BY DEF Sync!NoCall
<1>7. lo <= hi => Sync!Mid \in Nat
  BY DEF Sync!Mid, SyncInv
<1>8. Sync!Mid \in Int
  BY DEF Sync!Mid, SyncInv
<1>9. ASSUME Sync!InfoFails \/ Sync!FetchFails \/ Sync!EndFetch
      PROVE  Searching
  BY <1>6, <1>9 DEF Sync!InfoFails, Sync!FetchFails, Sync!EndFetch, SyncInv
<1>10. ASSUME Sync!ProbeFails
       PROVE  Searching
  BY <1>6, <1>8, <1>10 DEF Sync!ProbeFails, Sync!SearchLower, SyncInv
<1>11. ASSUME Sync!EndSearch
       PROVE  Searching
  BY <1>11 DEF Sync!EndSearch, SyncInv
<1>12. ASSUME NEW m \in syncNet, Sync!Informed(m)
       PROVE  Searching
  <2>1. Sync!Height(local) \in Int
    BY DEF Sync!Height, SyncInv
  <2>2. Sync!Height(m.chain) \in Int
    <3>1. m.kind = "INFO" /\ SoundMessage(m)
      BY <1>12 DEF Sync!Informed, Sync!Answered, SyncInv
    <3> QED
      BY <3>1 DEF SoundMessage, Sync!Height
  <2>3. call' = Sync!NoCall /\ UNCHANGED fork
    BY <1>12 DEF Sync!Informed, Sync!Answered
  <2>4. \/ pc' = "idle" /\ UNCHANGED <<lo, hi, result, remote>>
        \/ remote' = Sync!Height(m.chain) /\ lo' = 0 /\ hi' = Sync!Height(local) /\ result' = -1
    BY <1>12 DEF Sync!Informed
  <2>5. call'.from \in Int /\ call'.to \in Int /\ fork' \in Nat
    BY <1>6, <2>3 DEF SyncInv
  <2>6. /\ lo' \in Nat /\ hi' \in Int /\ result' \in Nat \cup {-1} /\ remote' \in Int
    BY <2>1, <2>2, <2>4 DEF SyncInv
  <2> QED
    BY <2>3, <2>5, <2>6
<1>13. ASSUME NEW m \in syncNet, Sync!Probed(m)
       PROVE  Searching
  <2>1. lo <= hi /\ Sync!Mid \in Nat
    BY <1>7, <1>13 DEF Sync!Probed, Sync!Answered, SyncInv
  <2> QED
    BY <1>6, <1>13, <2>1 DEF Sync!Probed, Sync!SearchLower, Sync!SearchHigher, SyncInv
<1>14. ASSUME NEW m \in syncNet, Sync!DropLate(m) \/ Sync!Lose(m)
       PROVE  Searching
  BY <1>14 DEF Sync!DropLate, Sync!Lose, SyncInv
<1>15. Searching
  BY <1>9, <1>10, <1>11, <1>12, <1>13, <1>14
<1> QED
  BY <1>1, <1>3, <1>5, <1>15 DEF SyncInv

(* The peer answers with what it has now.                                  *)
LEMMA ServeStep ==
  ASSUME Sync!DownloadAssumption, SyncInv, NEW m \in syncNet, Sync!ServeInfo(m) \/ Sync!ServeSync(m)
  PROVE  SyncInv'
<1> DEFINE chain == PeerChains[peer]
<1>1. UNCHANGED <<local, peer, lo, hi, result, remote, fork, call, pc, tail>>
  BY DEF Sync!ServeInfo, Sync!ServeSync, Sync!search
<1>2. PeerBlocks' = PeerBlocks
  BY <1>1 DEF PeerBlocks
<1>3. chain \in Seq(Contents) /\ Len(chain) \in Nat
  BY DEF SyncInv, Sync!DownloadAssumption
<1>4. ASSUME NEW from \in Int, NEW to \in Int
      PROVE  Sync!Segment(chain, from, to) \in Seq(PeerBlocks)
  <2> DEFINE n == IF to < Sync!Height(chain) THEN to - from + 1 ELSE Len(chain) - from
  <2>1. n \in Int /\ \A i \in 1..n : from + i \in Int /\ from + i <= Len(chain)
    BY <1>3 DEF Sync!Height
  <2>2. ASSUME NEW i \in 1..n
        PROVE  SubSeq(chain, 1, from + i) \in PeerBlocks
    <3> DEFINE block == SubSeq(chain, 1, from + i)
    <3>1. from + i \in Int /\ from + i <= Len(chain)
      BY <2>1
    <3>2. \A k \in 1..(from + i) : chain[k] \in Contents
      BY <1>3, <3>1
    <3>3. /\ block \in Seq(Contents)
          /\ Len(block) = IF 1 <= from + i THEN from + i ELSE 0
      BY <3>1, <3>2, SubSeqProperties
    <3>4. Len(block) <= Len(chain) /\ Len(block) \in Nat
      BY <1>3, <3>1, <3>3
    <3>5. SubSeq(block, 1, Len(block)) = block
      BY <3>3, SubSeqFull
    <3>6. SubSeq(chain, 1, Len(block)) = block
      <4>1. CASE 1 <= from + i
        BY <3>3, <4>1
      <4>2. CASE ~(1 <= from + i)
        BY <3>1, <3>3, <4>2, SubSeqEmpty
      <4> QED
        BY <4>1, <4>2
    <3>7. Sync!IsPrefix(block, PeerChains[peer])
      BY <3>4, <3>5, <3>6 DEF Sync!IsPrefix
    <3>8. peer \in 1..peer
      BY DEF SyncInv
    <3> HIDE DEF block
    <3> QED
      BY <3>3, <3>7, <3>8 DEF PeerBlocks, block
  <2>3. Sync!Segment(chain, from, to) = [i \in 1..n |-> SubSeq(chain, 1, from + i)]
    <3>1. \A i \in 1..n : from + i - 1 + 1 = from + i
      BY <2>1
    <3> QED
      BY <2>1, <3>1 DEF Sync!Segment, Sync!Block
  <2> HIDE DEF n, chain
  <2>4. CASE n \in Nat
    <3> DEFINE e(i) == SubSeq(chain, 1, from + i)
    <3>1. \A i \in 1..n : e(i) \in PeerBlocks
      BY <2>2
    <3> HIDE DEF e, PeerBlocks
    <3>2. [i \in 1..n |-> e(i)] \in Seq(PeerBlocks)
      BY <2>4, <3>1
    <3> QED
      BY <2>3, <3>2 DEF e
  <2>5. CASE n \notin Nat
    <3> DEFINE e(i) == SubSeq(chain, 1, from + i)
    <3>1. 1..n = 1..0
      BY <2>1, <2>5
    <3>2. \A i \in 1..0 : e(i) \in PeerBlocks
      OBVIOUS
    <3> HIDE DEF e, PeerBlocks
    <3>3. [i \in 1..0 |-> e(i)] \in Seq(PeerBlocks)
      BY <3>2
    <3> QED
      BY <2>3, <3>1, <3>3 DEF e
  <2> QED
    BY <2>4, <2>5
<1>5. ASSUME NEW d \in syncNet'
      PROVE  SoundMessage(d)
  <2>1. CASE d \in syncNet
    BY <2>1 DEF SyncInv
  <2>2. CASE d \notin syncNet /\ Sync!ServeInfo(m)
    <3>1. d = [kind |-> "INFO", id |-> m.id, chain |-> chain]
      BY <2>2, <1>5 DEF Sync!ServeInfo
    <3> QED
      BY <1>3, <3>1 DEF SoundMessage
  <2>3. CASE d \notin syncNet /\ Sync!ServeSync(m)
    <3>1. PICK page : /\ d = [kind |-> "SYNC", id |-> m.id, page |-> page]
                      /\ page = << >> \/ page = Sync!Segment(chain, m.from, m.to)
      BY <2>3, <1>5 DEF Sync!ServeSync
    <3>2. m.from \in Int /\ m.to \in Int
      BY <2>3 DEF Sync!ServeSync, SyncInv, SoundMessage
    <3>3. page \in Seq(PeerBlocks)
      BY <1>4, <3>1, <3>2, EmptySeq
    <3> QED
      BY <3>1, <3>3 DEF SoundMessage
  <2> QED
    BY <2>1, <2>2, <2>3
<1>6. \A d \in syncNet' : SoundMessage(d)'
  BY <1>2, <1>5 DEF SoundMessage
<1>7. OnlyPeerChains'
  BY <1>1 DEF SyncInv, OnlyPeerChains, Sync!OnlyPeerChains
<1> QED
  BY <1>1, <1>2, <1>6, <1>7 DEF SyncInv

(* A page that arrived is kept.                                            *)
LEMMA PageStep ==
  ASSUME SyncInv, NEW m \in syncNet, Sync!Fetched(m)
  PROVE  SyncInv'
<1>1. /\ UNCHANGED <<local, peer, lo, hi, result, remote, fork>> /\ call' = Sync!NoCall
      /\ syncNet' \subseteq syncNet /\ tail' = tail \o m.page /\ m.kind = "SYNC"
      /\ pc' # "search"
  BY DEF Sync!Fetched, Sync!Answered, Sync!Hear, Sync!search
<1>2. PeerBlocks' = PeerBlocks
  BY <1>1 DEF PeerBlocks
<1>3. tail \in Seq(PeerBlocks) /\ m.page \in Seq(PeerBlocks)
  BY <1>1 DEF SyncInv, SoundMessage
<1>4. tail' \in Seq(PeerBlocks')
  BY <1>1, <1>2, <1>3, ConcatProperties
<1>5. OnlyPeerChains' /\ \A d \in syncNet' : SoundMessage(d)'
  BY <1>1, <1>2 DEF SyncInv, SoundMessage, OnlyPeerChains, Sync!OnlyPeerChains
<1>6. call'.from \in Int /\ call'.to \in Int
  BY <1>1 DEF Sync!NoCall
<1> QED
  BY <1>1, <1>4, <1>5, <1>6 DEF SyncInv

(* What is adopted is the last block fetched, with the chain it names.     *)
LEMMA ApplyStep ==
  ASSUME SyncInv, Sync!Apply
  PROVE  SyncInv'
<1>1. /\ UNCHANGED <<peer, call, syncNet>> /\ tail' = << >> /\ pc' = "idle"
      /\ lo' = 0 /\ hi' = -1 /\ result' = -1 /\ remote' = 0 /\ fork' = 0
      /\ local' = IF Sync!Better THEN Sync!Spliced ELSE local
  BY DEF Sync!Apply, Sync!Nobody
<1>2. PeerBlocks' = PeerBlocks
  BY <1>1 DEF PeerBlocks
<1>3. ASSUME Sync!Linked
      PROVE  Sync!Spliced \in PeerBlocks
  <2> DEFINE p == SubSeq(local, 1, fork)
  <2>1. tail \in Seq(PeerBlocks) /\ tail # << >> /\ fork \in Nat
    BY <1>3 DEF Sync!Linked, SyncInv
  <2>2. tail \in Seq(Seq(Contents))
    <3>1. PeerBlocks \subseteq Seq(Contents)
      BY DEF PeerBlocks
    <3> QED
      BY <2>1, <3>1, SeqMonotonic
  <2>3. /\ Len(tail[1]) = fork + 1
        /\ \A i \in 1..Len(tail) :
             SubSeq(tail[i], 1, Len(tail[i]) - 1) = IF i = 1 THEN p ELSE tail[i - 1]
    BY <1>3 DEF Sync!Linked, Sync!Front
  <2>4. Sync!Spliced = p \o [i \in DOMAIN tail |-> tail[i][Len(tail[i])]]
    BY DEF Sync!Spliced, Sync!Last
  <2> HIDE DEF p
  <2>5. Sync!Spliced = tail[Len(tail)]
    BY <2>1, <2>2, <2>3, <2>4, LinkedIsPath
  <2>6. Len(tail) \in 1..Len(tail)
    BY <2>1, EmptySeq
  <2> QED
    BY <2>1, <2>5, <2>6, ElementOfSeq
<1>4. local' \in Seq(Contents) /\ OnlyPeerChains'
  <2>1. CASE Sync!Better
    <3>1. local' \in PeerBlocks
      BY <1>1, <1>3, <2>1 DEF Sync!Better
    <3> QED
      BY <1>1, <3>1 DEF PeerBlocks, OnlyPeerChains, Sync!OnlyPeerChains
  <2>2. CASE ~Sync!Better
    BY <1>1, <2>2 DEF SyncInv, OnlyPeerChains, Sync!OnlyPeerChains
  <2> QED
    BY <2>1, <2>2
<1>5. \A d \in syncNet' : SoundMessage(d)'
  BY <1>1, <1>2 DEF SyncInv, SoundMessage
<1>6. tail' \in Seq(PeerBlocks')
  BY <1>1, EmptySeq
<1> QED
  BY <1>1, <1>4, <1>5, <1>6 DEF SyncInv

(* Whatever chains the peer changes between, and whatever is lost or late: *)
(* the node's chain is its own or a part of one the peer has had from      *)
(* genesis on (syncer.py, chainstate.py: each block names the one before). *)
THEOREM AdoptedIsThePeers ==
  ASSUME Sync!DownloadAssumption
  PROVE  Sync!Spec => []OnlyPeerChains
<1>1. Sync!Init => SyncInv
  <2> SUFFICES ASSUME Sync!Init PROVE SyncInv
    OBVIOUS
  <2>1. tail \in Seq(PeerBlocks)
    BY EmptySeq DEF Sync!Init
  <2>2. peer \in 1..Len(PeerChains) /\ local \in Seq(Contents)
    BY DEF Sync!Init, Sync!DownloadAssumption
  <2>3. call.from \in Int /\ call.to \in Int
    BY DEF Sync!Init, Sync!NoCall
  <2>4. OnlyPeerChains /\ syncNet = {}
    BY DEF Sync!Init, OnlyPeerChains, Sync!OnlyPeerChains
  <2> QED
    BY <2>1, <2>2, <2>3, <2>4 DEF Sync!Init, Sync!Nobody, SyncInv
<1>2. SyncInv /\ [Sync!Next]_(Sync!vars) => SyncInv'
  <2> SUFFICES ASSUME SyncInv, [Sync!Next]_(Sync!vars) PROVE SyncInv'
    OBVIOUS
  <2>1. CASE Sync!Step
    BY <2>1, RequestStep, SearchStep, PageStep, ApplyStep DEF Sync!Step
  <2>2. CASE Sync!Network
    BY <2>2, SearchStep, ServeStep DEF Sync!Network
  <2>3. CASE Sync!PeerMoves
    BY <2>3, PeerStep
  <2>4. CASE \E m \in syncNet : Sync!Lose(m)
    BY <2>4, SearchStep
  <2>5. CASE UNCHANGED Sync!vars
    <3>1. UNCHANGED <<local, peer, pc, call, lo, hi, result, remote, fork, tail, syncNet>>
      BY <2>5 DEF Sync!vars, Sync!search
    <3>2. PeerBlocks' = PeerBlocks
      BY <3>1 DEF PeerBlocks
    <3> QED
      BY <3>1, <3>2 DEF SyncInv, SoundMessage, OnlyPeerChains, Sync!OnlyPeerChains
  <2> QED
    BY <2>1, <2>2, <2>3, <2>4, <2>5 DEF Sync!Next
<1>3. SyncInv => OnlyPeerChains
  BY DEF SyncInv
<1> QED
  BY <1>1, <1>2, <1>3, PTL DEF Sync!Spec

-----------------------------------------------------------------------------
(* Bulk: the largest message both limits let through. *)

(* A bucket, and the units a datagram finds in it.                         *)
BulkBuckets == [known : BOOLEAN, tokens : 0..400, idle : 0..400]

Fill(b) == IF b.known THEN Bulky!Level(b) ELSE 400

(* What the receiver has not got.                                          *)
Absent == Bulky!Chunks \ bulkHeld

(* What may be absent when round r begins, for the 4 rounds to make up for *)
(* it: from a full bucket 133 chunks are accepted without a pause between, *)
(* and 100 more for each wait of 1.5 s.                                    *)
Room(r) == IF r = 0 THEN 533 ELSE 100 * (5 - r)

(* The sender's bucket is never below the receiver's, so that whatever is  *)
(* accepted is heard acknowledged; and until a chunk of this round is      *)
(* refused, what is left in the receiver's pays for all that the later     *)
(* rounds have no room for.                                                *)
BulkInv ==
  /\ total \in 0..533 /\ bulkRound \in 0..4 /\ over \in BOOLEAN
  /\ bulkHeld \subseteq Bulky!Chunks /\ bulkAcked = bulkHeld
  /\ chunksToDo \subseteq Absent
  /\ atReceiver \in BulkBuckets /\ atSender \in BulkBuckets
  /\ Fill(atReceiver) >= 1 /\ Fill(atSender) >= Fill(atReceiver)
  /\ total = 0 => over /\ bulkRound = 0 /\ Fill(atReceiver) = 400
  /\ over => bulkHeld = Bulky!Chunks
  /\ ~over =>
       \/ Cardinality(Absent) <= Room(bulkRound + 1)
       \/ /\ chunksToDo = Absent
          /\ Fill(atReceiver) >= 1 + 3 * (Cardinality(Absent) - Room(bulkRound + 1))

(* Time fills a bucket; a datagram that it pays for takes 4 units, of      *)
(* which the pause of 5 ms brings back one.                                *)
LEMMA BucketSteps ==
  ASSUME NEW b \in BulkBuckets
  PROVE  /\ Fill(b) \in 0..400
         /\ Bulky!Allowed(b) <=> Fill(b) >= 4
         /\ Bulky!Pause(Bulky!AfterArrival(b), 1) \in BulkBuckets
         /\ Fill(Bulky!Pause(Bulky!AfterArrival(b), 1)) >= 1
         /\ Fill(b) >= 4 => Fill(Bulky!Pause(Bulky!AfterArrival(b), 1)) = Fill(b) - 3
         /\ Fill(b) < 4 => Fill(Bulky!Pause(Bulky!AfterArrival(b), 1)) <= Fill(b) + 1
         /\ \A n \in Nat : /\ Bulky!Pause(b, n) \in BulkBuckets
                          /\ Fill(Bulky!Pause(b, n)) = Bulky!AtMost(Fill(b) + n, 400)
<1>1. b = [known |-> b.known, tokens |-> b.tokens, idle |-> b.idle]
      /\ b.known \in BOOLEAN /\ b.tokens \in 0..400 /\ b.idle \in 0..400
  BY DEF BulkBuckets
<1>2. b.tokens \in 0..400 /\ b.idle \in 0..400 /\ b.tokens + b.idle \in Nat
  <2>1. b.tokens \in 0..400 /\ b.idle \in 0..400
    BY DEF BulkBuckets
  <2> DEFINE t == b.tokens
             i == b.idle
  <2> HIDE DEF t, i
  <2>2. t \in 0..400 /\ i \in 0..400 => t + i \in Nat
    OBVIOUS
  <2> QED
    BY <2>1, <2>2 DEF t, i
<1>3. \A x \in Nat : Bulky!AtMost(x, 400) = (IF x < 400 THEN x ELSE 400)
                    /\ Bulky!AtMost(x, 400) \in 0..400
  BY DEF Bulky!AtMost
<1>4. Fill(b) \in 0..400 /\ (Bulky!Allowed(b) <=> Fill(b) >= 4)
  <2>1. CASE b.known
    <3>1. Fill(b) = Bulky!AtMost(b.tokens + b.idle, 400)
      BY <2>1 DEF Fill, Bulky!Level
    <3>2. Bulky!Allowed(b) <=> Bulky!AtMost(b.tokens + b.idle, 400) >= 4
      BY <2>1 DEF Bulky!Allowed, Bulky!Level
    <3> QED
      BY <1>3, <1>2, <3>1, <3>2
  <2>2. CASE ~b.known
    BY <2>2 DEF Fill, Bulky!Allowed
  <2> QED
    BY <2>1, <2>2
<1>5. ASSUME NEW n \in Nat
      PROVE  /\ Bulky!Pause(b, n) \in BulkBuckets
             /\ Fill(Bulky!Pause(b, n)) = Bulky!AtMost(Fill(b) + n, 400)
  <2>1. CASE ~b.known
    <3>1. Bulky!Pause(b, n) = b
      BY <2>1 DEF Bulky!Pause, Bulky!Later
    <3> QED
      BY <2>1, <3>1 DEF Fill, Bulky!AtMost
  <2>2. CASE b.known
    <3> DEFINE i == Bulky!AtMost(b.idle + n, 400)
    <3>1. Bulky!Pause(b, n) = [known |-> TRUE, tokens |-> b.tokens, idle |-> i] /\ i \in 0..400
      <4>1. Bulky!Pause(b, n) = [b EXCEPT !.idle = i]
        BY <2>2 DEF Bulky!Pause, Bulky!Later
      <4>2. b.idle + n \in Nat
        BY <1>2
      <4>3. i \in 0..400
        BY <1>3, <4>2
      <4> HIDE DEF i
      <4>4. [b EXCEPT !.idle = i] = [known |-> b.known, tokens |-> b.tokens, idle |-> i]
        BY <1>1
      <4> QED
        BY <2>2, <4>1, <4>3, <4>4, Zenon
    <3>2. /\ Fill(Bulky!Pause(b, n)) = Bulky!AtMost(b.tokens + i, 400)
          /\ Fill(b) = Bulky!AtMost(b.tokens + b.idle, 400)
      BY <2>2, <3>1 DEF Fill, Bulky!Level
    <3>3. Bulky!AtMost(b.tokens + i, 400)
            = Bulky!AtMost(Bulky!AtMost(b.tokens + b.idle, 400) + n, 400)
      <4> DEFINE t == b.tokens
                 j == b.idle
                 k == Bulky!AtMost(t + j, 400)
      <4>1. t \in 0..400 /\ j \in 0..400
        BY <1>2
      <4> HIDE DEF t, j
      <4>2. /\ Bulky!AtMost(j + n, 400) = (IF j + n < 400 THEN j + n ELSE 400)
            /\ k = (IF t + j < 400 THEN t + j ELSE 400)
            /\ Bulky!AtMost(j + n, 400) \in 0..400 /\ k \in 0..400
        BY <1>3, <4>1
      <4> DEFINE m == Bulky!AtMost(j + n, 400)
      <4> HIDE DEF k, m
      <4>3. /\ Bulky!AtMost(t + m, 400) = (IF t + m < 400 THEN t + m ELSE 400)
            /\ Bulky!AtMost(k + n, 400) = (IF k + n < 400 THEN k + n ELSE 400)
        BY <1>3, <4>1, <4>2 DEF m
      <4>4. Bulky!AtMost(t + m, 400) = Bulky!AtMost(k + n, 400)
        BY <4>1, <4>2, <4>3 DEF m
      <4> QED
        BY <4>4 DEF t, j, k, m, i
    <3> QED
      BY <1>1, <3>1, <3>2, <3>3 DEF BulkBuckets
  <2> QED
    BY <1>1, <2>1, <2>2
<1> DEFINE d == Bulky!AfterArrival(b)
           e == Bulky!Pause(d, 1)
<1>6. /\ d \in BulkBuckets /\ d.known
      /\ Fill(b) >= 4 => d.tokens = Fill(b) - 4 /\ d.idle = 0
      /\ Fill(b) < 4 => d.tokens = b.tokens /\ d.idle = 0
  <2>1. CASE ~b.known
    <3>1. d = [known |-> TRUE, tokens |-> 396, idle |-> 0]
      <4>1. d = Bulky!FirstBucket
        BY <2>1 DEF Bulky!AfterArrival, Bulky!Allowed
      <4>2. Bulky!FirstBucket = [known |-> TRUE, tokens |-> 400 - 4, idle |-> 0] /\ 400 - 4 = 396
        BY DEF Bulky!FirstBucket, Bulky!Bucket
      <4> QED
        BY <4>1, <4>2, Zenon
    <3> HIDE DEF d
    <3> QED
      BY <2>1, <3>1 DEF BulkBuckets, Fill
  <2>2. CASE b.known /\ ~(Fill(b) >= 4)
    <3>1. d = [b EXCEPT !.idle = 0]
      BY <1>4, <2>2 DEF Bulky!AfterArrival
    <3> QED
      BY <1>1, <1>4, <2>2, <3>1 DEF BulkBuckets
  <2>3. CASE b.known /\ Fill(b) >= 4
    <3>1. d = [known |-> TRUE, tokens |-> Fill(b) - 4, idle |-> 0]
      BY <1>4, <2>3 DEF Bulky!AfterArrival, Bulky!Bucket, Fill
    <3>2. Fill(b) - 4 \in 0..400
      BY <1>4, <2>3
    <3> QED
      BY <1>4, <2>3, <3>1, <3>2 DEF BulkBuckets
  <2> QED
    BY <1>1, <2>1, <2>2, <2>3
<1> HIDE DEF d
<1>7. e \in BulkBuckets /\ e.known /\ Fill(e) = Bulky!AtMost(d.tokens + 1, 400)
  <2>1. e = [d EXCEPT !.idle = 1] /\ d.tokens \in 0..400
    <3>1. e = [d EXCEPT !.idle = Bulky!AtMost(d.idle + 1, 400)]
      BY <1>6 DEF Bulky!Pause, Bulky!Later
    <3>2. d.idle = 0 /\ d.tokens \in 0..400
      BY <1>4, <1>6 DEF BulkBuckets
    <3>3. Bulky!AtMost(0 + 1, 400) = 1
      BY <1>3
    <3> QED
      BY <3>1, <3>2, <3>3
  <2> QED
    BY <1>6, <2>1 DEF BulkBuckets, Fill, Bulky!Level
<1>8. /\ Fill(e) >= 1
      /\ Fill(b) >= 4 => Fill(e) = Fill(b) - 3
      /\ Fill(b) < 4 => Fill(e) <= Fill(b) + 1
  <2>1. d.tokens \in 0..400 /\ (Fill(b) < 4 => b.tokens <= Fill(b))
    <3>1. d.tokens \in 0..400
      BY <1>6 DEF BulkBuckets
    <3>2. CASE b.known
      <4>1. Fill(b) = Bulky!AtMost(b.tokens + b.idle, 400) /\ b.tokens + b.idle \in Nat
        BY <1>2, <3>2 DEF Fill, Bulky!Level
      <4> DEFINE x == b.tokens + b.idle
      <4>2. b.tokens <= x
        <5> DEFINE t == b.tokens
                   i == b.idle
        <5> HIDE DEF t, i
        <5>1. t \in 0..400 /\ i \in 0..400 => t <= t + i
          OBVIOUS
        <5> QED
          BY <1>2, <5>1 DEF t, i
      <4>3. Fill(b) = Bulky!AtMost(x, 400) /\ x \in Nat
        BY <4>1
      <4> HIDE DEF x
      <4>4. Fill(b) < 4 => x = Fill(b)
        BY <1>3, <4>3
      <4> QED
        BY <1>2, <3>1, <4>2, <4>3, <4>4
    <3>3. CASE ~b.known
      BY <3>1, <3>3 DEF Fill
    <3> QED
      BY <3>1, <3>2, <3>3
  <2> QED
    BY <1>4, <1>6, <1>7, <2>1 DEF Bulky!AtMost
<1> QED
  BY <1>4, <1>5, <1>7, <1>8 DEF d

(* What is absent can be counted; a chunk that arrives is absent no more.  *)
LEMMA AbsentFacts ==
  ASSUME BulkInv
  PROVE  /\ IsFiniteSet(Absent) /\ Cardinality(Absent) \in 0..total
         /\ Absent = {} <=> Cardinality(Absent) = 0
         /\ \A c \in Absent : Cardinality(Absent \ {c}) = Cardinality(Absent) - 1
         /\ Bulky!Chunks \in SUBSET Nat
<1>1. total \in Nat /\ 0 \in Int /\ total - 1 \in Int
  BY DEF BulkInv
<1>2. IsFiniteSet(Bulky!Chunks) /\ Cardinality(Bulky!Chunks) = total
  BY <1>1, FS_Interval DEF Bulky!Chunks
<1>3. Absent \in SUBSET Bulky!Chunks
  BY DEF Absent
<1>4. IsFiniteSet(Absent) /\ Cardinality(Absent) <= total
  BY <1>2, <1>3, FS_Subset
<1>5. Cardinality(Absent) \in Nat
  BY <1>4, FS_CardinalityType
<1>6. Absent = {} <=> Cardinality(Absent) = 0
  BY <1>4, FS_EmptySet
<1>7. \A c \in Absent : Cardinality(Absent \ {c}) = Cardinality(Absent) - 1
  BY <1>4, FS_RemoveElement
<1> QED
  BY <1>1, <1>4, <1>5, <1>6, <1>7 DEF Bulky!Chunks

(* The next chunk is one of those to send.                                 *)
LEMMA NextChunk ==
  ASSUME BulkInv, chunksToDo # {}
  PROVE  Bulky!Min(chunksToDo) \in chunksToDo
<1>1. chunksToDo \in SUBSET Nat
  BY AbsentFacts DEF BulkInv, Absent
<1>2. PICK x \in chunksToDo : \A y \in chunksToDo : x <= y
  BY <1>1, Least
<1> QED
  BY <1>2 DEF Bulky!Min

(* A chunk is sent: accepted and heard acknowledged, or refused because    *)
(* the rounds to come have room for what is absent.                        *)
LEMMA BulkSends == ASSUME BulkInv, Bulky!SendChunk PROVE BulkInv'
<1> DEFINE c == Bulky!Min(chunksToDo)
           n == Cardinality(Absent)
           r == bulkRound
<1>1. /\ ~over /\ chunksToDo # {} /\ chunksToDo' = chunksToDo \ {c}
      /\ bulkHeld' = IF Bulky!Allowed(atReceiver) THEN bulkHeld \cup {c} ELSE bulkHeld
      /\ bulkAcked' = IF Bulky!Allowed(atReceiver) /\ Bulky!Allowed(atSender)
                      THEN bulkAcked \cup bulkHeld' ELSE bulkAcked
      /\ atReceiver' = Bulky!Pause(Bulky!AfterArrival(atReceiver), 1)
      /\ atSender' = Bulky!Pause(IF Bulky!Allowed(atReceiver) THEN Bulky!AfterArrival(atSender)
                                 ELSE atSender, 1)
      /\ UNCHANGED <<total, bulkRound, over>>
  BY DEF Bulky!SendChunk, Bulky!HeldWith
<1>2. /\ r \in 0..4 /\ total \in 0..533 /\ bulkAcked = bulkHeld /\ bulkHeld \subseteq Bulky!Chunks
      /\ chunksToDo \subseteq Absent /\ atReceiver \in BulkBuckets /\ atSender \in BulkBuckets
      /\ Fill(atReceiver) >= 1 /\ Fill(atSender) >= Fill(atReceiver) /\ total # 0
      /\ \/ n <= Room(r + 1)
         \/ chunksToDo = Absent /\ Fill(atReceiver) >= 1 + 3 * (n - Room(r + 1))
  BY <1>1 DEF BulkInv
<1>3. /\ Fill(atReceiver) \in 0..400 /\ Fill(atSender) \in 0..400
      /\ Bulky!Allowed(atReceiver) <=> Fill(atReceiver) >= 4
      /\ Bulky!Allowed(atSender) <=> Fill(atSender) >= 4
  BY <1>2, BucketSteps
<1>4. c \in chunksToDo /\ c \in Absent /\ c \in Bulky!Chunks
  BY <1>1, <1>2, NextChunk DEF Absent
<1>5. n \in Nat /\ n <= total /\ Cardinality(Absent \ {c}) = n - 1 /\ Room(r + 1) \in Nat
  BY <1>2, <1>4, AbsentFacts DEF Room
<1>6. Bulky!Chunks' = Bulky!Chunks /\ Room(bulkRound + 1)' = Room(r + 1)
  BY <1>1 DEF Bulky!Chunks, Room
<1>7. /\ atReceiver' \in BulkBuckets /\ Fill(atReceiver') >= 1 /\ Fill(atReceiver') \in 0..400
      /\ Fill(atReceiver) >= 4 => Fill(atReceiver') = Fill(atReceiver) - 3
      /\ Fill(atReceiver) < 4 => Fill(atReceiver') <= Fill(atReceiver) + 1
  BY <1>1, <1>2, BucketSteps
<1> HIDE DEF c, n, r
<1>8. CASE Fill(atReceiver) >= 4
  <2>1. /\ bulkHeld' = bulkHeld \cup {c} /\ bulkAcked' = bulkHeld'
        /\ atSender' = Bulky!Pause(Bulky!AfterArrival(atSender), 1) /\ Fill(atSender) >= 4
    BY <1>1, <1>2, <1>3, <1>8
  <2>2. atSender' \in BulkBuckets /\ Fill(atSender') = Fill(atSender) - 3
    BY <1>2, <2>1, BucketSteps
  <2>3. /\ bulkHeld' \subseteq Bulky!Chunks' /\ Absent' = Absent \ {c}
        /\ chunksToDo' \subseteq Absent'
        /\ chunksToDo = Absent => chunksToDo' = Absent'
    BY <1>1, <1>2, <1>4, <1>6, <2>1 DEF Absent
  <2>4. Cardinality(Absent)' = n - 1
    BY <1>5, <2>3
  <2>5. Fill(atReceiver') = Fill(atReceiver) - 3 /\ Fill(atSender') >= Fill(atReceiver')
    <3> DEFINE x == Fill(atReceiver)
               y == Fill(atSender)
    <3>1. /\ x \in 0..400 /\ y \in 0..400 /\ y >= x
          /\ Fill(atReceiver') = x - 3 /\ Fill(atSender') = y - 3
      BY <1>2, <1>3, <1>7, <1>8, <2>2
    <3> HIDE DEF x, y
    <3>2. y - 3 >= x - 3
      BY <3>1
    <3> QED
      BY <3>1, <3>2 DEF x
  <2>6. \/ n - 1 <= Room(r + 1)
        \/ chunksToDo' = Absent' /\ Fill(atReceiver') >= 1 + 3 * ((n - 1) - Room(r + 1))
    BY <1>2, <1>3, <1>5, <2>3, <2>5
  <2> QED
    BY <1>1, <1>2, <1>6, <1>7, <2>1, <2>2, <2>3, <2>4, <2>5, <2>6 DEF BulkInv, r, Fill
<1>9. CASE ~(Fill(atReceiver) >= 4)
  <2>1. /\ bulkHeld' = bulkHeld /\ bulkAcked' = bulkAcked
        /\ atSender' = Bulky!Pause(atSender, 1)
    BY <1>1, <1>3, <1>9
  <2>2. atSender' \in BulkBuckets /\ Fill(atSender') = Bulky!AtMost(Fill(atSender) + 1, 400)
    BY <1>2, <2>1, BucketSteps
  <2>3. Absent' = Absent /\ chunksToDo' \subseteq Absent'
    BY <1>1, <1>2, <1>6, <2>1 DEF Absent
  <2>4. Fill(atSender') >= Fill(atReceiver')
    BY <1>2, <1>3, <1>7, <1>9, <2>2 DEF Bulky!AtMost
  <2>5. n <= Room(r + 1) /\ Cardinality(Absent)' = n
    BY <1>2, <1>3, <1>5, <1>9, <2>3 DEF n
  <2> QED
    BY <1>1, <1>2, <1>6, <1>7, <2>1, <2>2, <2>3, <2>4, <2>5 DEF BulkInv, r, Fill
<1> QED
  BY <1>8, <1>9

(* A round begins with what is absent and what the wait brought, or all of *)
(* it is there.                                                            *)
LEMMA BulkWaits == ASSUME BulkInv, Bulky!NextRound PROVE BulkInv'
<1> DEFINE n == Cardinality(Absent)
           r == bulkRound
<1>1. /\ ~over /\ chunksToDo = {} /\ r < 4
      /\ UNCHANGED <<total, bulkHeld, bulkAcked>>
  BY DEF Bulky!NextRound
<1>2. /\ r \in 0..4 /\ total \in 0..533 /\ bulkAcked = bulkHeld /\ bulkHeld \subseteq Bulky!Chunks
      /\ atReceiver \in BulkBuckets /\ atSender \in BulkBuckets
      /\ Fill(atReceiver) >= 1 /\ Fill(atSender) >= Fill(atReceiver) /\ total # 0
      /\ n <= Room(r + 1) \/ Absent = {}
  BY <1>1 DEF BulkInv
<1>3. n \in Nat /\ (Absent = {} => n = 0) /\ Room(r + 1) \in Nat
  BY <1>1, <1>2, AbsentFacts DEF Room
<1>4. Bulky!Chunks' = Bulky!Chunks /\ Absent' = Absent
  BY <1>1 DEF Bulky!Chunks, Absent
<1>5. CASE Bulky!Chunks \subseteq bulkAcked
  <2>1. over' = TRUE /\ UNCHANGED <<chunksToDo, bulkRound, atReceiver, atSender>>
    BY <1>5 DEF Bulky!NextRound
  <2>2. bulkHeld' = Bulky!Chunks'
    BY <1>1, <1>2, <1>4, <1>5
  <2> QED
    BY <1>1, <1>2, <1>4, <2>1, <2>2 DEF BulkInv, Fill
<1>6. CASE ~(Bulky!Chunks \subseteq bulkAcked)
  <2>1. /\ chunksToDo' = Absent /\ bulkRound' = r + 1 /\ over' = over
        /\ atReceiver' = Bulky!Pause(atReceiver, 300)
        /\ atSender' = Bulky!Pause(atSender, 300)
    BY <1>2, <1>6 DEF Bulky!NextRound, Bulky!Missing, Absent
  <2>2. /\ Fill(atReceiver) \in 0..400 /\ Fill(atSender) \in 0..400
        /\ atReceiver' \in BulkBuckets
        /\ Fill(atReceiver') = Bulky!AtMost(Fill(atReceiver) + 300, 400)
        /\ atSender' \in BulkBuckets /\ Fill(atSender') = Bulky!AtMost(Fill(atSender) + 300, 400)
    BY <1>2, <2>1, BucketSteps
  <2>3. /\ Fill(atReceiver') >= 301 /\ Fill(atSender') >= Fill(atReceiver')
        /\ Fill(atReceiver') \in Nat
    <3> DEFINE x == Fill(atReceiver)
               y == Fill(atSender)
    <3>1. x \in 0..400 /\ y \in 0..400 /\ y >= x /\ x >= 1
      BY <1>2, <2>2
    <3> HIDE DEF x, y
    <3>2. /\ Bulky!AtMost(x + 300, 400) \in Nat /\ Bulky!AtMost(x + 300, 400) >= 301
          /\ Bulky!AtMost(y + 300, 400) >= Bulky!AtMost(x + 300, 400)
      BY <3>1 DEF Bulky!AtMost
    <3> QED
      BY <2>2, <3>2 DEF x, y
  <2>5. n <= Room(r + 2) + 100 /\ Room(r + 2) \in Nat
    BY <1>1, <1>2, <1>3 DEF Room
  <2>6. /\ Fill(atReceiver') >= 1 + 3 * (n - Room(r + 2))
        /\ Room(bulkRound + 1)' = Room(r + 2)
    <3>1. 1 + 3 * (n - Room(r + 2)) <= 301
      BY <1>3, <2>5
    <3> QED
      BY <1>2, <1>3, <2>1, <2>3, <2>5, <3>1 DEF Room
  <2>7. Cardinality(Absent)' = n
    BY <1>4
  <2> HIDE DEF n
  <2> QED
    <3>1. bulkRound' \in 0..4
      BY <1>1, <1>2, <2>1
    <3>2. /\ total' = total /\ bulkHeld' = bulkHeld /\ bulkAcked' = bulkAcked /\ over' = over
          /\ chunksToDo' = Absent' /\ ~over' /\ over' \in BOOLEAN
      BY <1>1, <1>4, <2>1 DEF BulkInv
    <3>3. Fill(atReceiver)' = Fill(atReceiver') /\ Fill(atSender)' = Fill(atSender')
      BY DEF Fill, Bulky!Level, Bulky!AtMost
    <3>4. Fill(atReceiver') >= 1
      BY <2>3
    <3> QED
      BY <1>1, <1>2, <1>4, <2>2, <2>3, <2>6, <2>7, <3>1, <3>2, <3>3, <3>4 DEF BulkInv
<1> QED
  BY <1>5, <1>6

(* Any message of up to 533 chunks (745 KB) gets through the rate limits   *)
(* of both ends within the four rounds: 133 of its chunks at once and 100  *)
(* in each round (peer_udp.py: _send_chunked, _retransmit_until_acked and  *)
(* _allow_rate, with the constants they have there).                       *)
THEOREM LargeMessagesArrive ==
  ASSUME Sizes \subseteq 2..533
  PROVE  Bulky!Spec => []BulkArrives
<1>1. Bulky!Init => BulkInv
  <2> SUFFICES ASSUME Bulky!Init PROVE BulkInv
    OBVIOUS
  <2>1. /\ total = 0 /\ chunksToDo = {} /\ bulkRound = 0 /\ bulkHeld = {} /\ bulkAcked = {}
        /\ atReceiver = Bulky!NoBucket /\ atSender = Bulky!NoBucket /\ over = TRUE
    BY DEF Bulky!Init
  <2>2. Bulky!Chunks = {}
    BY <2>1 DEF Bulky!Chunks
  <2>3. Bulky!NoBucket \in BulkBuckets /\ Fill(Bulky!NoBucket) = 400
    BY DEF Bulky!NoBucket, BulkBuckets, Fill
  <2> QED
    BY <2>1, <2>2, <2>3 DEF BulkInv
<1>2. BulkInv /\ [Bulky!Next]_(Bulky!vars) => BulkInv'
  <2> SUFFICES ASSUME BulkInv, [Bulky!Next]_(Bulky!vars) PROVE BulkInv'
    OBVIOUS
  <2>1. ASSUME NEW size \in Sizes, Bulky!Begin(size)
        PROVE  BulkInv'
    <3>1. /\ total = 0 /\ total' = size /\ chunksToDo' = 0..(size - 1) /\ over' = FALSE
          /\ UNCHANGED <<bulkRound, bulkHeld, bulkAcked, atReceiver, atSender>>
          /\ size \in 2..533
      BY <2>1 DEF Bulky!Begin
    <3>2. /\ Bulky!Chunks = {} /\ Bulky!Chunks' = 0..(size - 1)
      BY <3>1 DEF Bulky!Chunks
    <3>3. /\ bulkHeld = {} /\ bulkAcked = {} /\ bulkRound = 0 /\ Fill(atReceiver) = 400
          /\ atReceiver \in BulkBuckets /\ atSender \in BulkBuckets
          /\ Fill(atSender) >= Fill(atReceiver)
      BY <3>1, <3>2 DEF BulkInv
    <3>4. Absent' = 0..(size - 1)
      BY <3>1, <3>2, <3>3 DEF Absent
    <3>5. Cardinality(Absent)' = size
      <4>1. 0 \in Int /\ size - 1 \in Int /\ ~(0 > size - 1) /\ (size - 1) - 0 + 1 = size
        BY <3>1
      <4> QED
        BY <3>4, <4>1, FS_Interval
    <3>6. Room(bulkRound + 1)' = 400
      BY <3>1, <3>3 DEF Room
    <3>7. /\ total' \in 0..533 /\ total' # 0 /\ bulkRound' = 0 /\ ~over' /\ over' \in BOOLEAN
          /\ bulkHeld' \subseteq Bulky!Chunks' /\ bulkAcked' = bulkHeld'
          /\ chunksToDo' = Absent'
      <4>1. total' \in 0..533 /\ total' # 0
        BY <3>1
      <4>2. bulkRound' = 0 /\ ~over' /\ over' \in BOOLEAN
        BY <3>1, <3>3
      <4>3. bulkHeld' = {} /\ bulkAcked' = {}
        BY <3>1, <3>3
      <4>4. chunksToDo' = Absent'
        BY <3>1, <3>4, Zenon
      <4> QED
        BY <4>1, <4>2, <4>3, <4>4
    <3>8. Fill(atReceiver)' = 400 /\ Fill(atSender)' = Fill(atSender)
      BY <3>1, <3>3 DEF Fill, Bulky!Level, Bulky!AtMost
    <3>9. /\ atReceiver' \in BulkBuckets /\ atSender' \in BulkBuckets
          /\ Fill(atReceiver)' >= 1 /\ Fill(atSender)' >= Fill(atReceiver)'
      BY <3>1, <3>3, <3>8
    <3>10. Fill(atReceiver)' >= 1 + 3 * (Cardinality(Absent)' - Room(bulkRound + 1)')
      BY <3>1, <3>5, <3>6, <3>8
    <3> QED
      BY <3>7, <3>9, <3>10 DEF BulkInv
  <2>2. CASE Bulky!GiveUp
    <3>1. /\ ~over /\ chunksToDo = {} /\ bulkRound = 4 /\ over' = TRUE
          /\ UNCHANGED <<total, chunksToDo, bulkRound, bulkHeld, bulkAcked, atReceiver, atSender>>
      BY <2>2 DEF Bulky!GiveUp
    <3>2. Absent = {}
      <4>1. Cardinality(Absent) <= 0 \/ Absent = {}
        BY <3>1 DEF BulkInv, Room
      <4>2. Cardinality(Absent) \in Nat /\ (Absent = {} <=> Cardinality(Absent) = 0)
        BY AbsentFacts DEF BulkInv
      <4> QED
        BY <4>1, <4>2
    <3>3. bulkHeld = Bulky!Chunks
      BY <3>2 DEF Absent, BulkInv
    <3>4. Bulky!Chunks' = Bulky!Chunks /\ Absent' = Absent
      BY <3>1 DEF Bulky!Chunks, Absent
    <3> QED
      BY <3>1, <3>3, <3>4 DEF BulkInv, Fill
  <2>3. CASE UNCHANGED Bulky!vars
    <3>1. UNCHANGED <<total, chunksToDo, bulkRound, bulkHeld, bulkAcked, atReceiver, atSender,
                      over>>
      BY <2>3 DEF Bulky!vars
    <3>2. Bulky!Chunks' = Bulky!Chunks /\ Absent' = Absent
      BY <3>1 DEF Bulky!Chunks, Absent
    <3> QED
      BY <3>1, <3>2 DEF BulkInv, Fill
  <2> QED
    BY <2>1, <2>2, <2>3, BulkSends, BulkWaits DEF Bulky!Next
<1>3. BulkInv => BulkArrives
  BY DEF BulkInv, BulkArrives, Bulky!BulkArrives
<1> QED
  BY <1>1, <1>2, <1>3, PTL DEF Bulky!Spec

-----------------------------------------------------------------------------
(* The worlds of the run. *)

(* A behaviour of one of the worlds is a behaviour of each component: the  *)
(* others stand still.                                                     *)
LEMMA NetworkIsComponents ==
  WorldSpec =>
    Spec /\ Chunks!Spec /\ Limit!Spec /\ Bulky!Spec /\ Gossip!Spec /\ Sync!Spec
<1>1. WorldInit =>
        Init /\ Chunks!Init /\ Limit!Init /\ Bulky!Init /\ Gossip!Init /\ Sync!Init
  BY DEF WorldInit
<1>2. [WorldNext]_<<world, vars, chunkVars, workerVars, limitVars, bulkVars, txVars, syncVars>> =>
        /\ [Next]_vars /\ [Chunks!Next]_(Chunks!vars) /\ [Limit!Next]_(Limit!vars)
        /\ [Bulky!Next]_(Bulky!vars) /\ [Gossip!Next]_(Gossip!vars) /\ [Sync!Next]_(Sync!vars)
  BY DEF WorldNext, vars, chunkVars, workerVars, limitVars, bulkVars, txVars, syncVars,
         Chunks!vars, Chunks!sending, Chunks!receiving, Limit!vars, Bulky!vars,
         Gossip!vars, Sync!vars, Sync!search
<1> QED
  BY <1>1, <1>2, PTL DEF WorldSpec, Spec, Chunks!Spec, Limit!Spec, Bulky!Spec, Gossip!Spec,
                         Sync!Spec

(* What the runs of the worlds check, for any addresses, messages, chunks, *)
(* workers, rates, nodes, chains and losses.                               *)
THEOREM NetworkIsSafe ==
  WorldSpec =>
    /\ [](InfoOnlyOfPeers /\ WithinCaps)
    /\ [](DeliveredOnce /\ AckedMeansWhole /\ OneStem /\ OnlyPeerChains)
    /\ LikeTokenBucket
    /\ Sizes \subseteq 2..533 => []BulkArrives
<1>1. /\ Chunks!TransportAssumption /\ Limit!BucketAssumption /\ Limit!LimitAssumption
      /\ Gossip!RelayAssumption /\ Sync!DownloadAssumption
  BY NetworkAssumption
<1>2. Chunks!Spec => []AckedMeansWhole
  BY <1>1, AcknowledgedIsWhole
<1>3. Limit!Spec => LikeTokenBucket
  BY <1>1, LimitIsTokenBucket
<1>4. Gossip!Spec => []OneStem
  BY <1>1, StemIsOnePath
<1>5. Sync!Spec => []OnlyPeerChains
  BY <1>1, AdoptedIsThePeers
<1>6. Sizes \subseteq 2..533 => (Bulky!Spec => []BulkArrives)
  <2> SUFFICES ASSUME Sizes \subseteq 2..533 PROVE Bulky!Spec => []BulkArrives
    OBVIOUS
  <2> QED
    BY LargeMessagesArrive
<1> QED
  BY <1>2, <1>3, <1>4, <1>5, <1>6, NoStaleInfo, CapsHold, HandedOverOnce, NetworkIsComponents, PTL

=============================================================================
