-------------------------------- MODULE Relay --------------------------------
(***************************************************************************)
(* How one transaction travels: src/gossip.py's stem and flood, the inbound *)
(* handler and the retry of src/node.py, and send_tx of src/peer_udp.py.   *)
(* Datagrams are lost and late.  Every node may submit the transaction.    *)
(*                                                                         *)
(* Blocks come into it only as events: a branch confirms the transaction   *)
(* at some nodes, the others follow, or these nodes reorganise away from it.*)
(***************************************************************************)
EXTENDS Naturals, FiniteSets

CONSTANTS Nodes,
          Peers,            \* the nodes that end up in a node's peer pool
          AtFirst,          \* those in it from the start
          MinPeersForStem,  \* MIN_PEERS_FOR_STEM
          HopsMin, HopsMax, \* STEM_HOPS_MIN, STEM_HOPS_MAX
          MaxLosses,        \* bound: datagrams lost
          MaxReorgs         \* bound: reorganisations

RelayAssumption ==
  /\ Peers \in [Nodes -> SUBSET Nodes] /\ AtFirst \in [Nodes -> SUBSET Nodes]
  /\ \A n \in Nodes : n \notin Peers[n] /\ AtFirst[n] \subseteq Peers[n]
  /\ {MinPeersForStem, HopsMin, HopsMax, MaxLosses, MaxReorgs} \subseteq Nat
  /\ 0 < MinPeersForStem /\ 1 < HopsMin

VARIABLES known,   \* the peer pool
          st,      \* the transaction is "unknown", "pending" or "confirmed" at a node
          seen,    \* the nodes whose _seen_tx has it
          local,   \* the nodes whose _local_pending has it
          net,     \* datagrams: [to, hops]; hops > 0 is a stem, 0 a flood
          submitted,
          lost, reorgs

vars == <<known, st, seen, local, net, submitted, lost, reorgs>>

TypeOK ==
  /\ known \in [Nodes -> SUBSET Nodes]
  /\ st \in [Nodes -> {"unknown", "pending", "confirmed"}]
  /\ seen \subseteq Nodes /\ local \subseteq Nodes
  /\ net \subseteq [to : Nodes, hops : 0..(HopsMax - 1)]
  /\ submitted \in BOOLEAN /\ lost \in 0..MaxLosses /\ reorgs \in 0..MaxReorgs

Init ==
  /\ known = AtFirst
  /\ st = [n \in Nodes |-> "unknown"]
  /\ seen = {} /\ local = {} /\ net = {}
  /\ submitted = FALSE /\ lost = 0 /\ reorgs = 0

-----------------------------------------------------------------------------
(* send_tx to the whole pool, with no hops left *)
Flood(n) == {[to |-> p, hops |-> 0] : p \in known[n]}

(* dandelion_send with hops left: one random peer.                         *)
Stem(n, hops, others) ==
  \E p \in known[n] : net' = others \cup {[to |-> p, hops |-> hops - 1]} /\ UNCHANGED seen

(* dandelion_send without: once per transaction.                           *)
Fluff(n, others) ==
  IF n \in seen
  THEN net' = others /\ UNCHANGED seen
  ELSE net' = others \cup Flood(n) /\ seen' = seen \cup {n}

(* relay_tx *)
StartStem(n, others) ==
  /\ Cardinality(known[n]) >= MinPeersForStem
  /\ \E hops \in HopsMin..HopsMax : Stem(n, hops, others)

StartFlood(n, others) ==
  /\ Cardinality(known[n]) < MinPeersForStem
  /\ Fluff(n, others)

(* submit_tx *)
Submit(n) ==
  /\ ~submitted /\ submitted' = TRUE
  /\ st' = [st EXCEPT ![n] = "pending"]
  /\ local' = local \cup {n}
  /\ StartStem(n, net) \/ StartFlood(n, net)
  /\ UNCHANGED <<known, lost, reorgs>>

(* _handle_inbound_tx: a stem is passed on unread.                         *)
PassOn(m) ==
  /\ m \in net /\ m.hops > 0
  /\ IF known[m.to] = {} THEN Fluff(m.to, net \ {m}) ELSE Stem(m.to, m.hops, net \ {m})
  /\ UNCHANGED <<known, st, local, submitted, lost, reorgs>>

(* Mutant: what a node has accepted starts a relay of its own.             *)
Restem(n, others) == StartStem(n, others) \/ StartFlood(n, others)

ContinueFluff(n, others) == Fluff(n, others)

AcceptTx(m) ==
  /\ m \in net /\ m.hops = 0
  /\ st[m.to] = "unknown"
  /\ st' = [st EXCEPT ![m.to] = "pending"]
  /\ ContinueFluff(m.to, net \ {m})
  /\ UNCHANGED <<known, local, submitted, lost, reorgs>>

(* Pending or confirmed already: the nonce is taken, nothing is sent, also *)
(* at the last hop of a stem.                                              *)
RejectTx(m) ==
  /\ m \in net /\ m.hops = 0
  /\ st[m.to] # "unknown"
  /\ net' = net \ {m}
  /\ UNCHANGED <<known, st, seen, local, submitted, lost, reorgs>>

(* Mutant: the retry goes through dandelion_send.                          *)
RefloodOnce(n) == Fluff(n, net)

Reflood(n) == net' = net \cup Flood(n) /\ UNCHANGED seen

(* _retry_stuck_local_txs, once the retry is due.                          *)
Retry(n) ==
  /\ n \in local /\ st[n] = "pending"
  /\ Reflood(n)
  /\ UNCHANGED <<known, st, local, submitted, lost, reorgs>>

ForgetLocal(n) ==
  /\ n \in local /\ st[n] # "pending"
  /\ local' = local \ {n}
  /\ UNCHANGED <<known, st, seen, net, submitted, lost, reorgs>>

-----------------------------------------------------------------------------
(* The surroundings *)

(* PeerPool.add of everybody else *)
Discover(n) ==
  /\ known[n] # Peers[n]
  /\ known' = [known EXCEPT ![n] = Peers[n]]
  /\ UNCHANGED <<st, seen, local, net, submitted, lost, reorgs>>

(* A block with the transaction, built where it is pending, is adopted at  *)
(* the nodes of S.                                                         *)
Confirm(S) ==
  /\ \E n \in S : st[n] # "unknown"
  /\ st' = [n \in Nodes |-> IF n \in S THEN "confirmed" ELSE st[n]]
  /\ UNCHANGED <<known, seen, local, net, submitted, lost, reorgs>>

(* The nodes that confirmed it change to the branch of one that did not:   *)
(* _readd_valid_txs, here for one of them.                                 *)
Reorganise(n) ==
  /\ reorgs < MaxReorgs /\ reorgs' = reorgs + 1
  /\ st[n] = "confirmed" /\ \E p \in Nodes : st[p] # "confirmed"
  /\ st' = [st EXCEPT ![n] = "pending"]
  /\ Fluff(n, net)
  /\ UNCHANGED <<known, local, submitted, lost>>

Lose(m) ==
  /\ m \in net /\ lost < MaxLosses /\ lost' = lost + 1
  /\ net' = net \ {m}
  /\ UNCHANGED <<known, st, seen, local, submitted, reorgs>>

Receive == \E m \in net : PassOn(m) \/ AcceptTx(m) \/ RejectTx(m)

Next ==
  \/ \E n \in Nodes : Submit(n) \/ Retry(n) \/ ForgetLocal(n) \/ Discover(n) \/ Reorganise(n)
  \/ Receive
  \/ \E S \in SUBSET Nodes : Confirm(S)
  \/ \E m \in net : Lose(m)

Spec == Init /\ [][Next]_vars

(* The loop threads and the network go on, peers find each other, and a    *)
(* block that confirms it somewhere is adopted everywhere in the end.      *)
Fairness ==
  /\ \A n \in Nodes : WF_vars(Retry(n)) /\ WF_vars(ForgetLocal(n)) /\ WF_vars(Discover(n))
  /\ \A m \in [to : Nodes, hops : 0..(HopsMax - 1)] :
       WF_vars(PassOn(m) \/ AcceptTx(m) \/ RejectTx(m))
  /\ WF_vars((\E n \in Nodes : st[n] = "confirmed") /\ Confirm(Nodes))

-----------------------------------------------------------------------------

(* The private phase is one path: never are two stems under way, whatever  *)
(* the retry floods while the stem is late ("never re-stem").              *)
OneStem == Cardinality({m \in net : m.hops > 0}) <= 1

(* A submitted transaction reaches every node, whatever is lost: the stem  *)
(* has no retry of its own, the origin's has.                              *)
ReachesAll == submitted ~> \A n \in Nodes : st[n] # "unknown"

(* A transaction that falls out of a reorganised block is sent to the      *)
(* peers again.                                                            *)
ReaddedIsReflooded ==
  [][\A n \in Nodes : st[n] = "confirmed" /\ st'[n] = "pending" => Flood(n) \subseteq net']_vars
=============================================================================
