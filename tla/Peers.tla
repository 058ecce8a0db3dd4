--------------------------------- MODULE Peers ---------------------------------
(***************************************************************************)
(* The peer pool (src/peerpool.py) and those who use it at the same time:  *)
(* discovery with its candidates, pings and cache (src/discovery.py), the  *)
(* ping's vote on our own address (src/peer_udp.py), the prober of         *)
(* src/http_probe.py and the syncer, which store what they learn about an  *)
(* address some time after they chose it.                                  *)
(*                                                                         *)
(* Nothing in the program calls strike, so no address is ever on cooldown. *)
(* Hole punching is one more reason to ping an address.                    *)
(***************************************************************************)
EXTENDS Naturals, FiniteSets

CONSTANTS Addrs,        \* addresses of other nodes
          Subnet,       \* the /24 of an address
          OwnFirst, OwnLater,  \* our external address, before and after it changes
          Pingers,      \* threads that ping: discovery's loop and its executor
          MaxPeers,     \* max_peers
          MaxPerSubnet, \* MAX_PEERS_PER_SUBNET
          Kinds,        \* what is stored about an address: some of InfoKinds
          AsksHttp,     \* did an HTTP service tell us our address at the start?
          MaxPings,     \* bound: pings and additions by hand
          MaxHeard,     \* bound: candidates waiting for the next flush
          MaxRestarts   \* bound

InfoKinds == {"wallet", "inferred_wallet", "http_reachable"}
Every == Addrs \cup {OwnFirst, OwnLater}
NoAddr == "none"

ASSUME PeersAssumption ==
  /\ OwnFirst \notin Addrs /\ OwnLater \notin Addrs /\ NoAddr \notin Every
  /\ \A a \in Every : Subnet[a] # NoAddr
  /\ Kinds \subseteq InfoKinds
  /\ {MaxPeers, MaxPerSubnet, MaxPings, MaxHeard, MaxRestarts} \subseteq Nat

VARIABLES peers,      \* _peers
          fresh,      \* those seen within STALE_SECONDS
          info,       \* _info: what is known of an address
          candidates,
          cache,      \* PEER_CACHE_FILE
          ping,       \* what each thread pings, and whether the answer came
          asking,     \* addresses chosen by the prober, the syncer or a relayed block
          ext,        \* our_external_addr
          votes,      \* _ext_addr_votes
          own,        \* what the world sees as our address
          up,         \* nodes that are running
          pings, restarts

vars == <<peers, fresh, info, candidates, cache, ping, asking, ext, votes, own, up, pings, restarts>>
pool == <<peers, fresh, info>>
address == <<ext, votes, own>>

TypeOK ==
  /\ peers \subseteq Every /\ fresh \subseteq peers
  /\ info \subseteq Every \X Kinds /\ asking \subseteq Every \X Kinds
  /\ candidates \subseteq Every /\ cache \subseteq Every
  /\ ping \in [Pingers -> [at : {"idle", "sent", "answered"}, addr : Every \cup {NoAddr}]]
  /\ ext \in {NoAddr, OwnFirst, OwnLater} /\ own \in {OwnFirst, OwnLater}
  /\ votes \subseteq {OwnFirst, OwnLater} \X Every
  /\ up \subseteq Addrs /\ pings \in 0..MaxPings /\ restarts \in 0..MaxRestarts

Quiet == [at |-> "idle", addr |-> NoAddr]

Init ==
  /\ peers = {} /\ fresh = {} /\ info = {} /\ candidates = {} /\ cache = {}
  /\ ping = [t \in Pingers |-> Quiet] /\ asking = {}
  /\ own = OwnFirst /\ ext = IF AsksHttp THEN OwnFirst ELSE NoAddr
  /\ votes = {} /\ up = Addrs /\ pings = 0 /\ restarts = 0

-----------------------------------------------------------------------------
(* PeerPool *)

SubnetHasRoom(a) == Cardinality({p \in peers : Subnet[p] = Subnet[a]}) < MaxPerSubnet

Admissible(a) == a \notin peers /\ Cardinality(peers) < MaxPeers /\ SubnetHasRoom(a)

(* add: a known peer counts as seen, a new one must fit.                   *)
Add(a) ==
  /\ peers' = IF Admissible(a) THEN peers \cup {a} ELSE peers
  /\ fresh' = IF a \in peers' THEN fresh \cup {a} ELSE fresh

(* touch, at any datagram of a running peer.                               *)
Touch(a) ==
  /\ a \in up \cap peers /\ a \notin fresh
  /\ fresh' = fresh \cup {a}
  /\ UNCHANGED <<peers, info, candidates, cache, ping, asking, address, up, pings, restarts>>

(* STALE_SECONDS go by without a datagram.                                 *)
GrowStale(a) ==
  /\ a \in fresh
  /\ fresh' = fresh \ {a}
  /\ UNCHANGED <<peers, info, candidates, cache, ping, asking, address, up, pings, restarts>>

DropInfo(gone) == info' = {i \in info : i[1] \notin gone}

(* Mutant: only a full pool is cleaned up.                                 *)
EvictWhenFull ==
  /\ peers # fresh /\ Cardinality(peers) >= MaxPeers
  /\ peers' = fresh
  /\ DropInfo(peers \ fresh)
  /\ UNCHANGED <<fresh, candidates, cache, ping, asking, address, up, pings, restarts>>

EvictStale ==
  /\ peers # fresh
  /\ peers' = fresh
  /\ DropInfo(peers \ fresh)
  /\ UNCHANGED <<fresh, candidates, cache, ping, asking, address, up, pings, restarts>>

(* all_addrs of the prober, random of the syncer, the sender of a block.   *)
Choose(a, kind) ==
  /\ <<a, kind>> \notin asking
  /\ a \in IF kind = "inferred_wallet" THEN up ELSE peers
  /\ asking' = asking \cup {<<a, kind>>}
  /\ UNCHANGED <<pool, candidates, cache, ping, address, up, pings, restarts>>

(* Mutant: whoever was asked.                                              *)
WasAsked(a) == TRUE

StillPeer(a) == a \in peers

(* set_http_reachable, update_info, note_relayed_builder.                  *)
StoreInfo(a, kind) ==
  /\ <<a, kind>> \in asking
  /\ asking' = asking \ {<<a, kind>>}
  /\ info' = IF StillPeer(a) THEN info \cup {<<a, kind>>} ELSE info
  /\ UNCHANGED <<peers, fresh, candidates, cache, ping, address, up, pings, restarts>>

-----------------------------------------------------------------------------
(* Discovery *)

(* The DHT, a peer list, a ping's "from": also our own address, which we   *)
(* publish ourselves.                                                      *)
Hear(a) ==
  /\ a \notin candidates /\ Cardinality(candidates) < MaxHeard
  /\ candidates' = candidates \cup {a}
  /\ UNCHANGED <<pool, cache, ping, asking, address, up, pings, restarts>>

Send(t, a) ==
  /\ ping[t] = Quiet /\ pings < MaxPings /\ pings' = pings + 1
  /\ ping' = [ping EXCEPT ![t] = [at |-> "sent", addr |-> a]]

(* _flush_candidates: those not known, not us, and while there is room.    *)
Flush(t, a) ==
  /\ a \in candidates
  /\ candidates' = candidates \ {a}
  /\ a \notin peers /\ a # ext /\ Cardinality(peers) < MaxPeers
  /\ Send(t, a)
  /\ UNCHANGED <<pool, cache, asking, address, up, restarts>>

(* on_punch_go, from anybody about any address.                            *)
PunchGo(t, a) ==
  /\ Send(t, a)
  /\ UNCHANGED <<pool, candidates, cache, asking, address, up, restarts>>

(* Only a peer's answer is a vote.                                         *)
Vote(a) == IF a \in peers THEN {<<own, a>>} ELSE {}

Agreed(v) == Cardinality({x \in v : x[1] = own}) >= 2

(* ping, when the PONG comes: our own socket answers itself.               *)
Pong(t) ==
  LET a == ping[t].addr
      v == votes \cup Vote(a)
  IN  /\ ping[t].at = "sent" /\ a \in up \cup {own}
      /\ votes' = v
      /\ ext' = IF Agreed(v) \/ ext = NoAddr THEN own ELSE ext
      /\ ping' = [ping EXCEPT ![t].at = "answered"]
  /\ UNCHANGED <<pool, candidates, cache, asking, own, up, pings, restarts>>

NoPong(t) ==
  /\ ping[t].at = "sent"
  /\ ping' = [ping EXCEPT ![t] = Quiet]
  /\ UNCHANGED <<pool, candidates, cache, asking, address, up, pings, restarts>>

(* _ping_and_admit, after the answer.                                      *)
Admit(t) ==
  /\ ping[t].at = "answered"
  /\ Add(ping[t].addr)
  /\ ping' = [ping EXCEPT ![t] = Quiet]
  /\ UNCHANGED <<info, candidates, cache, asking, address, up, pings, restarts>>

(* api_add_peer, from the private page: unpinged.                          *)
AddByHand(a) ==
  /\ a \in Addrs /\ pings < MaxPings /\ pings' = pings + 1
  /\ Add(a)
  /\ UNCHANGED <<info, candidates, cache, ping, asking, address, up, restarts>>

(* _save_peer_cache; only a restart still to come reads it.                *)
SaveCache ==
  /\ cache # peers /\ restarts < MaxRestarts
  /\ cache' = peers
  /\ UNCHANGED <<pool, candidates, ping, asking, address, up, pings, restarts>>

(* A restart, also in the middle of writing the cache, which is then empty.*)
Restart ==
  /\ restarts < MaxRestarts /\ restarts' = restarts + 1
  /\ peers' = {} /\ fresh' = {} /\ info' = {} /\ asking' = {} /\ votes' = {}
  /\ candidates' \in {cache, {}} /\ cache' = candidates'
  /\ ping' = [t \in Pingers |-> Quiet]
  /\ ext' = IF AsksHttp THEN own ELSE NoAddr
  /\ UNCHANGED <<own, up, pings>>

-----------------------------------------------------------------------------
(* The world *)

ChangeAddress ==
  /\ own # OwnLater /\ own' = OwnLater
  /\ UNCHANGED <<pool, candidates, cache, ping, asking, ext, votes, up, pings, restarts>>

Fall(a) ==
  /\ a \in up /\ up' = up \ {a}
  /\ UNCHANGED <<pool, candidates, cache, ping, asking, address, pings, restarts>>

Next ==
  \/ \E a \in Every :
       \/ Touch(a) \/ GrowStale(a) \/ Hear(a) \/ AddByHand(a) \/ Fall(a)
       \/ \E kind \in Kinds : Choose(a, kind) \/ StoreInfo(a, kind)
       \/ \E t \in Pingers : Flush(t, a) \/ PunchGo(t, a)
  \/ EvictStale \/ SaveCache \/ Restart \/ ChangeAddress
  \/ \E t \in Pingers : Pong(t) \/ NoPong(t) \/ Admit(t)

Spec == Init /\ [][Next]_vars

(* Time passes and the discovery loop goes round.                          *)
Fairness ==
  /\ \A a \in Every : WF_vars(a \notin up /\ GrowStale(a))
  /\ WF_vars(EvictStale)
  /\ \A t \in Pingers : WF_vars(Pong(t) \/ NoPong(t)) /\ WF_vars(Admit(t))

-----------------------------------------------------------------------------

(* What is stored of an address goes with the peer, however late an answer *)
(* of the prober, the syncer or a block comes: a peer that returns starts  *)
(* with nothing.                                                           *)
InfoOnlyOfPeers == \A i \in info : i[1] \in peers

(* The caps hold with several threads that ping and add at once, each      *)
(* having looked for room before its ping.                                 *)
WithinCaps ==
  /\ Cardinality(peers) <= MaxPeers
  /\ \A a \in peers : Cardinality({p \in peers : Subnet[p] = Subnet[a]}) <= MaxPerSubnet

(* Once confirmed, our address is only replaced by one that two peers have *)
(* seen: no answer of a stranger moves it.                                 *)
OnlyPeersMoveOurAddress ==
  [][ext # NoAddr /\ ext' \notin {ext, NoAddr} /\ restarts' = restarts =>
       Cardinality({v \in votes' : v[1] = ext'}) >= 2]_vars

(* A node that has stopped does not stay in the pool.                      *)
StoppedPeersLeave == \A a \in Addrs : a \notin up ~> a \notin peers

(* "Also updated every time any PONG arrives."                             *)
EveryPongUpdates ==
  [][\A t \in Pingers : ping[t].at = "sent" /\ ping'[t].at = "answered" => ext' = own]_vars

(* "Also exclude our own external address to avoid self-connection"        *)
NeverOurOwnPeer == own \notin peers
=============================================================================
