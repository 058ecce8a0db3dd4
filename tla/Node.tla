-------------------------------- MODULE Node --------------------------------
(***************************************************************************)
(* One node: the cycle of src/node.py over its chain state, its mempool    *)
(* and its database, in a world of peers that send transactions, blocks    *)
(* and whole chains, disks that fail and processes that die.               *)
(*                                                                         *)
(* A cycle drains the inbox, may adopt a peer's chain, prunes the mempool  *)
(* and starts the VDF on the tip it has; while the VDF runs the inbox is   *)
(* drained and peers are polled; when it is done the node assembles its    *)
(* candidate, drains once more, and commits the best of the candidate and  *)
(* the blocks that came in.  An exception anywhere ends the cycle, and     *)
(* with it the VDF and the collected blocks.                               *)
(*                                                                         *)
(* The loop thread is the only writer, so one handler is one action.  What *)
(* gossip and the transport carry away is not kept here.                   *)
(***************************************************************************)
EXTENDS Storage, Mempool

CONSTANTS Me,             \* this node's address
          InitChain,      \* the chain in the database at startup
          PeerBodies,     \* what a peer's block may hold
          PeerTails,      \* what a peer's chain may hold after the fork point
          OwnDelays,      \* how long a block of our own may take
          Faults,         \* which of "storage", "crash", "expiry" and "malformed"
                          \*   (messages) may happen
          MaxReorg,       \* bound: blocks of ours a peer's chain may not have
          MaxInbox,       \* bound: peer blocks collected during one VDF
          MaxHeight       \* bound: the height the chain grows to

(* What a block builder decides (see Forge). *)
BlockBody == [builder : Addr, txs : Seq(Txs), dt : Nat, sound : BOOLEAN, extra : Nat,
              rated : BOOLEAN, zero : BOOLEAN, claimed : Nat]

ASSUME NodeAssumption ==
  /\ Me \in Addr
  /\ InitChain \in Seq(Block) /\ \A i \in DOMAIN InitChain : InitChain[i].height = i - 1
  /\ InitChain # <<>> /\ InitChain[1] = Genesis /\ ValidTail(InitChain, 2)
  /\ PeerBodies \subseteq BlockBody /\ PeerTails \subseteq Seq(BlockBody)
  /\ OwnDelays \subseteq Nat
  /\ Faults \subseteq {"storage", "crash", "expiry", "malformed"}
  /\ MaxReorg \in Nat /\ MaxInbox \in Nat /\ MaxHeight \in Nat

VARIABLES pc,     \* where the loop thread is: "drain", "start", "vdf", "offer",
                  \*   or "down" when the process is not running
          cs,     \* node.cs
          view,   \* node.view, which the API threads read
          pool,   \* node.mempool
          disk,   \* node.storage
          base,   \* the chain state the VDF was started on
          acc,    \* accumulated_blocks
          cand    \* our candidate, once the VDF is done

vars == <<pc, cs, view, pool, disk, base, acc, cand>>

(* The transactions of the blocks that follow the first "from" ones.       *)
ConfirmedFrom(chain, from) ==
  UNION {ToSet(chain[i].txs) : i \in (from + 1)..Len(chain)}

Init ==
  /\ pc = "drain"
  /\ disk = ReplaceChainAndState(EmptyDisk, 0, InitChain, ReplayChain(InitChain))
  /\ cs = LoadChainState(disk)
  /\ view = cs
  /\ pool = {}
  /\ base = cs
  /\ acc = {}
  /\ cand = Genesis

(* The cycle is over, and what was local to it is gone. *)
EndCycle ==
  /\ pc' = "drain"
  /\ base' = cs'
  /\ acc' = {}
  /\ cand' = Genesis

-----------------------------------------------------------------------------
(* The inbox *)

(* submit_tx, and _handle_inbound_tx for a transaction to be kept: valid   *)
(* after what the sender has pending, then added as the space allows.      *)
HandleTx(tx) ==
  /\ pc \in {"drain", "vdf", "offer"}
  /\ \E probe \in ProbeStatesFor(pool, tx.from, cs.state) :
       probe # Raised /\ TxValid(tx, probe)
  /\ pool' \in Add(pool, tx)
  /\ UNCHANGED <<pc, cs, view, disk, base, acc, cand>>

(* probe_state_for raises: nothing catches it before start does. *)
HandleTxRaises(tx) ==
  /\ pc \in {"drain", "vdf", "offer"}
  /\ Raised \in ProbeStatesFor(pool, tx.from, cs.state)
  /\ UNCHANGED <<cs, view, pool, disk>>
  /\ EndCycle

(* What a message holds is not looked at before it is used: a missing      *)
(* field or one of another type raises in _handle, in tx.validate, in      *)
(* block.validate or in _evaluate_remote_chain, and again only start       *)
(* catches it.                                                             *)
HandleMalformed ==
  /\ "malformed" \in Faults
  /\ pc \in {"drain", "vdf", "offer"}
  /\ UNCHANGED <<cs, view, pool, disk>>
  /\ EndCycle

(* A block for our tip, or for the tip before it.  (The drain that opens a *)
(* cycle throws blocks away.)                                              *)
HandleBlock(body) ==
  /\ pc \in {"vdf", "offer"}
  /\ Cardinality(acc) < MaxInbox
  /\ \E chain \in {cs.chain, Front(cs.chain)} \ {<<>>} :
       acc' = acc \cup {Forge(chain, body)}
  /\ UNCHANGED <<pc, cs, view, pool, disk, base, cand>>

-----------------------------------------------------------------------------
(* Sync: apply_better_chain, from the check that opens a cycle or from a   *)
(* poll during the VDF.                                                    *)

Link(prefix, bodies) ==
  LET linked[i \in 0..Len(bodies)] ==
        IF i = 0 THEN prefix
                 ELSE Append(linked[i - 1], Forge(linked[i - 1], bodies[i]))
  IN  linked[Len(bodies)]

(* The chains a peer may answer with: ours up to some block, then its own. *)
RemoteChains ==
  { Link(SubSeq(cs.chain, 1, k), tail) :
      k \in {i \in DOMAIN cs.chain : Len(cs.chain) - i <= MaxReorg}, tail \in PeerTails }
  \cap {r \in Seq(Block) : Len(r) <= MaxHeight + 1}

ForkPoint(ours, theirs) ==
  LET differ == {i \in DOMAIN ours \cap DOMAIN theirs : HashOf(ours[i]) # HashOf(theirs[i])}
      shorter == IF Len(ours) < Len(theirs) THEN Len(ours) ELSE Len(theirs)
  IN  IF differ = {} THEN shorter ELSE Min(differ) - 1

(* Mutant: nothing but the genesis block is looked at. *)
SameNetwork(remote) == HashOf(remote[1]) = HashOf(cs.chain[1])

(* _evaluate_remote_chain up to the replay, which may raise and is caught. *)
Acceptable(remote) ==
  /\ HashOf(remote[1]) = HashOf(cs.chain[1])
  /\ ValidTail(remote, ForkPoint(cs.chain, remote) + 1)
  /\ ReplayChain(remote) \in LedgerState

(* Mutant: the longest chain wins. *)
LongerThanOurs(remote) == Len(remote) > Len(cs.chain)

BetterThanOurs(remote) == IsBetterThan(FromChain(remote), cs)

TxsFrom(chain, fork) == FlattenSeq([i \in 1..(Len(chain) - fork) |-> chain[fork + i].txs])

(* _readd_valid_txs: each validated against led alone, then added.         *)
Readd(pending, txs, except, led) ==
  LET step(pools, tx) ==
        IF tx \notin except /\ TxValid(tx, led)
        THEN UNION {Add(p, tx) : p \in pools}
        ELSE pools
      after[i \in 0..Len(txs)] == IF i = 0 THEN {pending} ELSE step(after[i - 1], txs[i])
  IN  after[Len(txs)]

SyncReturns == pc' = IF pc = "drain" THEN "start" ELSE pc

(* The peer's chain is better: database, then chain state, then mempool.   *)
AdoptChain(remote) ==
  LET fork == ForkPoint(cs.chain, remote)
      new == FromChain(remote)
      confirmed == ConfirmedFrom(remote, fork)
  IN  /\ pc \in {"drain", "vdf"}
      /\ Acceptable(remote)
      /\ BetterThanOurs(remote)
      /\ disk' = ReplaceChainAndState(disk, fork, SubSeq(remote, fork + 1, Len(remote)),
                                      new.state)
      /\ cs' = new
      /\ view' = new
      /\ pool' \in Readd(pool \ confirmed, TxsFrom(cs.chain, fork), confirmed, new.state)
      /\ SyncReturns
      /\ base' = IF pc = "drain" THEN new ELSE base
      /\ UNCHANGED <<acc, cand>>

(* The database refuses the new chain: nothing has changed yet, and the    *)
(* exception ends the cycle.                                               *)
AdoptFails(remote) ==
  /\ "storage" \in Faults
  /\ pc \in {"drain", "vdf"}
  /\ Acceptable(remote)
  /\ BetterThanOurs(remote)
  /\ UNCHANGED <<cs, view, pool, disk>>
  /\ EndCycle

(* The peer's chain is valid and no better: _salvage_fork_txs. *)
SalvageFork(remote) ==
  LET fork == ForkPoint(cs.chain, remote)
  IN  /\ pc \in {"drain", "vdf"}
      /\ Acceptable(remote)
      /\ ~BetterThanOurs(remote)
      /\ fork < Len(remote)
      /\ pool' \in Readd(pool, TxsFrom(remote, fork), ConfirmedFrom(cs.chain, fork), cs.state)
      /\ SyncReturns
      /\ UNCHANGED <<cs, view, disk, base, acc, cand>>

-----------------------------------------------------------------------------
(* The VDF *)

StartVdf ==
  /\ pc \in {"drain", "start"}
  /\ \E expired \in (IF "expiry" \in Faults THEN SUBSET pool ELSE {{}}) :
       pool' = PruneStale(pool, cs.state, expired)
  /\ base' = cs
  /\ acc' = {}
  /\ pc' = "vdf"
  /\ UNCHANGED <<cs, view, disk, cand>>

(* Mutant: the tip is taken to be the one the VDF was started on. *)
TipUnchecked == TRUE

(* self.cs is cs *)
TipUnchanged == cs = base

(* The tip changed under the VDF: its output is thrown away. *)
DiscardVdf ==
  /\ pc = "vdf"
  /\ ~TipUnchanged
  /\ UNCHANGED <<cs, view, pool, disk>>
  /\ EndCycle

Candidate(txs, dt) ==
  Forge(base.chain, [builder |-> Me, txs |-> txs, dt |-> dt, sound |-> TRUE, extra |-> 0,
                     rated |-> TRUE, zero |-> FALSE, claimed |-> 0])

(* Assemble the candidate, validate it, broadcast it. *)
OfferBlock ==
  /\ pc = "vdf"
  /\ TipUnchanged
  /\ Len(base.chain) <= MaxHeight
  /\ \E txs \in Packings(pool), dt \in OwnDelays :
       /\ Valid(Candidate(txs, dt), base.state, base.chain)
       /\ cand' = Candidate(txs, dt)
  /\ pc' = "offer"
  /\ UNCHANGED <<cs, view, pool, disk, base, acc>>

(* The candidate is invalid: the cycle ends without a block. *)
InvalidCandidate ==
  /\ pc = "vdf"
  /\ TipUnchanged
  /\ \E txs \in Packings(pool), dt \in OwnDelays :
       ~Valid(Candidate(txs, dt), base.state, base.chain)
  /\ UNCHANGED <<cs, view, pool, disk>>
  /\ EndCycle

-----------------------------------------------------------------------------
(* Commit *)

(* Mutant: peers are believed. *)
UnvalidatedPeers(blocks) == {b \in blocks : b.height = Last(base.chain).height + 1}

ValidPeers(blocks) ==
  {b \in blocks : /\ b.height = Last(base.chain).height + 1
                  /\ b.prev = HashOf(Last(base.chain))
                  /\ Valid(b, base.state, base.chain)}

(* Mutant: our own candidate always wins. *)
OwnWinner == {cand}

(* _pick_winner: the lowest VDF output, our candidate among equals. *)
Winners ==
  LET peers == ValidPeers(acc)
      lowest(b) == \A other \in peers \cup {cand} : TieKey(b) <= TieKey(other)
  IN  IF lowest(cand) THEN {cand} ELSE {b \in peers : lowest(b)}

(* _commit: chain state, database, mempool, view. *)
Commit ==
  /\ pc = "offer"
  /\ \E winner \in Winners :
       /\ cs' = ApplyBlock(cs, winner)
       /\ disk' = SaveBlockAndState(disk, winner, cs'.state)
       /\ pool' = pool \ ToSet(winner.txs)
  /\ view' = cs'
  /\ EndCycle

(* The database refuses the block: the chain state has moved on already. *)
CommitFails ==
  /\ "storage" \in Faults
  /\ pc = "offer"
  /\ \E winner \in Winners : cs' = ApplyBlock(cs, winner)
  /\ UNCHANGED <<view, pool, disk>>
  /\ EndCycle

-----------------------------------------------------------------------------
(* The process dies between two steps: only the database survives.  cs is  *)
(* left as it was so that properties can compare it with what comes back.  *)
Crash ==
  /\ "crash" \in Faults
  /\ pc # "down"
  /\ pc' = "down"
  /\ pool' = {}
  /\ acc' = {}
  /\ cand' = Genesis
  /\ UNCHANGED <<cs, view, disk, base>>

(* Node.__init__ and start *)
Restart ==
  /\ pc = "down"
  /\ cs' = LoadChainState(disk)
  /\ view' = cs'
  /\ base' = cs'
  /\ pc' = "drain"
  /\ UNCHANGED <<pool, disk, acc, cand>>

-----------------------------------------------------------------------------

Inbox == \/ \E tx \in Txs : HandleTx(tx) \/ HandleTxRaises(tx)
         \/ \E body \in PeerBodies : HandleBlock(body)
         \/ HandleMalformed

Sync == \E remote \in RemoteChains :
          AdoptChain(remote) \/ AdoptFails(remote) \/ SalvageFork(remote)

Next ==
  \/ Inbox
  \/ Sync
  \/ StartVdf \/ DiscardVdf \/ OfferBlock \/ InvalidCandidate
  \/ Commit \/ CommitFails
  \/ Crash \/ Restart

Spec == Init /\ [][Next]_vars

(* What the scheduler owes the loop: a started thread keeps running, and   *)
(* a VDF that was started ends.  Nothing is owed by peers or by clients.   *)
Fairness ==
  /\ WF_vars(StartVdf)
  /\ WF_vars(DiscardVdf \/ OfferBlock \/ InvalidCandidate)
  /\ WF_vars(Commit)

FairSpec == Spec /\ Fairness

=============================================================================
