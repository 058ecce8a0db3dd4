------------------------------- MODULE MCNode -------------------------------
(***************************************************************************)
(* Small worlds for module Node: this node's account and a peer's, a chain *)
(* of one block of ours, retargeting every second block, and VDF outputs   *)
(* that let either builder win, depending on the parent.                   *)
(***************************************************************************)
EXTENDS NodeProperties

CONSTANTS me, peer, other, nobody

(* The builders take turns at having the lowest output, height by height;  *)
(* the parent's builder and size tell apart the forks.                     *)
MCVdfOutput(prev, builder) ==
  LET rank == CASE builder = me -> 1 [] builder = peer -> 0 [] OTHER -> 2
      parent == Last(prev)
  IN  4 * ((rank + Len(prev)) % Cardinality(Addr))
      + 2 * (IF parent.builder = me THEN 1 ELSE 0)
      + (Len(parent.txs) % 2)

Pay(to, amount) == [x \in Addr |-> IF x = to THEN amount ELSE 0]

Tx(from, to, amount, fee, nonce, size) ==
  [from |-> from, outs |-> Pay(to, amount), fee |-> fee, nonce |-> nonce,
   size |-> size, signed |-> TRUE]

MyFirst  == Tx(me, peer, 2, 1, 1, 1)
MySecond == Tx(me, peer, 1, 0, 2, 1)
MyRival  == Tx(me, me, 1, 0, 1, 1)    \* a second transaction with MyFirst's nonce
PeersTx  == Tx(peer, me, 1, 1, 1, 1)

Body(builder, txs, dt) ==
  [builder |-> builder, txs |-> txs, dt |-> dt, sound |-> TRUE, extra |-> 0,
   rated |-> TRUE, zero |-> FALSE, claimed |-> 0]

Empty == Body(peer, <<>>, 1)
Slow == Body(peer, <<>>, 3)
WithFirst == Body(peer, <<MyFirst>>, 1)
WithRival == Body(peer, <<MyRival>>, 1)
TwiceSpent == Body(peer, <<MyFirst, MyRival>>, 1)
Forged == [Empty EXCEPT !.sound = FALSE]
OverClaimed == [Empty EXCEPT !.extra = 5]
TooEarly == Body(peer, <<>>, 0)
Unrated(body) == [body EXCEPT !.rated = FALSE]
Zero(body, claimed) == [body EXCEPT !.zero = TRUE, !.claimed = claimed]

MCInitChain == Link(<<Genesis>>, <<Body(me, <<>>, 1)>>)

-----------------------------------------------------------------------------
(* Forks, syncs and crashes, with transactions that compete for a nonce.   *)

ForkTxs == {MyFirst, MySecond, MyRival}
ForkBodies == {WithRival, Slow, TwiceSpent, Forged, OverClaimed, TooEarly, Unrated(Slow)}
ForkTails == {<<Empty>>, <<Empty, Empty>>, <<WithFirst>>, <<Empty, WithRival>>,
              <<WithRival, Slow>>, <<Slow, Empty, Empty>>, <<Empty, TwiceSpent>>,
              <<Empty, Empty, OverClaimed>>, <<Unrated(Empty), Empty>>}

-----------------------------------------------------------------------------
(* A mempool of three units, filled, outbid and expiring, while forks give *)
(* transactions back.                                                      *)

Bulky == Tx(peer, me, 1, 1, 1, 2)
Rich  == Tx(peer, me, 1, 3, 1, 1)
Cheap == Tx(me, peer, 1, 0, 1, 2)
Next2 == Tx(me, peer, 1, 2, 2, 1)

PoolTxs == {Bulky, Rich, Cheap, Next2, MyFirst}
PoolBodies == {Empty, Body(peer, <<Cheap>>, 1)}
PoolTails == {<<Body(peer, <<Cheap>>, 1)>>, <<Empty, Body(peer, <<Rich>>, 1)>>,
              <<Empty, Body(peer, <<Bulky, MyFirst>>, 1)>>,
              <<Zero(Body(peer, <<Cheap>>, 1), 0)>>}

-----------------------------------------------------------------------------
(* Honest wallets: one transaction per sender and nonce, made on a branch  *)
(* that stays.  A block has room for two of them and what seals it, never  *)
(* for two and only part of the seal.                                      *)

Wide(tx) == [tx EXCEPT !.size = 2]

HonestTxs == {Wide(MyFirst), Wide(MySecond), Wide(PeersTx)}
HonestBodies == {Empty, Body(peer, <<Wide(MyFirst)>>, 1),
                 Body(peer, <<Wide(MyFirst), Wide(MySecond)>>, 1)}
(* The same race with a third builder, a block that is not to be picked and *)
(* one that may be, but states no iterations.                              *)
RaceBodies == HonestBodies \cup
  {[Slow EXCEPT !.builder = other], Forged, Unrated(Empty)}
HonestTails == {<<b>> : b \in HonestBodies} \cup {<<Empty, b>> : b \in HonestBodies}

-----------------------------------------------------------------------------
(* The same wallets when transactions fill a block to the last byte.       *)

NarrowTxs == {MyFirst, MySecond, PeersTx}

-----------------------------------------------------------------------------
(* The same wallets when branches do not stay: the chain that gave us the  *)
(* coins a pending transaction spends is reorganised away.                 *)

ReorgTails == {<<Empty, Empty>>, <<Empty, Slow>>}

-----------------------------------------------------------------------------
(* A stale transaction in the way: a peer's blocks confirm two nonces      *)
(* while a rival of the first one is pending.                              *)

StaleBodies == {Body(peer, <<MyFirst, MySecond>>, 1)}
StaleTails == {<<Empty>>, <<WithRival>>, <<Empty, Empty>>}

-----------------------------------------------------------------------------
(* A peer whose chain has a block of height 0 on top of ours.              *)

ZeroTails == {<<Zero(Empty, 0)>>, <<Zero(WithFirst, 0)>>}

=============================================================================
