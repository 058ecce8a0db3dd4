------------------------------ MODULE BestChain ------------------------------
(***************************************************************************)
(* What a node promises: a durable best chain.  It starts from a valid     *)
(* chain and only ever moves to a better one, by a block on top of it or   *)
(* by a switch to another valid branch, and always together with the       *)
(* ledger and the work of exactly that chain.  Mempools, VDFs, inboxes,    *)
(* commits, crashes and restarts are the implementation's affair (Node).   *)
(***************************************************************************)
EXTENDS Chain

VARIABLE best    \* [chain, state, work]

Sound(b) ==
  /\ b.chain # <<>> /\ b.chain[1] = Genesis
  /\ ValidTail(b.chain, 2)
  /\ b = FromChain(b.chain)

Init == Sound(best)

Extends(longer, chain) ==
  Len(longer) = Len(chain) + 1 /\ SubSeq(longer, 1, Len(chain)) = chain

(* One more block, with the ledger and the work moved on by that block.    *)
Extend ==
  /\ Extends(best'.chain, best.chain)
  /\ Valid(Last(best'.chain), best.state, best.chain)
  /\ best' = ApplyBlock(best, Last(best'.chain))

(* Another branch: sound as a whole, and better.                           *)
Switch == Sound(best') /\ IsBetterThan(best', best)

Next == Extend \/ Switch

Spec == Init /\ [][Next]_best

=============================================================================
