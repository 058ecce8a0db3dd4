------------------------------- MODULE Mempool -------------------------------
(***************************************************************************)
(* src/mempool.py as operators on the set of pending transactions.  The    *)
(* code's dict also remembers insertion order; wherever that order decides *)
(* between equals the operators allow either.                              *)
(***************************************************************************)
EXTENDS Chain

CONSTANT MempoolMaxBytes    \* mempool.MEMPOOL_MAX_BYTES

ASSUME MempoolAssumption == MempoolMaxBytes \in Nat

PoolBytes(pool) == Total([t \in pool |-> t.size])

(* Mutant: the newcomer's own size is forgotten. *)
EvictionsWithoutNewcomer(pool, tx) ==
  {out \in SUBSET {t \in pool : LowerRate(t, tx)} :
     PoolBytes(out) >= PoolBytes(pool) - MempoolMaxBytes}

(* Mutant: whatever is there makes room, at any rate. *)
EvictionsAtAnyRate(pool, tx) ==
  {out \in SUBSET pool : PoolBytes(pool \ out) + tx.size <= MempoolMaxBytes}

(* The sets of pending transactions add(tx) may evict: the lowest fee      *)
(* rates first, none that pays tx's rate or more, and no more than needed. *)
(* There is none when that cannot make room.                               *)
Evictions(pool, tx) ==
  LET overflow == PoolBytes(pool) + tx.size - MempoolMaxBytes
  IN  IF overflow <= 0 THEN {{}}
      ELSE {out \in SUBSET {t \in pool : LowerRate(t, tx)} :
              /\ PoolBytes(out) >= overflow
              /\ \A t \in out, u \in pool \ out : ~LowerRate(u, t)
              /\ \E last \in out :
                   /\ \A t \in out : ~LowerRate(last, t)
                   /\ PoolBytes(out \ {last}) < overflow}

(* The pools add(tx) may leave: the same one for a duplicate or when the   *)
(* fee is too low to make room.                                            *)
Add(pool, tx) ==
  IF tx \in pool \/ Evictions(pool, tx) = {} THEN {pool}
  ELSE {(pool \ out) \cup {tx} : out \in Evictions(pool, tx)}

(* probe_state_for: the sender's pending transactions applied in nonce     *)
(* order, unvalidated; apply_tx raises when one is not affordable.         *)
ProbeStatesFor(pool, sender, led) ==
  LET sorted == {order \in SetToSeqs({t \in pool : t.from = sender}) :
                   \A i, j \in DOMAIN order : i < j => order[i].nonce <= order[j].nonce}
  IN  {RunTxs(led, order) : order \in sorted}

(* Mutant: off by one. *)
PruneBelow(pool, led, expired) ==
  {t \in pool : t.nonce >= led.nonce[t.from]} \ expired

(* prune_stale: nonces the chain has passed, and whatever is too old. *)
PruneStale(pool, led, expired) ==
  {t \in pool : t.nonce > led.nonce[t.from]} \ expired

=============================================================================
