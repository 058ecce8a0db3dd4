----------------------------- MODULE TokenBucket -----------------------------
(***************************************************************************)
(* One bucket of UDPTransport._rate_buckets, as _allow_rate handles it.    *)
(* A token is worth Cost units and one unit is refilled per tick of the    *)
(* clock, so that the rate is 1/Cost datagrams per tick.                   *)
(***************************************************************************)
EXTENDS Naturals

CONSTANTS Cost,   \* units a datagram takes
          Burst   \* RATE_LIMIT_BURST, in units

BucketAssumption == Cost \in Nat \ {0} /\ Burst \in Nat /\ Cost <= Burst

(* "idle" is the time since last_refill. *)
NoBucket == [known |-> FALSE, tokens |-> 0, idle |-> 0]

Bucket(units) == [known |-> TRUE, tokens |-> units, idle |-> 0]

AtMost(n, cap) == IF n < cap THEN n ELSE cap

Level(b) == AtMost(b.tokens + b.idle, Burst)

Allowed(b) == b.known => Level(b) >= Cost

FirstBucket == Bucket(Burst - Cost)

(* A refused datagram moves last_refill and leaves the tokens as they were: *)
(* what had been refilled since is gone.                                   *)
AfterArrival(b) ==
  CASE ~b.known    -> FirstBucket
    [] ~Allowed(b) -> [b EXCEPT !.idle = 0]
    [] OTHER       -> Bucket(Level(b) - Cost)

(* The clock moves by n ticks; more than "forget" ticks are all the same.  *)
Later(b, n, forget) == IF b.known THEN [b EXCEPT !.idle = AtMost(@ + n, forget)] ELSE b
=============================================================================
