------------------------------ MODULE RateLimit ------------------------------
(***************************************************************************)
(* The rate limit of src/peer_udp.py's receive thread for one source: when *)
(* its datagrams come is up to the source, and other sources may make      *)
(* _allow_rate prune its bucket.  "ideal" is an ordinary token bucket that *)
(* admits what the code admits and is refilled all the time.               *)
(***************************************************************************)
EXTENDS TokenBucket, Integers

CONSTANTS PruneAge,  \* the 60 s after which a bucket may be pruned, in ticks
          Gap        \* the pause between two datagrams of a steady source

LimitAssumption == PruneAge \in Nat /\ Burst <= PruneAge /\ Gap \in Nat

VARIABLES bucket,   \* _rate_buckets[source_ip]
          ideal,    \* the level of the ordinary bucket
          refused,  \* was the source ever refused?
          since     \* ticks since its last datagram

vars == <<bucket, ideal, refused, since>>

Init ==
  /\ bucket = NoBucket /\ ideal = Burst /\ refused = FALSE /\ since = 0

Arrive ==
  /\ bucket' = AfterArrival(bucket)
  /\ ideal' = IF Allowed(bucket) THEN ideal - Cost ELSE ideal
  /\ refused' = (refused \/ ~Allowed(bucket))
  /\ since' = 0

Tick ==
  /\ bucket' = Later(bucket, 1, PruneAge + 1)
  /\ ideal' = AtMost(ideal + 1, Burst)
  /\ since' = AtMost(since + 1, Gap)
  /\ UNCHANGED refused

(* Mutant: buckets of the last 60 s are the ones to go. *)
YoungIsIdle == bucket.idle <= PruneAge

IsIdle == bucket.idle > PruneAge

(* A datagram of a new source finds more than 20,000 buckets. *)
Prune ==
  /\ bucket.known /\ IsIdle
  /\ bucket' = NoBucket
  /\ UNCHANGED <<ideal, refused, since>>

Next == Arrive \/ Tick \/ Prune

Spec == Init /\ [][Next]_vars

(* A source that sends at a steady pace for ever. *)
SteadyNext ==
  \/ since = Gap /\ Arrive
  \/ since < Gap /\ Tick

SteadySpec == Init /\ [][SteadyNext]_vars /\ WF_vars(SteadyNext)

-----------------------------------------------------------------------------

(* The limit is neither more generous nor harder than an ordinary bucket:  *)
(* over every interval a source gets through at most the burst plus the    *)
(* rate times the time, whatever was refused or pruned in between, and a   *)
(* source that always stayed within that has never been refused.           *)
LikeTokenBucket == [][ideal' >= 0 /\ (refused' /\ ~refused => ideal < Cost)]_vars

(* A source that keeps sending keeps being heard, at the limited rate.     *)
SteadySourceIsServed == []<><<ideal' < ideal>>_ideal
=============================================================================
