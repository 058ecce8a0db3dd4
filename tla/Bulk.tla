-------------------------------- MODULE Bulk ---------------------------------
(***************************************************************************)
(* One message sent in chunks over a link that loses and delays nothing,   *)
(* with src/peer_udp.py's rate limit at both ends: the chunks count        *)
(* against the sender at the receiver, the acknowledgements against the    *)
(* receiver at the sender.  A step is one chunk and the pause after it.    *)
(***************************************************************************)
EXTENDS TokenBucket, FiniteSetsExt

CONSTANTS Sizes,       \* the sizes of message tried, in chunks
          MaxRounds,   \* CHUNK_ACK_MAX_ROUNDS
          AckTimeout   \* CHUNK_ACK_TIMEOUT, in ticks

BulkAssumption ==
  Sizes \subseteq Nat \ {0, 1} /\ MaxRounds \in Nat /\ AckTimeout \in Nat

VARIABLES total,      \* chunk_total
          todo,       \* the chunks this round has still to send
          round,      \* retransmission rounds begun
          held,       \* what the receiver has
          acked,      \* what the sender knows of it
          atReceiver, \* the receiver's bucket for the sender
          atSender,   \* the sender's bucket for the receiver
          over        \* _retransmit_until_acked has returned

vars == <<total, todo, round, held, acked, atReceiver, atSender, over>>

Chunks == 0..(total - 1)

Init ==
  /\ total = 0
  /\ todo = {}
  /\ round = 0
  /\ held = {} /\ acked = {}
  /\ atReceiver = NoBucket /\ atSender = NoBucket
  /\ over = TRUE

(* _send_chunked of a message of some size; each is a case of its own. *)
Begin(size) ==
  /\ total = 0
  /\ total' = size /\ todo' = 0..(size - 1) /\ over' = FALSE
  /\ UNCHANGED <<round, held, acked, atReceiver, atSender>>

(* Time passes; a full bucket stays full. *)
Pause(b, n) == Later(b, n, Burst)

HeldWith(chunk) == IF Allowed(atReceiver) THEN held \cup {chunk} ELSE held

(* _send_chunked and the loop of a round: one chunk, the acknowledgement   *)
(* that answers it, and the 5 ms after it.                                 *)
SendChunk ==
  /\ ~over /\ todo # {}
  /\ LET chunk == Min(todo)
         answered == Allowed(atReceiver)
         heard == answered /\ Allowed(atSender)
     IN  /\ todo' = todo \ {chunk}
         /\ held' = HeldWith(chunk)
         /\ acked' = IF heard THEN acked \cup held' ELSE acked
         /\ atReceiver' = Pause(AfterArrival(atReceiver), 1)
         /\ atSender' = Pause(IF answered THEN AfterArrival(atSender) ELSE atSender, 1)
  /\ UNCHANGED <<total, round, over>>

(* Mutant: a round resends the whole message, as if nobody acknowledged.   *)
WholeMessage == Chunks

Missing == Chunks \ acked

(* The event was set, or the wait ran out and what is missing is resent.   *)
NextRound ==
  /\ ~over /\ todo = {} /\ round < MaxRounds
  /\ IF Chunks \subseteq acked
     THEN over' = TRUE /\ UNCHANGED <<todo, round, atReceiver, atSender>>
     ELSE /\ todo' = Missing
          /\ round' = round + 1
          /\ atReceiver' = Pause(atReceiver, AckTimeout)
          /\ atSender' = Pause(atSender, AckTimeout)
          /\ UNCHANGED over
  /\ UNCHANGED <<total, held, acked>>

GiveUp ==
  /\ ~over /\ todo = {} /\ round = MaxRounds
  /\ over' = TRUE
  /\ UNCHANGED <<total, todo, round, held, acked, atReceiver, atSender>>

Next == (\E size \in Sizes : Begin(size)) \/ SendChunk \/ NextRound \/ GiveUp

Spec == Init /\ [][Next]_vars

-----------------------------------------------------------------------------

(* A message arrives whole: nothing is lost on the way, so when the sender *)
(* stops the receiver has every chunk, whatever the limits refused of      *)
(* chunks and acknowledgements in between.                                 *)
BulkArrives == over => held = Chunks
=============================================================================
