------------------------------ MODULE Transport ------------------------------
(***************************************************************************)
(* The chunk layer of src/peer_udp.py: messages too large for a datagram   *)
(* are sent in chunks, acknowledged, resent a bounded number of times and  *)
(* reassembled by a receiver whose datagrams are handled by several worker *)
(* threads.  Datagrams are lost, duplicated and reordered.                 *)
(*                                                                         *)
(* A send is one call of _send_chunked: one sender, one message, this      *)
(* receiver.  The same block arrives from several senders under the same   *)
(* message id, because every node relays it.                               *)
(***************************************************************************)
EXTENDS Naturals, FiniteSets

CONSTANTS Sends,          \* the sends to this receiver
          Msgs,           \* message ids
          MsgOf,          \* the message of a send
          Total,          \* the chunks of a message (chunk_total)
          Workers,        \* the receiver's executor threads
          MaxChunkTotal,  \* MAX_CHUNK_TOTAL
          AckMaxRounds,   \* CHUNK_ACK_MAX_ROUNDS
          MaxAge,         \* evict_stale's max_age, in ticks
          RecvTimeout,    \* RECV_TIMEOUT, in ticks
          Busy,           \* is there other traffic on the receiver's socket?
          Prompt,         \* do answers come before the sender's timeout?
          MaxLosses,      \* bound: datagrams the network loses
          MaxDups,        \* bound: datagrams the network delivers twice
          MaxForgets      \* bound: times a message id is forgotten

TransportAssumption ==
  /\ MsgOf \in [Sends -> Msgs]
  /\ Total \in [Msgs -> Nat \ {0, 1}]
  /\ {MaxChunkTotal, AckMaxRounds, MaxAge, RecvTimeout, MaxLosses, MaxDups, MaxForgets}
       \subseteq Nat
  /\ Busy \in BOOLEAN /\ Prompt \in BOOLEAN

Chunks(k) == 0..(Total[MsgOf[k]] - 1)

VARIABLES stage,      \* per send: "idle", "waiting" for acknowledgements, and how it
                      \*   ended: "acked" or "gaveup"
          round,      \* retransmission rounds done
          acked,      \* _pending_chunked_sends[k]["acked"]
          net,        \* chunks in flight
          acks,       \* acknowledgements in flight
          held,       \* the chunks of _Reassembler._pending[k]; {} when it has no entry
          age,        \* ticks since that entry's "ts"
          task,       \* what each worker is in the middle of
          seen,       \* _seen_msg
          delivered,  \* per message: how often on_block was called
          forgot,     \* per message: how often _seen_msg lost it
          whole,      \* sends whose chunks were joined at least once
          dropped,    \* sends whose buffer was evicted, incomplete, before they were acked
          quiet,      \* ticks the receive loop has waited in recvfrom
          lost, dups  \* counters of the two bounds

sending == <<stage, round, acked>>
receiving == <<held, age, task, seen, delivered, forgot, whole, dropped>>
vars == <<sending, net, acks, receiving, quiet, lost, dups>>

Idle == [at |-> "idle"]

Tasks == {Idle} \cup [at : {"fed"}, of : Sends, full : BOOLEAN] \cup [at : {"dispatch"}, of : Sends]

TypeOK ==
  /\ stage \in [Sends -> {"idle", "waiting", "acked", "gaveup"}]
  /\ round \in [Sends -> 0..AckMaxRounds]
  /\ \A k \in Sends : acked[k] \subseteq Chunks(k) /\ held[k] \subseteq Chunks(k)
  /\ \A d \in net : d.of \in Sends /\ d.chunk \in Chunks(d.of)
  /\ \A a \in acks : a.of \in Sends /\ a.chunks \subseteq Chunks(a.of)
  /\ age \in [Sends -> 0..MaxAge]
  /\ task \in [Workers -> Tasks]
  /\ seen \subseteq Msgs
  /\ delivered \in [Msgs -> Nat]
  /\ forgot \in [Msgs -> 0..MaxForgets]
  /\ whole \subseteq Sends /\ dropped \subseteq Sends
  /\ quiet \in 0..RecvTimeout /\ lost \in 0..MaxLosses /\ dups \in 0..MaxDups

Init ==
  /\ stage = [k \in Sends |-> "idle"]
  /\ round = [k \in Sends |-> 0]
  /\ acked = [k \in Sends |-> {}]
  /\ net = {} /\ acks = {}
  /\ held = [k \in Sends |-> {}]
  /\ age = [k \in Sends |-> 0]
  /\ task = [w \in Workers |-> Idle]
  /\ seen = {}
  /\ delivered = [m \in Msgs |-> 0]
  /\ forgot = [m \in Msgs |-> 0]
  /\ whole = {} /\ dropped = {}
  /\ quiet = 0 /\ lost = 0 /\ dups = 0

-----------------------------------------------------------------------------
(* The sender *)

Datagrams(k, chunks) == {[of |-> k, chunk |-> i] : i \in chunks}

AllAcked(k) == Chunks(k) \subseteq acked[k]

(* _send_chunked: registered, then sent.  A chunk may be late or lost, so  *)
(* the pacing between two chunks is not a step of its own.                 *)
Send(k) ==
  /\ stage[k] = "idle"
  /\ stage' = [stage EXCEPT ![k] = "waiting"]
  /\ net' = net \cup Datagrams(k, Chunks(k))
  /\ UNCHANGED <<round, acked, acks, receiving, quiet, lost, dups>>

NextRound(k) == round' = [round EXCEPT ![k] = @ + 1]

RoundLeft(k) == round[k] < AckMaxRounds

Missing(k) == Chunks(k) \ acked[k]

(* _retransmit_until_acked: the wait timed out, what is missing is resent. *)
Resend(k) ==
  /\ stage[k] = "waiting"
  /\ Prompt => net = {} /\ acks = {}
  /\ RoundLeft(k)
  /\ ~AllAcked(k)
  /\ net' = net \cup Datagrams(k, Missing(k))
  /\ NextRound(k)
  /\ UNCHANGED <<stage, acked, acks, receiving, quiet, lost, dups>>

(* The event is set: fully acknowledged. *)
Finish(k) ==
  /\ stage[k] = "waiting"
  /\ RoundLeft(k)
  /\ AllAcked(k)
  /\ stage' = [stage EXCEPT ![k] = "acked"]
  /\ UNCHANGED <<round, acked, net, acks, receiving, quiet, lost, dups>>

(* The last round is not waited for. *)
GiveUp(k) ==
  /\ stage[k] = "waiting"
  /\ round[k] = AckMaxRounds
  /\ stage' = [stage EXCEPT ![k] = "gaveup"]
  /\ UNCHANGED <<round, acked, net, acks, receiving, quiet, lost, dups>>

(* _handle_ack: what is acknowledged only grows, until the send is popped. *)
HandleAck(a) ==
  /\ a \in acks
  /\ acks' = acks \ {a}
  /\ acked' = IF stage[a.of] = "waiting"
              THEN [acked EXCEPT ![a.of] = @ \cup a.chunks]
              ELSE acked
  /\ UNCHANGED <<stage, round, net, receiving, quiet, lost, dups>>

-----------------------------------------------------------------------------
(* The receiver *)

(* A datagram leaves the network, unless it is delivered again later. *)
Deliver(d) ==
  /\ d \in net
  /\ \/ net' = net \ {d} /\ UNCHANGED dups
     \/ dups < MaxDups /\ dups' = dups + 1 /\ UNCHANGED net
  /\ quiet' = 0

Complete(k, chunks) == Cardinality(chunks) = Total[MsgOf[k]]

(* "ts" is set when the entry is made and never refreshed. *)
AgeAfterFeed(k) == IF held[k] = {} THEN 0 ELSE age[k]

(* A worker takes a chunk: _Reassembler.feed. *)
Feed(w, d) ==
  LET k == d.of
      chunks == held[k] \cup {d.chunk}
      full == Complete(k, chunks)
  IN  /\ task[w] = Idle
      /\ Total[MsgOf[k]] <= MaxChunkTotal
      /\ Deliver(d)
      /\ held' = [held EXCEPT ![k] = IF full THEN {} ELSE chunks]
      /\ age' = [age EXCEPT ![k] = IF full THEN 0 ELSE AgeAfterFeed(k)]
      /\ whole' = IF full THEN whole \cup {k} ELSE whole
      /\ task' = [task EXCEPT ![w] = [at |-> "fed", of |-> k, full |-> full]]
      /\ UNCHANGED <<sending, acks, seen, delivered, forgot, dropped, lost>>

(* feed refuses a message of more than MAX_CHUNK_TOTAL chunks. *)
Refuse(w, d) ==
  /\ task[w] = Idle
  /\ Total[MsgOf[d.of]] > MaxChunkTotal
  /\ Deliver(d)
  /\ task' = [task EXCEPT ![w] = [at |-> "fed", of |-> d.of, full |-> FALSE]]
  /\ UNCHANGED <<sending, acks, held, age, seen, delivered, forgot, whole, dropped, lost>>

(* Mutant: whatever came, the whole message is acknowledged. *)
AllHeld(k, full) == Chunks(k)

(* held_chunks, read after feed let go of the lock: another worker may     *)
(* have completed the message in between.                                  *)
Held(k, full) == IF full THEN Chunks(k) ELSE held[k]

Acknowledge(w) ==
  LET t == task[w] IN
  /\ t.at = "fed"
  /\ acks' = acks \cup {[of |-> t.of, chunks |-> Held(t.of, t.full)]}
  /\ task' = [task EXCEPT ![w] = IF t.full THEN [at |-> "dispatch", of |-> t.of] ELSE Idle]
  /\ UNCHANGED <<sending, net, held, age, seen, delivered, forgot, whole, dropped,
                 quiet, lost, dups>>

(* Mutant: a check that does not remember. *)
ForgetfulIsNew(m) == m \notin seen /\ UNCHANGED seen

(* _is_new *)
IsNew(m) == m \notin seen /\ seen' = seen \cup {m}

(* _dispatch of a block not seen before: on_block. *)
Dispatch(w) ==
  LET m == MsgOf[task[w].of] IN
  /\ task[w].at = "dispatch"
  /\ IsNew(m)
  /\ delivered' = [delivered EXCEPT ![m] = @ + 1]
  /\ task' = [task EXCEPT ![w] = Idle]
  /\ UNCHANGED <<sending, net, acks, held, age, forgot, whole, dropped, quiet, lost, dups>>

DropSeen(w) ==
  /\ task[w].at = "dispatch"
  /\ MsgOf[task[w].of] \in seen
  /\ task' = [task EXCEPT ![w] = Idle]
  /\ UNCHANGED <<sending, net, acks, held, age, seen, delivered, forgot, whole, dropped,
                 quiet, lost, dups>>

(* _mark_seen of another message: above 50,000 ids those of more than 300  *)
(* seconds go.                                                             *)
Forget(m) ==
  /\ m \in seen /\ forgot[m] < MaxForgets
  /\ seen' = seen \ {m}
  /\ forgot' = [forgot EXCEPT ![m] = @ + 1]
  /\ UNCHANGED <<sending, net, acks, held, age, task, delivered, whole, dropped,
                 quiet, lost, dups>>

(* Mutant: an entry whose send is over is left to its sender. *)
StaleWhileSent == {k \in Sends : held[k] # {} /\ age[k] = MaxAge /\ stage[k] = "waiting"}

Stale == {k \in Sends : held[k] # {} /\ age[k] = MaxAge}

(* evict_stale, which _recv_loop calls when recvfrom times out. *)
EvictStale ==
  /\ quiet = RecvTimeout
  /\ quiet' = 0
  /\ held' = [k \in Sends |-> IF k \in Stale THEN {} ELSE held[k]]
  /\ age' = [k \in Sends |-> IF k \in Stale THEN 0 ELSE age[k]]
  /\ dropped' = dropped \cup {k \in Stale \ whole : stage[k] # "acked"}
  /\ UNCHANGED <<sending, net, acks, task, seen, delivered, forgot, whole, lost, dups>>

-----------------------------------------------------------------------------
(* The surroundings *)

LoseChunk(d) ==
  /\ lost < MaxLosses /\ lost' = lost + 1
  /\ net' = net \ {d}
  /\ UNCHANGED <<sending, acks, receiving, quiet, dups>>

LoseAck(a) ==
  /\ lost < MaxLosses /\ lost' = lost + 1
  /\ acks' = acks \ {a}
  /\ UNCHANGED <<sending, net, receiving, quiet, dups>>

(* A datagram that has nothing to do with the sends. *)
OtherTraffic ==
  /\ Busy
  /\ quiet' = 0
  /\ UNCHANGED <<sending, net, acks, receiving, lost, dups>>

AtMost(n, cap) == IF n < cap THEN n ELSE cap

(* Time passes.  Nothing bounds how long a send is tracked: it is from its *)
(* first chunk on, and its rounds begin when a thread is free for them.    *)
Tick ==
  /\ quiet < RecvTimeout
  /\ Prompt => net = {}
  /\ quiet' = quiet + 1
  /\ age' = [k \in Sends |-> IF held[k] = {} THEN 0 ELSE AtMost(age[k] + 1, MaxAge)]
  /\ UNCHANGED <<sending, net, acks, held, task, seen, delivered, forgot, whole, dropped,
                 lost, dups>>

Next ==
  \/ \E k \in Sends : Send(k) \/ Resend(k) \/ Finish(k) \/ GiveUp(k)
  \/ \E a \in acks : HandleAck(a) \/ LoseAck(a)
  \/ \E w \in Workers : \/ \E d \in net : Feed(w, d) \/ Refuse(w, d)
                        \/ Acknowledge(w) \/ Dispatch(w) \/ DropSeen(w)
  \/ \E d \in net : LoseChunk(d)
  \/ \E m \in Msgs : Forget(m)
  \/ EvictStale \/ OtherTraffic \/ Tick

Spec == Init /\ [][Next]_vars

(* Threads that can run do, what the network does not lose it delivers,    *)
(* and time passes.  Nobody has to send.                                   *)
Fairness ==
  /\ \A k \in Sends : WF_vars(Resend(k) \/ Finish(k) \/ GiveUp(k))
  /\ \A w \in Workers : WF_vars(Acknowledge(w) \/ Dispatch(w) \/ DropSeen(w))
  /\ WF_vars(\E w \in Workers, d \in net : Feed(w, d) \/ Refuse(w, d))
  /\ WF_vars(\E a \in acks : HandleAck(a))
  /\ WF_vars(EvictStale)
  /\ WF_vars(Tick)

-----------------------------------------------------------------------------

(* A block is handed to the node once, however many senders resend it and  *)
(* however many workers complete it at the same time, and once more only   *)
(* for each time its id was forgotten (_is_new, _mark_seen).               *)
DeliveredOnce == \A m \in Msgs : delivered[m] <= 1 + forgot[m]

(* A send that stopped because everything was acknowledged was reassembled *)
(* whole, unless its buffer was evicted in the middle of it: losses,       *)
(* duplicates and two workers on one message never make acknowledgements   *)
(* add up to more than the receiver has (feed, held_chunks, _handle_ack).  *)
AckedMeansWhole == \A k \in Sends : stage[k] = "acked" => k \in whole \/ k \in dropped

(* The same with evictions: "the receiver ACKs its current chunk holdings  *)
(* ... and the sender resends only what's still missing" (peer_udp.py:18). *)
AckedIsReassembled == \A k \in Sends : stage[k] = "acked" => k \in whole

(* A partly received message is completed or dropped: no buffer, nor one   *)
(* that a late duplicate opened again, is kept for good (evict_stale).     *)
BuffersAreFreed == \A k \in Sends : held[k] # {} ~> held[k] = {}

(* A block is handed over as long as no more datagrams are lost than there *)
(* are rounds and its buffer is not evicted between them: "resends only    *)
(* what's still missing", and what the receiver says it holds it holds.    *)
SentIsDelivered ==
  \A k \in Sends : stage[k] = "waiting" ~> delivered[MsgOf[k]] > 0 \/ k \in dropped

=============================================================================
