-------------------------------- MODULE Workers --------------------------------
(***************************************************************************)
(* The thread pool of src/peer_udp.py: it handles the datagrams, and each  *)
(* chunked send keeps one of its threads until it is acknowledged or has   *)
(* given up, acknowledgements being datagrams themselves.  Here a node     *)
(* relays blocks to its peers on a network that loses nothing; Transport   *)
(* has the losses.                                                         *)
(***************************************************************************)
EXTENDS Naturals, Sequences, FiniteSets, SequencesExt

CONSTANTS Blocks,       \* blocks that arrive to be relayed
          Peers,
          Threads,      \* the executor's max_workers
          AckMaxRounds  \* CHUNK_ACK_MAX_ROUNDS

WorkersAssumption == {Threads, AckMaxRounds} \subseteq Nat \ {0}

Sends == Blocks \X Peers

VARIABLES arrived,  \* blocks received
          queue,    \* the executor's queue
          running,  \* the tasks that have a thread
          relayTo,  \* per block: peers _rebroadcast has not sent it to
          net,      \* acknowledgements on their way here
          acked,    \* sends whose event is set
          round,    \* retransmission rounds done
          resent    \* sends of which chunks were sent again: history

vars == <<arrived, queue, running, relayTo, net, acked, round, resent>>

Tasks == [do : {"relay"}, of : Blocks] \cup [do : {"retry", "ack"}, of : Sends]

Relay(b) == [do |-> "relay", of |-> b]
Retry(s) == [do |-> "retry", of |-> s]
Ack(s) == [do |-> "ack", of |-> s]

TypeOK ==
  /\ arrived \subseteq Blocks
  /\ queue \in Seq(Tasks)
  /\ running \subseteq Tasks /\ Cardinality(running) <= Threads
  /\ relayTo \in [Blocks -> SUBSET Peers]
  /\ net \subseteq Sends /\ acked \subseteq Sends /\ resent \subseteq Sends
  /\ round \in [Sends -> 0..AckMaxRounds]

Init ==
  /\ arrived = {} /\ queue = <<>> /\ running = {}
  /\ relayTo = [b \in Blocks |-> Peers]
  /\ net = {} /\ acked = {} /\ resent = {}
  /\ round = [s \in Sends |-> 0]

-----------------------------------------------------------------------------
(* _recv_loop: a datagram becomes a task.                                  *)
BlockArrives(b) ==
  /\ b \notin arrived /\ arrived' = arrived \cup {b}
  /\ queue' = Append(queue, Relay(b))
  /\ UNCHANGED <<running, relayTo, net, acked, round, resent>>

AckArrives(s) ==
  /\ s \in net /\ net' = net \ {s}
  /\ queue' = Append(queue, Ack(s))
  /\ UNCHANGED <<arrived, running, relayTo, acked, round, resent>>

FreeThread == Cardinality(running) < Threads

(* Two acknowledgements of one send take turns, at _chunk_lock.            *)
Start ==
  /\ queue # <<>> /\ FreeThread /\ Head(queue) \notin running
  /\ running' = running \cup {Head(queue)}
  /\ queue' = Tail(queue)
  /\ UNCHANGED <<arrived, relayTo, net, acked, round, resent>>

(* _rebroadcast, peer after peer: _send_chunked, and its retransmission is *)
(* queued.  The peer acknowledges.                                         *)
RelayNext(b) ==
  /\ Relay(b) \in running
  /\ \E p \in relayTo[b] :
       /\ relayTo' = [relayTo EXCEPT ![b] = @ \ {p}]
       /\ net' = net \cup {<<b, p>>}
       /\ queue' = Append(queue, Retry(<<b, p>>))
       /\ running' = IF relayTo[b] = {p} THEN running \ {Relay(b)} ELSE running
  /\ UNCHANGED <<arrived, acked, round, resent>>

(* Mutant: the acknowledgement is not noted.                               *)
IgnoreAck(s) == UNCHANGED acked

NoteAck(s) == acked' = acked \cup {s}

HandleAck(s) ==
  /\ Ack(s) \in running
  /\ running' = running \ {Ack(s)}
  /\ NoteAck(s)
  /\ UNCHANGED <<arrived, queue, relayTo, net, round, resent>>

(* _retransmit_until_acked: the event is set ...                           *)
RetryEnds(s) ==
  /\ Retry(s) \in running /\ s \in acked
  /\ running' = running \ {Retry(s)}
  /\ UNCHANGED <<arrived, queue, relayTo, net, acked, round, resent>>

NextRound(s) == round[s] + 1

(* CHUNK_ACK_TIMEOUT is long: every acknowledgement that can have a thread *)
(* is handled before.                                                      *)
TimeIsUp ==
  /\ net = {} /\ \A s \in Sends : Ack(s) \notin running
  /\ FreeThread => queue = <<>>

(* ... or the wait ends, and the chunks not acknowledged are sent again.   *)
Resend(s) ==
  /\ Retry(s) \in running /\ s \notin acked /\ TimeIsUp
  /\ round' = [round EXCEPT ![s] = NextRound(s)]
  /\ net' = net \cup {s} /\ resent' = resent \cup {s}
  /\ running' = IF NextRound(s) = AckMaxRounds THEN running \ {Retry(s)} ELSE running
  /\ UNCHANGED <<arrived, queue, relayTo, acked>>

Next ==
  \/ \E b \in Blocks : BlockArrives(b) \/ RelayNext(b)
  \/ Start
  \/ \E s \in Sends : AckArrives(s) \/ HandleAck(s) \/ RetryEnds(s) \/ Resend(s)

Spec == Init /\ [][Next]_vars

Fairness ==
  /\ WF_vars(Start)
  /\ \A b \in Blocks : WF_vars(RelayNext(b))
  /\ \A s \in Sends : /\ WF_vars(AckArrives(s)) /\ WF_vars(HandleAck(s))
                      /\ WF_vars(RetryEnds(s)) /\ WF_vars(Resend(s))

-----------------------------------------------------------------------------

(* "the sender resends only what's still missing": when nothing is lost,   *)
(* nothing is sent twice.                                                  *)
OnlyMissingIsResent == resent = {}

(* Nobody waits for ever: however many retransmissions hold the threads    *)
(* the acknowledgements need, every block that arrives is relayed to every *)
(* peer and every acknowledgement is handled.                              *)
EveryoneIsServed == \A b \in Blocks : b \in arrived ~> \A p \in Peers : <<b, p>> \in acked
=============================================================================
