-------------------------------- MODULE Bridge --------------------------------
(***************************************************************************)
(* Threads that send from the node's own wallet: the pages and the         *)
(* rewarder choose a nonce from the published view and the mempool, sign,  *)
(* queue the transaction and wait for the loop (submit_tx_from_api of      *)
(* src/node.py), while the loop drains its queue and commits blocks.       *)
(*                                                                         *)
(* A transaction is the call it was made in and its nonce; balances,       *)
(* expiry and reorganisations are in Node.                                 *)
(***************************************************************************)
EXTENDS Naturals, Sequences, FiniteSets, FiniteSetsExt

CONSTANTS Threads,
          MaxCalls,   \* bound: sends per thread
          Patient     \* the loop always answers within the timeout

ASSUME BridgeAssumption ==
  IsFiniteSet(Threads) /\ MaxCalls \in Nat \ {0} /\ Patient \in BOOLEAN

Calls == Threads \X (1..MaxCalls)

VARIABLES pc,        \* what a thread is doing
          made,      \* the number of calls it has begun
          base,      \* get_nonce of the view it read
          nonce,     \* the nonce of each call's transaction, 0 before
          netInQ,    \* net_in_q: calls in the order they were queued
          replies,   \* answers put and not read: [in, ok]
          told,      \* what each call returned
          verdict,   \* what the loop decided: the history the answers are compared with
          pool,      \* the mempool: calls
          committed, \* get_nonce of self.cs
          shown,     \* get_nonce of self.view
          loop       \* "drain", or inside _commit after the chain or after the mempool

vars == <<pc, made, base, nonce, netInQ, replies, told, verdict, pool, committed, shown, loop>>
wallet == <<pc, made, base, nonce, told>>
node == <<verdict, pool, committed, shown, loop>>

MaxNonce == MaxCalls * Cardinality(Threads)

TypeOK ==
  /\ pc \in [Threads -> {"idle", "viewed", "signed", "waiting"}]
  /\ made \in [Threads -> 0..MaxCalls]
  /\ base \in [Threads -> 0..MaxNonce] /\ nonce \in [Calls -> 0..MaxNonce]
  /\ netInQ \in Seq(Calls)
  /\ replies \subseteq [in : Calls, ok : BOOLEAN]
  /\ told \in [Calls -> {"nothing", "accepted", "rejected", "busy", "error"}]
  /\ verdict \in [Calls -> {"none", "ok", "no"}]
  /\ pool \subseteq Calls
  /\ committed \in 0..MaxNonce /\ shown \in 0..MaxNonce
  /\ loop \in {"drain", "applied", "removed"}

Init ==
  /\ pc = [t \in Threads |-> "idle"] /\ made = [t \in Threads |-> 0]
  /\ base = [t \in Threads |-> 0] /\ nonce = [c \in Calls |-> 0]
  /\ netInQ = <<>> /\ replies = {}
  /\ told = [c \in Calls |-> "nothing"] /\ verdict = [c \in Calls |-> "none"]
  /\ pool = {} /\ committed = 0 /\ shown = 0 /\ loop = "drain"

-----------------------------------------------------------------------------
(* The call a thread is in, and the queue its answer comes back in *)
Current(t) == <<t, made[t]>>

(* Mutant: one reply queue per thread.                                     *)
ThreadQueue(c) == <<c[1], 0>>

ReplyQueue(c) == c

(* pending_nonce *)
PendingNonce == Max({0} \cup {nonce[c] : c \in pool})

(* _build_and_sign_tx_with_kek reads the view first ...                    *)
ReadView(t) ==
  /\ pc[t] = "idle" /\ made[t] < MaxCalls
  /\ made' = [made EXCEPT ![t] = @ + 1]
  /\ base' = [base EXCEPT ![t] = shown]
  /\ pc' = [pc EXCEPT ![t] = "viewed"]
  /\ UNCHANGED <<nonce, told, netInQ, replies, node>>

(* ... and then the mempool ...                                            *)
ReadPending(t) ==
  /\ pc[t] = "viewed"
  /\ nonce' = [nonce EXCEPT ![Current(t)] = Max({base[t], PendingNonce}) + 1]
  /\ pc' = [pc EXCEPT ![t] = "signed"]
  /\ UNCHANGED <<made, base, told, netInQ, replies, node>>

(* ... whose dictionary the loop may change under the iteration: it raises *)
(* and nothing is sent.                                                    *)
PendingRaises(t) ==
  /\ pc[t] = "viewed" /\ (netInQ # <<>> \/ loop = "applied")
  /\ told' = [told EXCEPT ![Current(t)] = "error"]
  /\ pc' = [pc EXCEPT ![t] = "idle"]
  /\ UNCHANGED <<made, base, nonce, netInQ, replies, node>>

(* submit_tx_from_api *)
Enqueue(t) ==
  /\ pc[t] = "signed"
  /\ netInQ' = Append(netInQ, Current(t))
  /\ pc' = [pc EXCEPT ![t] = "waiting"]
  /\ UNCHANGED <<made, base, nonce, told, replies, node>>

GetReply(t) ==
  /\ pc[t] = "waiting"
  /\ \E r \in replies :
       /\ r.in = ReplyQueue(Current(t))
       /\ told' = [told EXCEPT ![Current(t)] = IF r.ok THEN "accepted" ELSE "rejected"]
       /\ replies' = replies \ {r}
  /\ pc' = [pc EXCEPT ![t] = "idle"]
  /\ UNCHANGED <<made, base, nonce, netInQ, node>>

Empty(t) == \A r \in replies : r.in # ReplyQueue(Current(t))

GiveUp(t) ==
  /\ ~Patient /\ pc[t] = "waiting" /\ Empty(t)
  /\ told' = [told EXCEPT ![Current(t)] = "busy"]
  /\ pc' = [pc EXCEPT ![t] = "idle"]
  /\ UNCHANGED <<made, base, nonce, netInQ, replies, node>>

-----------------------------------------------------------------------------
(* Mutant: validated against the chain alone.                              *)
NextOnChain == committed + 1

(* probe_state_for: the nonce that is valid next.                          *)
NextNonce == Max({committed, PendingNonce}) + 1

(* _handle of a submit_tx message, with submit_tx.                         *)
Judge ==
  /\ loop = "drain" /\ netInQ # <<>>
  /\ LET c == Head(netInQ)
         ok == nonce[c] = NextNonce
     IN  /\ verdict' = [verdict EXCEPT ![c] = IF ok THEN "ok" ELSE "no"]
         /\ pool' = IF ok THEN pool \cup {c} ELSE pool
         /\ replies' = replies \cup {[in |-> ReplyQueue(c), ok |-> ok]}
  /\ netInQ' = Tail(netInQ)
  /\ UNCHANGED <<wallet, committed, shown, loop>>

(* _commit of a block with the pending transactions up to a nonce ...      *)
ApplyBlock(n) ==
  /\ loop = "drain" /\ n \in {nonce[c] : c \in pool}
  /\ committed' = n
  /\ loop' = "applied"
  /\ UNCHANGED <<wallet, netInQ, replies, verdict, pool, shown>>

(* ... remove_many ...                                                     *)
RemoveMany ==
  /\ loop = "applied"
  /\ pool' = {c \in pool : nonce[c] > committed}
  /\ loop' = "removed"
  /\ UNCHANGED <<wallet, netInQ, replies, verdict, committed, shown>>

(* ... and only then the view.                                             *)
PublishView ==
  /\ loop = "removed"
  /\ shown' = committed
  /\ loop' = "drain"
  /\ UNCHANGED <<wallet, netInQ, replies, verdict, pool, committed>>

Next ==
  \/ \E t \in Threads : \/ ReadView(t) \/ ReadPending(t) \/ PendingRaises(t)
                        \/ Enqueue(t) \/ GetReply(t) \/ GiveUp(t)
  \/ Judge
  \/ \E n \in 1..MaxNonce : ApplyBlock(n)
  \/ RemoveMany \/ PublishView

Spec == Init /\ [][Next]_vars

-----------------------------------------------------------------------------

(* An answer is the loop's decision on this very call, also when an earlier *)
(* call of the thread gave up and was answered later.                      *)
ToldTheTruth == \A c \in Calls :
  /\ told[c] = "accepted" => verdict[c] = "ok"
  /\ told[c] = "rejected" => verdict[c] = "no"

(* Whatever nonces the threads chose from a view and a mempool that were    *)
(* out of step, those accepted are 1, 2, ... without a gap or a repetition. *)
AcceptedInOrder ==
  LET accepted == {c \in Calls : verdict[c] = "ok"}
  IN  {nonce[c] : c \in accepted} = 1..Cardinality(accepted)

(* "block until the loop replies": a call that came back without having    *)
(* been accepted will not be accepted.                                     *)
FailureIsFinal == \A c \in Calls : told[c] = "busy" => verdict[c] # "ok"

(* A wallet that sends one transaction after the other, alone, and waits   *)
(* for each answer need not wait for confirmations.                        *)
SendsInARowAreAccepted == \A c \in Calls : told[c] # "rejected"
=============================================================================
