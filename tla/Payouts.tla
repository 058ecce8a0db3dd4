-------------------------------- MODULE Payouts --------------------------------
(***************************************************************************)
(* The budget of src/uptime_rewarder.py: the hourly cycle settles the last *)
(* payout and sends the next one from the node's wallet, while the page    *)
(* edits the budget and the network confirms, drops or reorganises the     *)
(* payout.                                                                 *)
(*                                                                         *)
(* Each change of the state is saved under the lock, with os.replace, so a *)
(* restart finds what the memory had.  Who is eligible and how much is     *)
(* paid is any amount up to the budget.                                    *)
(***************************************************************************)
EXTENDS Integers, FiniteSets, Sums

CONSTANTS MaxBudget,   \* bound: ticks of a budget
          MaxPayouts,  \* bound: payouts sent
          MaxEdits, MaxCrashes, MaxReorgs  \* bounds

PayoutsAssumption == {MaxBudget, MaxPayouts, MaxEdits, MaxCrashes, MaxReorgs} \subseteq Nat

FaultKinds == {"edit",   \* the page changes the budget while a payout is being sent
               "late",   \* the loop accepts a payout after the timeout
               "crash",  \* the process dies between sending a payout and saving it
               "reorg"}  \* a confirmed payout falls out of the chain

Ids == 1..MaxPayouts

VARIABLES left,     \* remaining_ticks
          pending,  \* the payout of the last cycle, 0 for none
          pc,       \* where run_once is
          seen,     \* the budget run_once has read, or what it found of the last payout
          payouts,  \* id -> [amount, at]: where its transaction is
          sent,     \* payouts signed so far
          page,     \* the budget the page has read, {} if it has not
          granted,  \* what the edits added up to: history
          edits, crashes, reorgs,
          reorged,  \* payouts that fell out of the chain
          faults    \* the kinds of trouble there have been: history

vars == <<left, pending, pc, seen, payouts, sent, page, granted, edits, crashes, reorgs, reorged,
          faults>>
network == <<payouts, crashes, reorgs, reorged, faults>>
web == <<page, granted, edits>>

Budgets == 0..(2 * MaxBudget)

TypeOK ==
  /\ left \in Budgets /\ pending \in 0..MaxPayouts
  /\ pc \in {"asleep", "found", "settled", "sending", "accepted"}
  /\ seen \in Budgets /\ sent \in 0..MaxPayouts
  /\ payouts \in [Ids -> [amount : 0..MaxBudget,
                          at : {"unsent", "queued", "pool", "away", "chain", "gone"}]]
  /\ page \in {{}} \cup {{b} : b \in Budgets} /\ granted \in Budgets
  /\ edits \in 0..MaxEdits /\ crashes \in 0..MaxCrashes /\ reorgs \in 0..MaxReorgs
  /\ reorged \subseteq Ids /\ faults \subseteq FaultKinds

Init ==
  /\ left = 0 /\ pending = 0 /\ pc = "asleep" /\ seen = 0
  /\ payouts = [p \in Ids |-> [amount |-> 0, at |-> "unsent"]] /\ sent = 0
  /\ page = {} /\ granted = 0 /\ edits = 0 /\ crashes = 0 /\ reorgs = 0 /\ reorged = {}
  /\ faults = {}

-----------------------------------------------------------------------------
(* run_once *)

At(p) == payouts[p].at

(* check_interval is longer than a transaction may stay pending, unless it  *)
(* became pending again later.                                             *)
HourIsOver == \A p \in Ids : At(p) \in {"queued", "pool", "away"} => p \in reorged

(* _resolve_pending looks the payout up in the mempool and the index ...   *)
FindPending ==
  /\ pc = "asleep" /\ pending # 0 /\ HourIsOver
  /\ seen' = IF At(pending) \in {"pool", "chain"} THEN 0 ELSE payouts[pending].amount
  /\ pc' = "found"
  /\ UNCHANGED <<left, pending, sent, web, network>>

(* Mutant: what is not confirmed is looked at again next time.             *)
SettleConfirmed ==
  /\ pc = "found"
  /\ pending' = IF seen = 0 THEN 0 ELSE pending
  /\ pc' = IF seen = 0 THEN "settled" ELSE "asleep"
  /\ seen' = 0
  /\ UNCHANGED <<left, sent, web, network>>

(* Mutant: confirmed payouts are refunded and lost ones are not.           *)
SettleSwapped ==
  /\ pc = "found"
  /\ left' = left + payouts[pending].amount - seen
  /\ pending' = 0 /\ pc' = "settled" /\ seen' = 0
  /\ UNCHANGED <<sent, web, network>>

(* ... and then, under the lock, refunds it if it was in neither.          *)
Settle ==
  /\ pc = "found"
  /\ left' = left + seen
  /\ pending' = 0 /\ pc' = "settled" /\ seen' = 0
  /\ UNCHANGED <<sent, web, network>>

(* The budget is read, and perhaps somebody is eligible: the payout is     *)
(* signed and queued.                                                      *)
Send(amount) ==
  /\ pc = "settled" \/ (pc = "asleep" /\ pending = 0 /\ HourIsOver)
  /\ amount \in 1..left /\ amount <= MaxBudget /\ sent < MaxPayouts
  /\ sent' = sent + 1
  /\ seen' = left
  /\ payouts' = [payouts EXCEPT ![sent + 1] = [amount |-> amount, at |-> "queued"]]
  /\ pc' = "sending"
  /\ UNCHANGED <<left, pending, web, crashes, reorgs, reorged, faults>>

NothingToSend ==
  /\ pc = "settled"
  /\ pc' = "asleep"
  /\ UNCHANGED <<left, pending, seen, sent, web, network>>

(* submit_tx_from_api: accepted, rejected ...                              *)
Accepted ==
  /\ pc = "sending"
  /\ payouts' = [payouts EXCEPT ![sent].at = "pool"]
  /\ pc' = "accepted"
  /\ UNCHANGED <<left, pending, seen, sent, web, crashes, reorgs, reorged, faults>>

Rejected ==
  /\ pc = "sending"
  /\ payouts' = [payouts EXCEPT ![sent].at = "gone"]
  /\ pc' = "asleep" /\ seen' = 0
  /\ UNCHANGED <<left, pending, sent, web, crashes, reorgs, reorged, faults>>

(* ... or "node busy (timeout)", and the loop accepts it later.            *)
Unanswered ==
  /\ pc = "sending"
  /\ pc' = "asleep" /\ seen' = 0
  /\ faults' = faults \cup {"late"}
  /\ UNCHANGED <<left, pending, sent, web, payouts, crashes, reorgs, reorged>>

AcceptedLate ==
  /\ pc = "asleep" /\ sent > 0 /\ At(sent) = "queued"
  /\ payouts' = [payouts EXCEPT ![sent].at = "pool"]
  /\ UNCHANGED <<left, pending, pc, seen, sent, web, crashes, reorgs, reorged, faults>>

(* The debit: the budget read before sending, less the payout.             *)
Debit ==
  /\ pc = "accepted"
  /\ left' = seen - payouts[sent].amount
  /\ pending' = sent
  /\ pc' = "asleep" /\ seen' = 0
  /\ UNCHANGED <<sent, web, network>>

-----------------------------------------------------------------------------
(* The page: rewards in src/api.py, with status and adjust_budget *)

ShowBudget ==
  /\ page = {} /\ edits < MaxEdits
  /\ page' = {left}
  /\ UNCHANGED <<left, pending, pc, seen, sent, granted, edits, network>>

(* The field holds a new number; what is changed is the difference to the  *)
(* one read, down to nothing.                                              *)
Adjusted(new, read) == IF left + new >= read THEN left + new - read ELSE 0

EditBudget(new) ==
  /\ faults' = IF pc \in {"sending", "accepted"} THEN faults \cup {"edit"} ELSE faults
  /\ \E read \in page :
       /\ Adjusted(new, read) <= MaxBudget
       /\ left' = Adjusted(new, read)
  /\ granted' = granted + left' - left
  /\ edits' = edits + 1 /\ page' = {}
  /\ UNCHANGED <<pending, pc, seen, sent, payouts, crashes, reorgs, reorged>>

-----------------------------------------------------------------------------
(* The process and the network *)

(* A restart: the mempool is empty, peers may still have the payout.       *)
Restart ==
  /\ crashes < MaxCrashes /\ crashes' = crashes + 1
  /\ faults' = IF pc \in {"sending", "accepted"} THEN faults \cup {"crash"} ELSE faults
  /\ pc' = "asleep" /\ seen' = 0 /\ page' = {}
  /\ payouts' = [p \in Ids |-> [payouts[p] EXCEPT !.at =
                   CASE @ = "pool" -> "away" [] @ = "queued" -> "gone" [] OTHER -> @]]
  /\ UNCHANGED <<left, pending, sent, granted, edits, reorgs, reorged>>

(* A pending payout is confirmed, or expires here or everywhere.           *)
Move(p) ==
  /\ At(p) \in {"pool", "away"}
  /\ \E at \in {"chain", "gone", "away"} \ {At(p)} : payouts' = [payouts EXCEPT ![p].at = at]
  /\ UNCHANGED <<left, pending, pc, seen, sent, web, crashes, reorgs, reorged, faults>>

(* Its block is abandoned: pending again, here or only elsewhere.          *)
Reorganise(p) ==
  /\ reorgs < MaxReorgs /\ reorgs' = reorgs + 1
  /\ faults' = faults \cup {"reorg"}
  /\ At(p) = "chain"
  /\ \E at \in {"pool", "away"} : payouts' = [payouts EXCEPT ![p].at = at]
  /\ reorged' = reorged \cup {p}
  /\ UNCHANGED <<left, pending, pc, seen, sent, web, crashes>>

Next ==
  \/ FindPending \/ Settle \/ NothingToSend
  \/ \E amount \in 1..MaxBudget : Send(amount)
  \/ Accepted \/ Rejected \/ Unanswered \/ AcceptedLate \/ Debit
  \/ ShowBudget \/ \E new \in 0..MaxBudget : EditBudget(new)
  \/ Restart
  \/ \E p \in Ids : Move(p) \/ Reorganise(p)

Spec == Init /\ [][Next]_vars

(* The thread wakes up every hour, and a transaction ends somewhere.       *)
Fairness ==
  /\ WF_vars(FindPending) /\ WF_vars(Settle) /\ WF_vars(AcceptedLate)
  /\ \A p \in Ids : WF_vars(At(p) \in {"pool", "away"} /\ Move(p))

-----------------------------------------------------------------------------

InCirculation == {p \in Ids : p = pending \/ At(p) \in {"pool", "away", "chain"}}

Balanced ==
  pc = "asleep" =>
    left + Total([p \in InCirculation |-> payouts[p].amount]) = granted

(* Between two cycles no tick of the budget is lost and none is spent      *)
(* twice: what is left and what the payouts in circulation took add up to  *)
(* what the operator granted, as long as there was no trouble.  Payouts are *)
(* confirmed, rejected or expire, the page is used and the process         *)
(* restarts between two payouts as they like.                              *)
BooksBalance == faults = {} => Balanced

(* "the field IS the remaining budget, editable in place": the budget may  *)
(* be edited at any moment.                                                *)
EditsAreKept == faults \subseteq {"edit"} => Balanced

(* "404-equivalent (never confirmed) refunds its amount back into the      *)
(* budget": a payout is paid or refunded, also when its block is abandoned.*)
PaidOrRefunded == faults \subseteq {"reorg"} => Balanced

(* A payout does not stay pending, whatever trouble there is: it is        *)
(* settled one way or the other.                                           *)
PayoutsAreSettled == \A p \in Ids : pending = p ~> pending # p
=============================================================================
