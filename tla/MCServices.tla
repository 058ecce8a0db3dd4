------------------------------ MODULE MCServices ------------------------------
(***************************************************************************)
(* Four small worlds around one node, checked in one run: a behaviour is a *)
(* behaviour of Bridge, of Explorer, of Payouts or of Startup, and the     *)
(* variables of the other three stay as their Init leaves them.            *)
(***************************************************************************)
EXTENDS Bridge

CONSTANTS Worlds,  \* those of the four that are tried
          Clients, MaxHeight, MaxLookups,                 \* Explorer
          MaxBudget, MaxPayouts, MaxEdits, MaxCrashes,    \* Payouts
          MaxReorgs,                                      \* both
          Procs, Dirs, Dbs, NoLocking, MaxLaunches        \* Startup

VARIABLES world,
          chain, view, row, txPending, submitted, todo, old, reorgs, lookup, asked, confirmed,
          left, pending, cycle, seen, payouts, sent, page, granted, edits, crashes,
          payoutReorgs, reorged, faults,
          at, cwd, db, holder, launches, blocker

lookupVars == <<chain, view, row, txPending, submitted, todo, old, reorgs, lookup, asked,
                confirmed>>
payoutVars == <<left, pending, cycle, seen, payouts, sent, page, granted, edits, crashes,
                payoutReorgs, reorged, faults>>
launchVars == <<at, cwd, db, holder, launches, blocker>>

Lookups == INSTANCE Explorer WITH pool <- txPending
Rewarder == INSTANCE Payouts WITH pc <- cycle, reorgs <- payoutReorgs
Launches == INSTANCE Startup

ASSUME ServicesAssumption ==
  /\ Worlds \subseteq {"bridge", "lookups", "rewarder", "launches"}
  /\ Lookups!ExplorerAssumption /\ Rewarder!PayoutsAssumption /\ Launches!StartupAssumption

WorldInit ==
  /\ world \in Worlds
  /\ Init /\ Lookups!Init /\ Rewarder!Init /\ Launches!Init

WorldNext ==
  /\ UNCHANGED world
  /\ \/ /\ world = "bridge" /\ Next
        /\ UNCHANGED <<lookupVars, payoutVars, launchVars>>
     \/ /\ world = "lookups" /\ Lookups!Next
        /\ UNCHANGED <<vars, payoutVars, launchVars>>
     \/ /\ world = "rewarder" /\ Rewarder!Next
        /\ UNCHANGED <<vars, lookupVars, launchVars>>
     \/ /\ world = "launches" /\ Launches!Next
        /\ UNCHANGED <<vars, lookupVars, payoutVars>>

WorldSpec == WorldInit /\ [][WorldNext]_<<world, vars, lookupVars, payoutVars, launchVars>>

-----------------------------------------------------------------------------
(* The properties of the components.                                       *)

(* Told once that it is confirmed, always told so.                         *)
ConfirmedStaysConfirmed == Lookups!ConfirmedStaysConfirmed

(* The budget and the payouts add up to what was granted.                  *)
BooksBalance == Rewarder!BooksBalance

(* A payout does not stay pending.                                         *)
PayoutsAreSettled == world = "rewarder" /\ Rewarder!Fairness => Rewarder!PayoutsAreSettled

(* Never two running processes with one database.                          *)
SoleWriter == Launches!SoleWriter

(* A start is refused only while another instance is alive: no end of a    *)
(* process, a crash included, leaves a lock.  It needs locks that work: a  *)
(* failing lock call blocks a start, although main.py:166 says it does not.*)
NoStartIsBlocked == Launches!NoStartIsBlocked

-----------------------------------------------------------------------------
(* What documents and comments promise and the code does not keep.         *)

(* A transaction that was sent is found: api.py:27.                        *)
SubmittedIsFound == Lookups!SubmittedIsFound

(* An edit of the budget is kept: uptime_rewarder.py:89.                   *)
EditsAreKept == Rewarder!EditsAreKept

(* A payout is paid or refunded: uptime_rewarder.py:176.                   *)
PaidOrRefunded == Rewarder!PaidOrRefunded
=============================================================================
