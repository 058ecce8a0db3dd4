------------------------------- MODULE Explorer -------------------------------
(***************************************************************************)
(* Looking up one transaction while the loop commits and reorganises: the  *)
(* handlers of src/api.py read the mempool, the index in the database and  *)
(* the published view one after the other, each at its own moment.         *)
(*                                                                         *)
(* A block is TRUE if it has the transaction.  A confirmed answer carries  *)
(* the confirmations; who sent it and how much is left out.                *)
(***************************************************************************)
EXTENDS Naturals, FiniteSets, Sequences, SequencesExt

CONSTANTS Clients,
          MaxHeight,  \* bound: blocks after genesis
          MaxReorgs,  \* bound: reorganisations
          MaxLookups  \* bound: lookups per client

ExplorerAssumption == {MaxHeight, MaxReorgs, MaxLookups} \subseteq Nat

Blocks == BoundedSeq(BOOLEAN, MaxHeight)
Places == {"pool", "row", "view"}
Answers == [said : {"pending", "confirmed", "not found"}, confirmations : 0..MaxHeight]
None == [said |-> "nothing yet", confirmations |-> 0]

VARIABLES chain,     \* self.cs
          view,      \* self.view
          row,       \* get_tx_height, 0 for none
          pool,      \* the transaction is in the mempool
          submitted, \* it was sent to this node
          todo,      \* what the loop has left of a commit or a reorganisation
          old,       \* the chain a reorganisation leaves
          reorgs,
          lookup,    \* what each client is doing
          asked,     \* lookups begun, for the bound
          confirmed  \* somebody has been told that it is confirmed: history

vars == <<chain, view, row, pool, submitted, todo, old, reorgs, lookup, asked, confirmed>>
node == <<chain, view, row, pool, submitted, todo, old, reorgs>>
clients == <<lookup, asked, confirmed>>

Steps == {"save", "remove", "publish", "swap", "show", "readd"}

TypeOK ==
  /\ chain \in Blocks /\ view \in Blocks /\ old \in Blocks
  /\ row \in 0..MaxHeight /\ pool \in BOOLEAN /\ submitted \in BOOLEAN
  /\ todo \in Seq(Steps) /\ Len(todo) <= 3 /\ reorgs \in 0..MaxReorgs
  /\ \A c \in Clients :
       /\ lookup[c].todo \in Seq(Places) /\ lookup[c].chain \in Blocks
       /\ lookup[c].height \in 0..MaxHeight /\ lookup[c].answer \in Answers \cup {None}
       /\ {lookup[c].known, lookup[c].late} \subseteq BOOLEAN
  /\ asked \in [Clients -> 0..MaxLookups] /\ confirmed \in BOOLEAN

Idle == [kind |-> "api", todo |-> <<>>, chain |-> <<>>, height |-> 0, answer |-> None,
         known |-> FALSE, late |-> FALSE]

Init ==
  /\ chain = <<>> /\ view = <<>> /\ old = <<>> /\ row = 0
  /\ pool = FALSE /\ submitted = FALSE /\ todo = <<>> /\ reorgs = 0
  /\ lookup = [c \in Clients |-> Idle] /\ asked = [c \in Clients |-> 0]
  /\ confirmed = FALSE

HeightIn(blocks) == IF TRUE \in ToSet(blocks) THEN CHOOSE h \in DOMAIN blocks : blocks[h] ELSE 0

-----------------------------------------------------------------------------
(* The loop *)

Submit ==
  /\ ~submitted /\ todo = <<>>
  /\ submitted' = TRUE /\ pool' = TRUE
  /\ UNCHANGED <<chain, view, row, todo, old, reorgs, clients>>

(* Mutant: the view first.                                                 *)
ViewFirst == <<"save", "publish", "remove">>

(* _commit, after self.cs: database, mempool, view.                        *)
CommitOrder == <<"save", "remove", "publish">>

Commit(has) ==
  /\ todo = <<>> /\ Len(chain) < MaxHeight
  /\ has => submitted /\ HeightIn(chain) = 0
  /\ chain' = Append(chain, has)
  /\ todo' = CommitOrder
  /\ UNCHANGED <<view, row, pool, submitted, old, reorgs, clients>>

(* apply_better_chain, a longer branch: database, self.cs, view, mempool.  *)
Reorganise(new) ==
  /\ todo = <<>> /\ reorgs < MaxReorgs /\ Len(new) > Len(chain)
  /\ HeightIn(new) # 0 => submitted
  /\ Cardinality({h \in DOMAIN new : new[h]}) <= 1
  /\ reorgs' = reorgs + 1
  /\ row' = HeightIn(new)
  /\ old' = new
  /\ todo' = <<"swap", "show", "readd">>
  /\ UNCHANGED <<chain, view, pool, submitted, clients>>

Do(step) ==
  /\ todo # <<>> /\ Head(todo) = step
  /\ todo' = Tail(todo)
  /\ UNCHANGED <<submitted, reorgs, clients>>

Save == Do("save") /\ row' = HeightIn(chain) /\ UNCHANGED <<chain, view, pool, old>>

RemoveMany ==
  /\ Do("remove")
  /\ pool' = (pool /\ ~Last(chain))
  /\ UNCHANGED <<chain, view, row, old>>

Publish == Do("publish") /\ view' = chain /\ UNCHANGED <<chain, row, pool, old>>

(* old holds the new branch until self.cs is exchanged for it.             *)
Swap == Do("swap") /\ chain' = old /\ old' = chain /\ UNCHANGED <<view, row, pool>>

Show == Do("show") /\ view' = chain /\ UNCHANGED <<chain, row, pool, old>>

(* _reorg_mempool *)
Readd ==
  /\ Do("readd")
  /\ pool' = (HeightIn(chain) = 0 /\ (pool \/ HeightIn(old) # 0))
  /\ old' = <<>>
  /\ UNCHANGED <<chain, view, row>>

-----------------------------------------------------------------------------
(* The handlers: api_get_tx, tx_detail, _get_address_history *)

Reads(kind) ==
  CASE kind = "api" -> <<"pool", "row", "view">>
    [] kind = "page" -> <<"row", "view", "pool">>
    [] kind = "history" -> <<"view", "row">>

Ask(c, kind) ==
  /\ lookup[c].todo = <<>> /\ asked[c] < MaxLookups
  /\ asked' = [asked EXCEPT ![c] = @ + 1]
  /\ lookup' = [lookup EXCEPT ![c] =
       [Idle EXCEPT !.kind = kind, !.todo = Reads(kind), !.known = submitted,
                    !.late = confirmed]]
  /\ UNCHANGED <<node, confirmed>>

Return(c, q, answer) ==
  /\ lookup' = [lookup EXCEPT ![c] = [q EXCEPT !.todo = <<>>, !.answer = answer]]
  /\ confirmed' = (confirmed \/ answer.said = "confirmed")
  /\ UNCHANGED <<node, asked>>

(* The transaction's block in the chain read, at the height read.          *)
FoundOn(q) == q.height \in DOMAIN q.chain /\ q.chain[q.height]

(* What a handler does with what it has read; q.todo is what is left.      *)
Decide(c, q, pending) ==
  IF pending
  THEN Return(c, q, [said |-> "pending", confirmations |-> 0])
  ELSE IF "row" \notin ToSet(q.todo) /\ "view" \notin ToSet(q.todo) /\ FoundOn(q)
  THEN Return(c, q, [said |-> "confirmed", confirmations |-> Len(q.chain) - q.height + 1])
  ELSE IF q.todo = <<>>
  THEN Return(c, q, [said |-> "not found", confirmations |-> 0])
  ELSE lookup' = [lookup EXCEPT ![c] = q] /\ UNCHANGED <<node, asked, confirmed>>

Rest(c) == [lookup[c] EXCEPT !.todo = Tail(@)]

ReadPool(c) ==
  /\ lookup[c].todo # <<>> /\ Head(lookup[c].todo) = "pool"
  /\ Decide(c, Rest(c), pool)

ReadRow(c) ==
  /\ lookup[c].todo # <<>> /\ Head(lookup[c].todo) = "row"
  /\ Decide(c, [Rest(c) EXCEPT !.height = row], FALSE)

ReadView(c) ==
  /\ lookup[c].todo # <<>> /\ Head(lookup[c].todo) = "view"
  /\ Decide(c, [Rest(c) EXCEPT !.chain = view], FALSE)

Next ==
  \/ Submit \/ \E has \in BOOLEAN : Commit(has)
  \/ \E new \in Blocks : Reorganise(new)
  \/ Save \/ RemoveMany \/ Publish \/ Swap \/ Show \/ Readd
  \/ \E c \in Clients :
       \/ \E kind \in {"api", "page", "history"} : Ask(c, kind)
       \/ ReadPool(c) \/ ReadRow(c) \/ ReadView(c)

Spec == Init /\ [][Next]_vars

-----------------------------------------------------------------------------
Said(c) == lookup[c].answer.said

(* Once somebody was told that it is confirmed, a lookup that begins later, *)
(* on any page, says so too, as long as there is no reorganisation: the    *)
(* view is what a client learns of a commit last.                          *)
ConfirmedStaysConfirmed ==
  reorgs = 0 => \A c \in Clients : lookup[c].late => Said(c) \in {"nothing yet", "confirmed"}

(* "transaction object (confirmed or mempool)": a transaction that was     *)
(* sent before the lookup began, and never left a chain, is found.         *)
SubmittedIsFound ==
  reorgs = 0 => \A c \in Clients :
    lookup[c].known /\ lookup[c].kind # "history" => Said(c) # "not found"
=============================================================================
