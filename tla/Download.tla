------------------------------ MODULE Download -------------------------------
(***************************************************************************)
(* src/syncer.py: the search for the fork point and the paged fetch, over  *)
(* the requests of src/peer_udp.py, against one peer whose chain may       *)
(* change between any two answers.  Requests and answers are lost and late.*)
(*                                                                         *)
(* A chain is the sequence of its blocks' contents; a block's hash is the  *)
(* chain up to it.  Heights count from 0.  Blocks are of equal work, so    *)
(* that the longer chain is the better one.                                *)
(***************************************************************************)
EXTENDS Integers, Sequences, SequencesExt, FiniteSets

CONSTANTS Contents,    \* what a block may hold
          LocalChain,  \* our chain at first
          PeerChains,  \* the peer's chains, one after the other
          Heavy,       \* contents of blocks that fill a message on their own
          FetchChunk,  \* FETCH_CHUNK
          MaxHeavy,    \* how many of them one answer can carry
          Retries,     \* SYNC_REQUEST_RETRIES
          Ids,         \* message ids: enough for the answers in flight
          MaxLosses,   \* bound: messages lost
          MaxDelays    \* bound: messages later than the caller waits

DownloadAssumption ==
  /\ LocalChain \in Seq(Contents) /\ PeerChains \in Seq(Seq(Contents)) \ {<< >>}
  /\ FetchChunk \in Nat \ {0} /\ Ids \subseteq Nat \ {0}
  /\ {MaxHeavy, Retries, MaxLosses, MaxDelays} \subseteq Nat
  /\ Cardinality(Ids) > MaxDelays + 1

VARIABLES local,    \* the node's chain
          peer,     \* the peer has PeerChains[peer]
          pc,       \* "idle", "info", "search", "fetch", "apply"
          call,     \* the request waited for
          tries,    \* attempts made for it
          lo, hi, result,   \* _find_fork_point
          remote,   \* remote_height
          fork,     \* fork_from
          tail,     \* what _fetch_chain has: blocks, each the chain up to it
          net,      \* requests and answers in flight
          lost, delayed

search == <<lo, hi, result>>
vars == <<local, peer, pc, call, tries, search, remote, fork, tail, net, lost, delayed>>

NoCall == [id |-> 0, from |-> 0, to |-> 0]
Height(chain) == Len(chain) - 1
Block(chain, h) == SubSeq(chain, 1, h + 1)
Nobody == -1

TypeOK ==
  /\ peer \in 1..Len(PeerChains)
  /\ pc \in {"idle", "info", "search", "fetch", "apply"}
  /\ call = NoCall \/ call.id \in Ids
  /\ tries \in 0..(Retries + 1)
  /\ lo \in 0..Len(local) /\ hi \in -1..Height(local) /\ result \in -1..Height(local)
  /\ fork \in 0..Len(local)
  /\ lost \in 0..MaxLosses /\ delayed \in 0..MaxDelays

Init ==
  /\ local = LocalChain /\ peer = 1 /\ pc = "idle"
  /\ call = NoCall /\ tries = 0
  /\ lo = 0 /\ hi = -1 /\ result = Nobody
  /\ remote = 0 /\ fork = 0 /\ tail = << >>
  /\ net = {} /\ lost = 0 /\ delayed = 0

-----------------------------------------------------------------------------
(* Requests *)

(* _new_msg_id: 32 random bits, none of those still under way. *)
FreshId == CHOOSE id \in Ids : id # call.id /\ \A m \in net : m.id # id

Ask(kind, from, to) ==
  LET id == FreshId IN
  /\ call' = [id |-> id, from |-> from, to |-> to]
  /\ net' = net \cup {[kind |-> kind, id |-> id, from |-> from, to |-> to]}
  /\ tries' = tries + 1

(* get_info, request_sync: the answer that bears the id of the call. *)
Answered(kind, m) == call # NoCall /\ m \in net /\ m.kind = kind /\ m.id = call.id

Hear(m) == net' = net \ {m} /\ call' = NoCall /\ tries' = 0

(* An answer to a call that was given up. *)
DropLate(m) ==
  /\ m \in net /\ m.kind \in {"INFO", "SYNC"} /\ m.id # call.id
  /\ net' = net \ {m}
  /\ UNCHANGED <<local, peer, pc, call, tries, search, remote, fork, tail, lost, delayed>>

(* The wait ran out; an answer that is still under way will be late. *)
Waited ==
  /\ call # NoCall
  /\ IF \E m \in net : m.id = call.id
     THEN delayed < MaxDelays /\ delayed' = delayed + 1
     ELSE UNCHANGED delayed

TriesLeft == tries <= Retries

(* _request_sync_with_retry *)
Retry ==
  /\ pc \in {"search", "fetch"} /\ TriesLeft
  /\ Waited
  /\ Ask("GETSYNC", call.from, call.to)
  /\ UNCHANGED <<local, peer, pc, search, remote, fork, tail, lost>>

Unanswered ==
  /\ pc = "info" \/ ~TriesLeft
  /\ Waited
  /\ call' = NoCall /\ tries' = 0

-----------------------------------------------------------------------------
(* The peer *)

ServeInfo(m) ==
  /\ m \in net /\ m.kind = "GETINFO"
  /\ net' = (net \ {m}) \cup {[kind |-> "INFO", id |-> m.id, chain |-> PeerChains[peer]]}
  /\ UNCHANGED <<local, peer, pc, call, tries, search, remote, fork, tail, lost, delayed>>

Segment(chain, from, to) ==
  [i \in 1..(IF to < Height(chain) THEN to - from + 1 ELSE Len(chain) - from) |->
     Block(chain, from + i - 1)]

TooHeavy(page) == Cardinality({i \in DOMAIN page : Last(page[i]) \in Heavy}) > MaxHeavy

(* _handle_getsync; an answer too large for the chunk layer is never       *)
(* complete (MAX_CHUNK_TOTAL, or the rate limit of module Bulk).           *)
ServeSync(m) ==
  LET page == IF m.from > Height(PeerChains[peer]) THEN << >>
              ELSE Segment(PeerChains[peer], m.from, m.to)
  IN  /\ m \in net /\ m.kind = "GETSYNC"
      /\ net' = (net \ {m}) \cup (IF TooHeavy(page) THEN {}
                                  ELSE {[kind |-> "SYNC", id |-> m.id, page |-> page]})
      /\ UNCHANGED <<local, peer, pc, call, tries, search, remote, fork, tail, lost, delayed>>

PeerMoves ==
  /\ peer < Len(PeerChains)
  /\ peer' = peer + 1
  /\ UNCHANGED <<local, pc, call, tries, search, remote, fork, tail, net, lost, delayed>>

Lose(m) ==
  /\ m \in net /\ lost < MaxLosses
  /\ net' = net \ {m} /\ lost' = lost + 1
  /\ UNCHANGED <<local, peer, pc, call, tries, search, remote, fork, tail, delayed>>

-----------------------------------------------------------------------------
(* check_and_sync *)

Poll ==
  /\ pc = "idle"
  /\ pc' = "info"
  /\ Ask("GETINFO", 0, 0)
  /\ UNCHANGED <<local, peer, search, remote, fork, tail, lost, delayed>>

InfoFails ==
  /\ pc = "info" /\ Unanswered
  /\ pc' = "idle"
  /\ UNCHANGED <<local, peer, search, remote, fork, tail, net, lost>>

Informed(m) ==
  /\ pc = "info" /\ Answered("INFO", m) /\ Hear(m)
  /\ IF m.chain = local
     THEN pc' = "idle" /\ UNCHANGED <<search, remote>>
     ELSE /\ pc' = "search"
          /\ remote' = Height(m.chain)
          /\ lo' = 0 /\ hi' = Height(local) /\ result' = Nobody
  /\ UNCHANGED <<local, peer, fork, tail, lost, delayed>>

Mid == (lo + hi) \div 2

Probe ==
  /\ pc = "search" /\ call = NoCall /\ lo <= hi
  /\ Ask("GETSYNC", Mid, Mid)
  /\ UNCHANGED <<local, peer, pc, search, remote, fork, tail, lost, delayed>>

SearchLower == hi' = Mid - 1 /\ UNCHANGED <<lo, result>>
SearchHigher == result' = Mid /\ lo' = Mid + 1 /\ UNCHANGED hi

ProbeFails ==
  /\ pc = "search" /\ Unanswered /\ SearchLower
  /\ UNCHANGED <<local, peer, pc, remote, fork, tail, net, lost>>

Matches(page) == page # << >> /\ page[1] = Block(local, Mid)

Probed(m) ==
  /\ pc = "search" /\ Answered("SYNC", m) /\ Hear(m)
  /\ IF Matches(m.page) THEN SearchHigher ELSE SearchLower
  /\ UNCHANGED <<local, peer, pc, remote, fork, tail, lost, delayed>>

EndSearch ==
  /\ pc = "search" /\ call = NoCall /\ lo > hi
  /\ fork' = result + 1
  /\ tail' = << >>
  /\ pc' = "fetch"
  /\ UNCHANGED <<local, peer, call, tries, search, remote, net, lost, delayed>>

(* The height _fetch_chain is at: pages before this one were full. *)
At == fork + Len(tail)

Fetch ==
  /\ pc = "fetch" /\ call = NoCall /\ At <= remote
  /\ Ask("GETSYNC", At, IF At + FetchChunk - 1 < remote THEN At + FetchChunk - 1 ELSE remote)
  /\ UNCHANGED <<local, peer, pc, search, remote, fork, tail, lost, delayed>>

(* The pages before the one that failed are kept. *)
FetchFails ==
  /\ pc = "fetch" /\ Unanswered
  /\ pc' = "apply"
  /\ UNCHANGED <<local, peer, search, remote, fork, tail, net, lost>>

(* Mutant: one page is all. *)
FirstPage(page) == TRUE

LastPage(page) == Len(page) < FetchChunk

(* A short page, and an empty one, is the last. *)
Fetched(m) ==
  /\ pc = "fetch" /\ Answered("SYNC", m) /\ Hear(m)
  /\ tail' = tail \o m.page
  /\ pc' = IF LastPage(m.page) THEN "apply" ELSE "fetch"
  /\ UNCHANGED <<local, peer, search, remote, fork, lost, delayed>>

EndFetch ==
  /\ pc = "fetch" /\ call = NoCall /\ At > remote
  /\ pc' = "apply"
  /\ UNCHANGED <<local, peer, call, tries, search, remote, fork, tail, net, lost, delayed>>

(* local_chain[:fork_from] + tail: each block names the one before it. *)
Linked ==
  /\ tail # << >> /\ Len(tail[1]) = fork + 1
  /\ \A i \in 1..Len(tail) :
       Front(tail[i]) = IF i = 1 THEN SubSeq(local, 1, fork) ELSE tail[i - 1]

Spliced == SubSeq(local, 1, fork) \o [i \in DOMAIN tail |-> Last(tail[i])]

(* Mutant: what was fetched is taken as it is. *)
Longer == Len(Spliced) > Len(local)

(* apply_better_chain *)
Better == Linked /\ Len(Spliced) > Len(local)

Apply ==
  /\ pc = "apply"
  /\ local' = IF Better THEN Spliced ELSE local
  /\ pc' = "idle"
  /\ lo' = 0 /\ hi' = -1 /\ result' = Nobody /\ remote' = 0 /\ fork' = 0 /\ tail' = << >>
  /\ UNCHANGED <<peer, call, tries, net, lost, delayed>>

-----------------------------------------------------------------------------

Step ==
  \/ Poll \/ InfoFails \/ Probe \/ ProbeFails \/ EndSearch \/ Fetch \/ FetchFails \/ EndFetch
  \/ Retry \/ Apply
  \/ \E m \in net : Informed(m) \/ Probed(m) \/ Fetched(m)

Network == \E m \in net : ServeInfo(m) \/ ServeSync(m) \/ DropLate(m)

Next == Step \/ Network \/ PeerMoves \/ \E m \in net : Lose(m)

Spec == Init /\ [][Next]_vars

(* The loop thread and the network go on. *)
Fairness == WF_vars(Step) /\ WF_vars(Network)

-----------------------------------------------------------------------------

(* What the node gets to replace its chain was one chain of the peer, even *)
(* if the peer changed branches between two probes or two pages.           *)
OnlyPeerChains ==
  local = LocalChain \/ \E i \in 1..peer : IsPrefix(local, PeerChains[i])

(* A node behind its peer catches up. *)
CatchesUp == <>[](Len(local) >= Len(PeerChains[peer]))
=============================================================================
