----------------------------- MODULE RewardPages -----------------------------
(***************************************************************************)
(* What src/api.py shows of the rewards, next to the ledger that paid them: *)
(* the block page and the address page each work out the reward of a block *)
(* by counting the minted ticks from the start of the chain.               *)
(***************************************************************************)
EXTENDS ChainLedger

(* total_minted after as many rounds of the pages' loops                   *)
Counted[n \in Nat] == IF n = 0 THEN 0 ELSE Counted[n - 1] + Reward(Counted[n - 1])

(* block_detail, with _block_reward: the rounds are the heights below.     *)
ShownOnBlockPage(height) == Reward(Counted[height]) + Fees(chain[height].txs)

(* Mutant: one page skips genesis, as the ledger does.                     *)
RoundsAfterGenesis(height) == height - 1

(* _get_mined_blocks_for_addr counts a round for each block it passes,     *)
(* genesis too.                                                            *)
RoundsBefore(height) == height

MinedBlocks(addr) ==
  {[height |-> h, paid |-> Reward(Counted[RoundsBefore(h)]) + Fees(chain[h].txs)] :
     h \in {i \in DOMAIN chain : chain[i].builder = addr}}

(* What the ledger paid the builder of a block                             *)
MintedBy(height) == Replay(SubSeq(chain, 1, height)).minted
Paid(height) == MintedBy(height) - MintedBy(height - 1) + Fees(chain[height].txs)

-----------------------------------------------------------------------------

(* The two pages agree on every block of every chain ("so this always      *)
(* agrees with what the address page shows for the same block"), also      *)
(* when the emission has run out.                                          *)
PagesAgree ==
  \A a \in Addr : \A m \in MinedBlocks(a) : m.paid = ShownOnBlockPage(m.height)

(* A page never credits a builder with more than the ledger paid: it counts *)
(* a round for genesis, which minted nothing, and the emission only falls. *)
ShowsAtMostPaid == \A h \in DOMAIN chain : ShownOnBlockPage(h) <= Paid(h)

(* What the pages show of a builder's rewards, as far as it is right: the  *)
(* two agree, and neither is above what was paid.                          *)
RewardsShown == PagesAgree /\ ShowsAtMostPaid

(* "replaying total_minted from genesis the same way [...] the real ledger  *)
(* do": what the page shows is what the builder was paid.                  *)
ShownIsPaid == \A h \in DOMAIN chain : ShownOnBlockPage(h) = Paid(h)
=============================================================================
