-------------------------------- MODULE Sums --------------------------------
(***************************************************************************)
(* Sums of natural numbers, counted unit by unit.  The ledger adds up      *)
(* balances, outputs and fees, the mempool adds up sizes and the chain     *)
(* adds up VDF iterations: each is the number of units <<x, k>> a function *)
(* f holds, k being one of the f[x] units stored under x.  Written this    *)
(* way a sum is the cardinality of a finite set, and the facts about sums  *)
(* that the proofs need follow from the facts about finite sets (module    *)
(* SumsTheorems) without an induction over the domain.                     *)
(***************************************************************************)
EXTENDS Naturals, FiniteSets

Units(f) == UNION {{x} \X (1..f[x]) : x \in DOMAIN f}

(* sum(f.values()) for a function with natural values and a finite domain. *)
Total(f) == Cardinality(Units(f))

=============================================================================
