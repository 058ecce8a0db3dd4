------------------------------ MODULE Retarget ------------------------------
(***************************************************************************)
(* A chain that grows by blocks of any pace, each proving the iterations   *)
(* get_vdf_iterations (src/block.py) asks for, or stating none while those *)
(* are the base rate: every boundary is crossed by every history of block  *)
(* times.                                                                  *)
(***************************************************************************)
EXTENDS Chain

CONSTANTS Paces,     \* the seconds a block may take
          MaxLength  \* bound: the length the chain grows to

ASSUME RetargetAssumption == Paces \subseteq Nat /\ MaxLength \in Nat

VARIABLE chain    \* [iters, rated, dt] of each block, genesis first

Init == chain = <<[iters |-> Genesis.iters, rated |-> Genesis.rated, dt |-> Genesis.dt]>>

Grow(rated, dt) ==
  /\ Len(chain) < MaxLength
  /\ rated \/ GetVdfIterations(chain) = VdfIterations
  /\ chain' = Append(chain, [iters |-> IF rated THEN GetVdfIterations(chain) ELSE 0,
                             rated |-> rated, dt |-> dt])

Next == \E rated \in BOOLEAN, dt \in Paces : Grow(rated, dt)

Spec == Init /\ [][Next]_chain

-----------------------------------------------------------------------------

Height(i) == i - 1

(* The blocks of the w-th window whose times count: genesis has none.      *)
Window(w) == {i \in DOMAIN chain : Height(i) \div AdjustInterval = w /\ Height(i) > 0}

Quick(w) == {i \in Window(w) : chain[i].dt < MinSeconds}

(* Twice the median is under twice MinSeconds, without sorting: most of    *)
(* the window is quick, or exactly half of it and the two middle paces     *)
(* still average below MinSeconds.                                         *)
FastWindow(w) ==
  LET slow == Window(w) \ Quick(w)
      fastestSlow == CHOOSE i \in slow : \A j \in slow : chain[i].dt <= chain[j].dt
      slowestQuick == CHOOSE i \in Quick(w) : \A j \in Quick(w) : chain[i].dt >= chain[j].dt
  IN  \/ Cardinality(Quick(w)) > Cardinality(slow)
      \/ /\ Cardinality(Quick(w)) = Cardinality(slow) /\ slow # {}
         /\ chain[fastestSlow].dt + chain[slowestQuick].dt < 2 * MinSeconds

(* The reference: the base rate, raised once for every fast window that    *)
(* was complete.                                                           *)
ReferenceRate[w \in 0..Len(chain)] ==
  IF w = 0 THEN VdfIterations
  ELSE IF FastWindow(w - 1) THEN (ReferenceRate[w - 1] * FactorNum) \div FactorDen
  ELSE ReferenceRate[w - 1]

(* Looking one value up at the last boundary agrees with replaying every   *)
(* window from genesis, at the boundary block itself, before it and after  *)
(* it, whether or not a block states its iterations (get_vdf_iterations'   *)
(* docstring, block.py:24-33).                                             *)
RateIsWindowHistory ==
  \A i \in DOMAIN chain : DueRate(chain[i]) = ReferenceRate[Height(i) \div AdjustInterval]

=============================================================================
