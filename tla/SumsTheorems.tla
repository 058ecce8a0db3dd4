----------------------------- MODULE SumsTheorems -----------------------------
(***************************************************************************)
(* Facts about the sums of module Sums, and about steps taken one after    *)
(* the other: what the loops of the models come to.                        *)
(***************************************************************************)
EXTENDS Sums, FiniteSetTheorems, SequenceTheorems, WellFoundedInduction, TLAPS

-----------------------------------------------------------------------------
(* Sums. *)

(* A function with natural values on a finite domain holds finitely many   *)
(* units, so its total is a natural number: no balance sheet of the ledger *)
(* (state.py, get_circulating_supply) is infinite or negative.             *)
LEMMA UnitsFinite ==
  ASSUME NEW S, IsFiniteSet(S), NEW f \in [S -> Nat]
  PROVE  /\ IsFiniteSet(Units(f))
         /\ Total(f) \in Nat
<1> DEFINE g == [x \in S |-> {x} \X (1..f[x])]
           T == {{x} \X (1..f[x]) : x \in S}
<1>1. g \in Surjection(S, T)
  BY DEF Surjection
<1>2. IsFiniteSet(T)
  BY <1>1, FS_Surjection
<1>3. ASSUME NEW x \in S
      PROVE  IsFiniteSet({x} \X (1..f[x]))
  <2>1. f[x] \in Int
    OBVIOUS
  <2>2. IsFiniteSet({x})
    BY FS_Singleton
  <2>3. IsFiniteSet(1..f[x])
    BY <2>1, FS_Interval
  <2> QED
    BY <2>2, <2>3, FS_Product
<1>4. IsFiniteSet(UNION T)
  BY <1>2, <1>3, FS_UNION
<1>5. UNION T = Units(f)
  BY DEF Units
<1> QED
  BY <1>4, <1>5, FS_CardinalityType DEF Total

(* The cardinality of a disjoint union. *)
LEMMA DisjointUnion ==
  ASSUME NEW A, IsFiniteSet(A), NEW B, IsFiniteSet(B), A \cap B = {}
  PROVE  Cardinality(A \cup B) = Cardinality(A) + Cardinality(B)
<1>1. Cardinality(A \cap B) = 0
  BY FS_EmptySet
<1>2. Cardinality(A) \in Nat /\ Cardinality(B) \in Nat
  BY FS_CardinalityType
<1>3. Cardinality(A \cup B)
        = Cardinality(A) + Cardinality(B) - Cardinality(A \cap B)
  BY FS_Union
<1> QED
  BY <1>1, <1>2, <1>3

(* Two functions on the same domain add up pointwise: the total of the sum *)
(* is the sum of the totals.  The units of f + g are the units of f and,   *)
(* stacked above them, those of g.                                         *)
LEMMA TotalPointwise ==
  ASSUME NEW S, IsFiniteSet(S), NEW f \in [S -> Nat], NEW g \in [S -> Nat]
  PROVE  Total([x \in S |-> f[x] + g[x]]) = Total(f) + Total(g)
<1> DEFINE h == [x \in S |-> f[x] + g[x]]
           B == {u \in Units(h) : u[2] > f[u[1]]}
           m == [u \in Units(g) |-> <<u[1], u[2] + f[u[1]]>>]
<1>1. h \in [S -> Nat]
  OBVIOUS
<1>2. /\ IsFiniteSet(Units(f)) /\ IsFiniteSet(Units(g)) /\ IsFiniteSet(Units(h))
      /\ Total(f) \in Nat /\ Total(g) \in Nat
  BY <1>1, UnitsFinite
<1>3. Units(h) = Units(f) \cup B
  BY DEF Units
<1>4. Units(f) \cap B = {}
  BY DEF Units
<1>5. m \in Bijection(Units(g), B)
  <2>1. m \in [Units(g) -> B]
    BY DEF Units
  <2>2. ASSUME NEW u \in Units(g), NEW v \in Units(g), m[u] = m[v]
        PROVE  u = v
    <3>1. /\ u = <<u[1], u[2]>> /\ u[1] \in S /\ u[2] \in Int
          /\ v = <<v[1], v[2]>> /\ v[1] \in S /\ v[2] \in Int
      BY DEF Units
    <3>2. u[1] = v[1] /\ u[2] + f[u[1]] = v[2] + f[v[1]]
      BY <2>2
    <3>3. f[u[1]] \in Int /\ f[v[1]] = f[u[1]]
      BY <3>1, <3>2
    <3>4. u[2] = v[2]
      BY <3>1, <3>2, <3>3
    <3> QED
      BY <3>1, <3>2, <3>4
  <2>3. \A b \in B : \E u \in Units(g) : m[u] = b
    <3> SUFFICES ASSUME NEW b \in B
                 PROVE  \E u \in Units(g) : m[u] = b
      OBVIOUS
    <3>1. /\ b = <<b[1], b[2]>> /\ b[1] \in S
          /\ b[2] \in (f[b[1]] + 1)..(f[b[1]] + g[b[1]])
      BY DEF Units
    <3>2. <<b[1], b[2] - f[b[1]]>> \in Units(g)
      BY <3>1 DEF Units
    <3> QED
      BY <3>1, <3>2
  <2> QED
    BY <2>1, <2>2, <2>3 DEF Bijection, Injection, Surjection, IsInjective
<1>6. IsFiniteSet(B) /\ Cardinality(B) = Total(g)
  BY <1>2, <1>5, FS_Bijection DEF ExistsBijection, Total
<1> HIDE DEF h, B, m
<1>7. Cardinality(Units(h)) = Cardinality(Units(f)) + Cardinality(B)
  BY <1>2, <1>3, <1>4, <1>6, DisjointUnion
<1> QED
  BY <1>6, <1>7 DEF Total, h

(* A function that is zero everywhere has total zero: an empty ledger, an  *)
(* empty block.                                                            *)
LEMMA TotalZero ==
  ASSUME NEW S, NEW f \in [S -> Nat], \A x \in S : f[x] = 0
  PROVE  Total(f) = 0
<1>1. Units(f) = {}
  BY DEF Units
<1> QED
  BY <1>1, FS_EmptySet DEF Total

(* One more point adds its value: one more block adds its VDF iterations.  *)
LEMMA TotalNewPoint ==
  ASSUME NEW S, IsFiniteSet(S), NEW x, x \notin S,
         NEW f \in [S \cup {x} -> Nat], NEW g \in [S -> Nat],
         \A y \in S : g[y] = f[y]
  PROVE  Total(f) = Total(g) + f[x]
<1> DEFINE P == {x} \X (1..f[x])
<1>1. f[x] \in Int /\ f[x] \in Nat
  OBVIOUS
<1>2. /\ IsFiniteSet({x}) /\ Cardinality({x}) = 1
      /\ IsFiniteSet(1..f[x]) /\ Cardinality(1..f[x]) = f[x]
  <2>1. IsFiniteSet({x}) /\ Cardinality({x}) = 1
    BY FS_Singleton
  <2>2. /\ IsFiniteSet(1..f[x])
        /\ Cardinality(1..f[x]) = IF 1 > f[x] THEN 0 ELSE f[x] - 1 + 1
    BY <1>1, FS_Interval
  <2> QED
    BY <1>1, <2>1, <2>2
<1>3. IsFiniteSet(P) /\ Cardinality(P) = f[x]
  <2>1. /\ IsFiniteSet(P)
        /\ Cardinality(P) = Cardinality({x}) * Cardinality(1..f[x])
    BY <1>2, FS_Product
  <2>2. Cardinality(P) = 1 * f[x]
    BY <1>2, <2>1
  <2> QED
    BY <1>1, <2>1, <2>2
<1>4. Units(f) = Units(g) \cup P /\ Units(g) \cap P = {}
  BY DEF Units
<1>5. IsFiniteSet(Units(g))
  BY UnitsFinite
<1> HIDE DEF P
<1>6. Cardinality(Units(g) \cup P) = Cardinality(Units(g)) + Cardinality(P)
  BY <1>3, <1>4, <1>5, DisjointUnion
<1> QED
  BY <1>3, <1>4, <1>6 DEF Total

(* The same for sequences: one more element adds its value. *)
LEMMA TotalAppend ==
  ASSUME NEW n \in Nat, NEW f \in [1..(n + 1) -> Nat], NEW g \in [1..n -> Nat],
         \A i \in 1..n : g[i] = f[i]
  PROVE  Total(f) = Total(g) + f[n + 1]
<1>1. n \in Int
  OBVIOUS
<1>2. IsFiniteSet(1..n)
  BY <1>1, FS_Interval
<1>3. n + 1 \notin 1..n
  OBVIOUS
<1>4. f \in [(1..n) \cup {n + 1} -> Nat]
  <2>1. 1..(n + 1) = (1..n) \cup {n + 1}
    OBVIOUS
  <2> QED
    BY <2>1
<1>5. \A S, x : IsFiniteSet(S) /\ x \notin S =>
        \A F \in [S \cup {x} -> Nat], G \in [S -> Nat] :
          (\A i \in S : G[i] = F[i]) => Total(F) = Total(G) + F[x]
  BY TotalNewPoint
<1>6. \A F \in [(1..n) \cup {n + 1} -> Nat], G \in [1..n -> Nat] :
        (\A i \in 1..n : G[i] = F[i]) => Total(F) = Total(G) + F[n + 1]
  BY <1>2, <1>3, <1>5
<1> QED
  BY <1>4, <1>6

(* Two functions that differ at one point only: a credit, or a debit read  *)
(* backwards.                                                              *)
LEMMA TotalOneChange ==
  ASSUME NEW S, IsFiniteSet(S), NEW f \in [S -> Nat], NEW h \in [S -> Nat],
         NEW x \in S, NEW d \in Nat,
         h[x] = f[x] + d, \A y \in S : y # x => h[y] = f[y]
  PROVE  Total(h) = Total(f) + d
<1> DEFINE T == S \ {x}
           f0 == [y \in T |-> f[y]]
<1>1. IsFiniteSet(T) /\ x \notin T /\ S = T \cup {x}
  BY FS_Difference
<1>2. f \in [T \cup {x} -> Nat] /\ h \in [T \cup {x} -> Nat] /\ f0 \in [T -> Nat]
  BY <1>1
<1>3. \A y \in T : f0[y] = f[y] /\ f0[y] = h[y]
  OBVIOUS
<1>4. Total(f0) \in Nat
  BY <1>1, <1>2, UnitsFinite
<1> HIDE DEF T, f0
<1>5. Total(f) = Total(f0) + f[x]
  BY <1>1, <1>2, <1>3, TotalNewPoint
<1>6. Total(h) = Total(f0) + h[x]
  BY <1>1, <1>2, <1>3, TotalNewPoint
<1> QED
  BY <1>4, <1>5, <1>6

-----------------------------------------------------------------------------
(* Steps one after the other.  An induction over numbers is an induction   *)
(* over the set of the numbers for which the claim holds.                  *)

(* Every non-empty set of natural numbers has a least element. *)
LEMMA Least ==
  ASSUME NEW S \in SUBSET Nat, S # {}
  PROVE  \E m \in S : \A n \in S : m <= n
<1> DEFINE R == OpToRel(<, Nat)
<1>1. IsWellFoundedOn(R, Nat)
  BY NatLessThanWellFounded, Zenon
<1>2. \A x, y \in Nat : x < y => <<x, y>> \in R
  BY DEF OpToRel
<1> HIDE DEF R
<1>3. \E x \in S : \A y \in S : <<y, x>> \notin R
  BY <1>1, WFMin
<1>4. PICK m \in S : \A y \in S : <<y, m>> \notin R
  BY <1>3
<1>5. ASSUME NEW n \in S
      PROVE  m <= n
  <2>1. ~(n < m)
    BY <1>2, <1>4
  <2> QED
    BY <2>1
<1> QED
  BY <1>5

(* Induction over the numbers up to n, for a set instead of a predicate. *)
LEMMA UpTo ==
  ASSUME NEW n \in Nat, NEW S, 0 \in S,
         \A i \in 1..n : i - 1 \in S => i \in S
  PROVE  0..n \subseteq S
<1> SUFFICES ASSUME 0..n \ S # {} PROVE FALSE
  OBVIOUS
<1> DEFINE B == 0..n \ S
<1>1. PICK m \in B : \A k \in B : m <= k
  <2>1. B \in SUBSET Nat /\ B # {}
    OBVIOUS
  <2> HIDE DEF B
  <2> QED
    BY <2>1, Least
<1>2. m # 0 /\ m - 1 \in 0..n /\ m \in 1..n
  BY <1>1
<1>3. m - 1 \in S
  BY <1>1, <1>2
<1> QED
  BY <1>1, <1>2, <1>3

(* Steps given by functions on a set L can be taken one after the other.   *)
LEMMA Iterate ==
  \A L : \A e \in L, n \in Nat : \A H \in [1..n -> [L -> L]] :
    \E f \in [0..n -> L] : f[0] = e /\ \A i \in 1..n : f[i] = H[i][f[i - 1]]
<1> SUFFICES ASSUME NEW L, NEW e \in L, NEW n \in Nat, NEW H \in [1..n -> [L -> L]]
             PROVE  \E f \in [0..n -> L] :
                      f[0] = e /\ \A i \in 1..n : f[i] = H[i][f[i - 1]]
  OBVIOUS
<1> DEFINE Good(k, f) == /\ f[0] = e
                         /\ \A i \in 1..k : f[i] = H[i][f[i - 1]]
           S == {k \in 0..n : \E f \in [0..k -> L] : Good(k, f)}
<1>1. 0 \in S
  <2> DEFINE g == [i \in 0..0 |-> e]
  <2>1. g \in [0..0 -> L] /\ Good(0, g)
    OBVIOUS
  <2> HIDE DEF g, Good
  <2> QED
    BY <2>1
<1>2. ASSUME NEW k \in 1..n, k - 1 \in S
      PROVE  k \in S
  <2>1. PICK f \in [0..(k - 1) -> L] : Good(k - 1, f)
    BY <1>2
  <2> DEFINE g == [i \in 0..k |-> IF i = k THEN H[k][f[k - 1]] ELSE f[i]]
  <2>2. f[k - 1] \in L /\ H[k] \in [L -> L]
    OBVIOUS
  <2>3. H[k][f[k - 1]] \in L
    BY <2>2
  <2>4. g \in [0..k -> L]
    BY <2>3
  <2>5. Good(k, g)
    <3>1. g[0] = e
      BY <2>1
    <3>2. ASSUME NEW i \in 1..k
          PROVE  g[i] = H[i][g[i - 1]]
      <4>1. g[i - 1] = f[i - 1]
        OBVIOUS
      <4>2. CASE i = k
        BY <4>1, <4>2
      <4>3. CASE i \in 1..(k - 1)
        BY <2>1, <4>1, <4>3
      <4> QED
        BY <4>2, <4>3
    <3> QED
      BY <3>1, <3>2
  <2> HIDE DEF g, Good
  <2> QED
    BY <2>4, <2>5
<1> HIDE DEF S
<1>3. 0..n \subseteq S
  BY <1>1, <1>2, UpTo
<1>4. PICK f \in [0..n -> L] : Good(n, f)
  BY <1>3 DEF S
<1> QED
  BY <1>4

=============================================================================
