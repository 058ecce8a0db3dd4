---------------------------- MODULE RetargetProofs ----------------------------
(***************************************************************************)
(* The VDF rate, for every window length, every pace of blocks and every   *)
(* length of the chain: the median that get_vdf_iterations (src/block.py)  *)
(* takes, and the history that its look-up of one value stands for.        *)
(***************************************************************************)
EXTENDS Retarget, SumsTheorems

-----------------------------------------------------------------------------
(* Order statistics *)

Under(d, v) == {i \in DOMAIN d : d[i] < v}
NotOver(d, v) == {i \in DOMAIN d : d[i] <= v}

(* The positions of a list are finitely many, and fewer values lie under a *)
(* smaller bound.                                                          *)
LEMMA RankFacts ==
  ASSUME NEW n \in Nat, NEW d \in [1..n -> Nat], NEW S \in SUBSET (1..n)
  PROVE  /\ IsFiniteSet(S) /\ Cardinality(S) \in Nat /\ Cardinality(S) <= n
         /\ \A T \in SUBSET S : /\ Cardinality(T) \in Nat
                                /\ Cardinality(T) <= Cardinality(S)
                                /\ Cardinality(T) = Cardinality(S) => T = S
<1>1. IsFiniteSet(1..n) /\ Cardinality(1..n) = n
  <2>1. n \in Int /\ 1 \in Int
    OBVIOUS
  <2>2. /\ IsFiniteSet(1..n)
        /\ Cardinality(1..n) = IF 1 > n THEN 0 ELSE n - 1 + 1
    BY <2>1, FS_Interval
  <2> QED
    BY <2>2
<1>2. IsFiniteSet(S) /\ Cardinality(S) <= n
  <2>1. \A U, V : IsFiniteSet(U) /\ V \in SUBSET U =>
           IsFiniteSet(V) /\ Cardinality(V) <= Cardinality(U)
    BY FS_Subset
  <2> QED
    BY <1>1, <2>1
<1>3. Cardinality(S) \in Nat
  BY <1>2, FS_CardinalityType
<1>4. ASSUME NEW T \in SUBSET S
      PROVE  /\ Cardinality(T) \in Nat /\ Cardinality(T) <= Cardinality(S)
             /\ Cardinality(T) = Cardinality(S) => T = S
  <2>1. /\ IsFiniteSet(T) /\ Cardinality(T) <= Cardinality(S)
        /\ Cardinality(S) = Cardinality(T) => S = T
    BY <1>2, FS_Subset
  <2> QED
    BY <2>1, FS_CardinalityType
<1> QED
  BY <1>2, <1>3, <1>4

(* The paces of a window have a bound. *)
LEMMA PacesBounded ==
  ASSUME NEW n \in Nat, NEW d \in [1..n -> Nat]
  PROVE  \E m \in Nat : \A i \in 1..n : d[i] <= m
<1> DEFINE S == {k \in 0..n : \E m \in Nat : \A i \in 1..k : d[i] <= m}
<1>1. 0 \in S
  OBVIOUS
<1>2. ASSUME NEW k \in 1..n, k - 1 \in S
      PROVE  k \in S
  <2>1. PICK m \in Nat : \A i \in 1..(k - 1) : d[i] <= m
    BY <1>2
  <2>2. d[k] \in Nat
    OBVIOUS
  <2>3. m + d[k] \in Nat /\ \A i \in 1..k : d[i] <= m + d[k]
    BY <2>1, <2>2
  <2> QED
    BY <2>3
<1> HIDE DEF S
<1>3. 0..n \subseteq S
  BY <1>1, <1>2, UpTo
<1>4. n \in S
  BY <1>3
<1> QED
  BY <1>4 DEF S

(* A list of n numbers has a k-th smallest one for every k up to n: the    *)
(* least bound that k of them respect.                                     *)
LEMMA KthSmallestFacts ==
  ASSUME NEW n \in Nat, NEW d \in [1..n -> Nat], NEW k \in 1..n
  PROVE  /\ KthSmallest(d, k) \in Nat
         /\ \E i \in 1..n : d[i] = KthSmallest(d, k)
         /\ Cardinality(Under(d, KthSmallest(d, k))) < k
         /\ Cardinality(NotOver(d, KthSmallest(d, k))) >= k
<1> DEFINE Good(v) == /\ Cardinality(Under(d, v)) < k
                      /\ Cardinality(NotOver(d, v)) >= k
           S == {m \in Nat : Cardinality(NotOver(d, m)) >= k}
<1>1. S # {}
  <2>1. PICK m \in Nat : \A i \in 1..n : d[i] <= m
    BY PacesBounded
  <2>2. NotOver(d, m) = 1..n
    BY <2>1 DEF NotOver
  <2>3. n \in Int /\ 1 \in Int
    OBVIOUS
  <2>4. Cardinality(1..n) = IF 1 > n THEN 0 ELSE n - 1 + 1
    BY <2>3, FS_Interval
  <2>5. Cardinality(1..n) = n
    BY <2>4
  <2> QED
    BY <2>2, <2>5
<1>2. PICK v \in S : \A m \in S : v <= m
  <2>1. S \in SUBSET Nat
    OBVIOUS
  <2> HIDE DEF S
  <2> QED
    BY <1>1, <2>1, Least
<1>3. v \in Nat /\ Cardinality(NotOver(d, v)) >= k
  BY <1>2
<1>4. Cardinality(Under(d, v)) < k
  <2>1. CASE v = 0
    <3>1. Under(d, v) = {}
      BY <2>1 DEF Under
    <3> QED
      BY <3>1, FS_EmptySet
  <2>2. CASE v # 0
    <3>1. v - 1 \in Nat /\ Under(d, v) = NotOver(d, v - 1)
      BY <1>3, <2>2 DEF Under, NotOver
    <3>2. v - 1 \notin S
      BY <1>2, <1>3, <3>1
    <3>3. NotOver(d, v - 1) \in SUBSET (1..n)
      BY DEF NotOver
    <3>4. Cardinality(NotOver(d, v - 1)) \in Nat
      BY <3>3, RankFacts
    <3> QED
      BY <3>1, <3>2, <3>4
  <2> QED
    BY <2>1, <2>2
<1>5. \E i \in 1..n : d[i] = v
  <2> SUFFICES ASSUME \A i \in 1..n : d[i] # v
               PROVE  FALSE
    OBVIOUS
  <2>1. Under(d, v) = NotOver(d, v)
    BY <1>3 DEF Under, NotOver
  <2>2. Under(d, v) \in SUBSET (1..n)
    BY DEF Under
  <2>3. Cardinality(Under(d, v)) \in Nat
    BY <2>2, RankFacts
  <2> QED
    BY <1>3, <1>4, <2>1, <2>3
<1>6. v \in ToSet(d) /\ Good(v)
  BY <1>3, <1>4, <1>5 DEF ToSet
<1> DEFINE w == KthSmallest(d, k)
<1>7. w \in ToSet(d) /\ Good(w)
  <2>1. KthSmallest(d, k) = CHOOSE u \in ToSet(d) : Good(u)
    BY DEF KthSmallest, Under, NotOver
  <2> HIDE DEF Good
  <2> QED
    BY <1>6, <2>1
<1>8. \E i \in 1..n : d[i] = w
  BY <1>7 DEF ToSet
<1> QED
  BY <1>7, <1>8

(* The k-th smallest is under a bound when k of the list are. *)
LEMMA KthSmallestUnder ==
  ASSUME NEW n \in Nat, NEW d \in [1..n -> Nat], NEW k \in 1..n, NEW bound \in Nat
  PROVE  KthSmallest(d, k) < bound <=> k <= Cardinality(Under(d, bound))
<1> DEFINE v == KthSmallest(d, k)
<1>1. /\ v \in Nat /\ Cardinality(Under(d, v)) < k
      /\ Cardinality(NotOver(d, v)) >= k
  BY KthSmallestFacts
<1>2. /\ Under(d, v) \in SUBSET (1..n) /\ NotOver(d, v) \in SUBSET (1..n)
      /\ Under(d, bound) \in SUBSET (1..n)
  BY DEF Under, NotOver
<1>3. /\ Cardinality(Under(d, v)) \in Nat /\ Cardinality(NotOver(d, v)) \in Nat
      /\ Cardinality(Under(d, bound)) \in Nat
  BY <1>2, RankFacts
<1> HIDE DEF v
<1>4. ASSUME v < bound
      PROVE  k <= Cardinality(Under(d, bound))
  <2>1. NotOver(d, v) \in SUBSET Under(d, bound)
    BY <1>1, <1>4 DEF Under, NotOver
  <2>2. Cardinality(NotOver(d, v)) <= Cardinality(Under(d, bound))
    BY <1>2, <2>1, RankFacts
  <2> QED
    BY <1>1, <1>3, <2>2
<1>5. ASSUME ~(v < bound)
      PROVE  Cardinality(Under(d, bound)) < k
  <2>1. Under(d, bound) \in SUBSET Under(d, v)
    BY <1>1, <1>5 DEF Under
  <2>2. Cardinality(Under(d, bound)) <= Cardinality(Under(d, v))
    BY <1>2, <2>1, RankFacts
  <2> QED
    BY <1>1, <1>3, <2>2
<1> QED
  BY <1>3, <1>4, <1>5 DEF v

(* The median is under a bound when most of the list is, or exactly half   *)
(* of it and the two elements next to the bound average below it.          *)
NextTo(d, quick, slow, x, y) ==
  /\ x \in quick /\ \A j \in quick : d[x] >= d[j]
  /\ y \in slow /\ \A j \in slow : d[y] <= d[j]

(* The median against a bound, by how many elements are under it.          *)
LEMMA MedianUnder ==
  ASSUME NEW n \in Nat, n >= 1, NEW d \in [1..n -> Nat], NEW bound \in Nat
  PROVE  LET U == Under(d, bound)
             q == Cardinality(U)
         IN  /\ q \in Nat /\ q <= n
             /\ q > n - q => TwiceMedian(d) < 2 * bound
             /\ q < n - q => ~(TwiceMedian(d) < 2 * bound)
             /\ q = n - q =>
                  /\ \E x, y : NextTo(d, U, 1..n \ U, x, y)
                  /\ \A x, y : NextTo(d, U, 1..n \ U, x, y) =>
                       (TwiceMedian(d) < 2 * bound <=> d[y] + d[x] < 2 * bound)
<1> DEFINE U == Under(d, bound)
           q == Cardinality(U)
           lo == (n + 1) \div 2
           hi == (n + 2) \div 2
           a == KthSmallest(d, lo)
           b == KthSmallest(d, hi)
<1>1. lo \in 1..n /\ hi \in 1..n /\ lo <= hi
  OBVIOUS
<1>2. TwiceMedian(d) = a + b
  <2>1. d \in Seq(Nat) /\ Len(d) = n
    OBVIOUS
  <2> QED
    BY <2>1 DEF TwiceMedian
<1>3. U \in SUBSET (1..n)
  BY DEF Under
<1>4. q \in Nat /\ q <= n
  BY <1>3, RankFacts
<1>5. /\ a \in Nat /\ (\E i \in 1..n : d[i] = a)
      /\ Cardinality(NotOver(d, a)) >= lo
  <2> HIDE DEF lo, hi
  <2> QED
    BY <1>1, KthSmallestFacts
<1>6. /\ b \in Nat /\ (\E i \in 1..n : d[i] = b)
      /\ Cardinality(Under(d, b)) < hi
  <2> HIDE DEF lo, hi
  <2> QED
    BY <1>1, KthSmallestFacts
<1>7. (a < bound <=> lo <= q) /\ (b < bound <=> hi <= q)
  <2> HIDE DEF lo, hi
  <2> QED
    BY <1>1, KthSmallestUnder
<1> HIDE DEF a, b, q
<1> DEFINE Claim == /\ q > n - q => TwiceMedian(d) < 2 * bound
                    /\ q < n - q => ~(TwiceMedian(d) < 2 * bound)
                    /\ q = n - q =>
                         /\ \E x, y : NextTo(d, U, 1..n \ U, x, y)
                         /\ \A x, y : NextTo(d, U, 1..n \ U, x, y) =>
                              (TwiceMedian(d) < 2 * bound <=> d[y] + d[x] < 2 * bound)
<1> SUFFICES Claim
  BY <1>4 DEF q
<1>8. CASE q > n - q
  <2>1. hi <= q /\ lo <= q
    BY <1>4, <1>8
  <2>2. a < bound /\ b < bound
    BY <1>7, <2>1
  <2>3. TwiceMedian(d) < 2 * bound
    BY <1>2, <1>5, <1>6, <2>2
  <2>4. ~(q < n - q) /\ q # n - q
    BY <1>4, <1>8
  <2> QED
    BY <2>3, <2>4
<1>9. CASE q < n - q
  <2>1. ~(lo <= q) /\ ~(hi <= q)
    BY <1>4, <1>9
  <2>2. a >= bound /\ b >= bound
    BY <1>5, <1>6, <1>7, <2>1
  <2>3. ~(q > n - q) /\ q # n - q
    BY <1>4, <1>9
  <2>4. ~(TwiceMedian(d) < 2 * bound)
    BY <1>2, <1>5, <1>6, <2>2
  <2> QED
    BY <2>3, <2>4
<1>10. CASE q = n - q
  <2>1. lo = q /\ hi = q + 1 /\ q >= 1
    BY <1>4, <1>10
  <2>2. a < bound /\ b >= bound
    BY <1>4, <1>5, <1>6, <1>7, <2>1
  <2>3. \A j \in U : d[j] <= a
    <3>1. NotOver(d, a) \in SUBSET U
      BY <1>5, <2>2 DEF NotOver, Under
    <3>2. Cardinality(NotOver(d, a)) <= q /\ Cardinality(NotOver(d, a)) \in Nat
      BY <1>3, <3>1, RankFacts DEF q
    <3>3. Cardinality(NotOver(d, a)) = q
      BY <1>4, <1>5, <2>1, <3>2
    <3>4. NotOver(d, a) = U
      BY <1>3, <3>1, <3>3, RankFacts DEF q
    <3> QED
      BY <3>4 DEF NotOver
  <2>4. \A j \in 1..n \ U : b <= d[j]
    <3>1. U \in SUBSET Under(d, b) /\ Under(d, b) \in SUBSET (1..n)
      BY <1>6, <2>2 DEF Under
    <3>2. q <= Cardinality(Under(d, b)) /\ Cardinality(Under(d, b)) \in Nat
      BY <3>1, RankFacts DEF q
    <3>3. q = Cardinality(Under(d, b))
      BY <1>4, <1>6, <2>1, <3>2
    <3>4. U = Under(d, b)
      BY <3>1, <3>3, RankFacts DEF q
    <3> HIDE DEF U
    <3>5. \A j \in 1..n : j \notin U => ~(d[j] < b)
      BY <3>4 DEF Under
    <3> QED
      BY <1>6, <3>5
  <2>5. PICK x \in 1..n : d[x] = a
    BY <1>5
  <2>6. PICK y \in 1..n : d[y] = b
    BY <1>6
  <2>7. x \in U /\ y \in 1..n \ U
    BY <1>5, <1>6, <2>2, <2>5, <2>6 DEF Under
  <2> HIDE DEF U
  <2>8. ASSUME NEW i, NEW j, NextTo(d, U, 1..n \ U, i, j)
        PROVE  d[i] = a /\ d[j] = b
    <3>1. i \in U /\ j \in 1..n \ U /\ d[i] \in Nat /\ d[j] \in Nat
      BY <1>3, <2>8 DEF NextTo
    <3>2. a <= d[i] /\ d[i] <= a /\ d[j] <= b /\ b <= d[j]
      BY <2>3, <2>4, <2>5, <2>6, <2>7, <2>8, <3>1 DEF NextTo
    <3> QED
      BY <1>5, <1>6, <3>1, <3>2
  <2>9. NextTo(d, U, 1..n \ U, x, y)
    <3>1. \A j \in U : d[x] >= d[j]
      BY <1>3, <1>5, <2>3, <2>5
    <3>2. \A j \in 1..n \ U : d[y] <= d[j]
      BY <2>4, <2>6
    <3> QED
      BY <2>7, <3>1, <3>2 DEF NextTo
  <2>10. \A i, j : NextTo(d, U, 1..n \ U, i, j) =>
           (TwiceMedian(d) < 2 * bound <=> d[j] + d[i] < 2 * bound)
    <3>1. a + b = b + a
      BY <1>5, <1>6
    <3> QED
      BY <1>2, <2>8, <3>1
  <2>11. ~(q > n - q) /\ ~(q < n - q)
    BY <1>4, <1>10
  <2> QED
    BY <2>9, <2>10, <2>11
<1> QED
  <2>1. \/ q > n - q \/ q < n - q \/ q = n - q
    BY <1>4
  <2> HIDE DEF Claim
  <2> QED
    BY <1>8, <1>9, <1>10, <2>1

-----------------------------------------------------------------------------
(* Windows, of any chain.  What Retarget says of the chain of a state is   *)
(* said here of a list c of paces and rates.                               *)

Paced == [iters : Nat, rated : BOOLEAN, dt : Nat]

WindowOf(c, w) == {i \in DOMAIN c : Height(i) \div AdjustInterval = w /\ Height(i) > 0}

QuickOf(c, w) == {i \in WindowOf(c, w) : c[i].dt < MinSeconds}

FastOf(c, w) ==
  LET slow == WindowOf(c, w) \ QuickOf(c, w)
      fastestSlow == CHOOSE i \in slow : \A j \in slow : c[i].dt <= c[j].dt
      slowestQuick == CHOOSE i \in QuickOf(c, w) : \A j \in QuickOf(c, w) : c[i].dt >= c[j].dt
  IN  \/ Cardinality(QuickOf(c, w)) > Cardinality(slow)
      \/ /\ Cardinality(QuickOf(c, w)) = Cardinality(slow) /\ slow # {}
         /\ c[fastestSlow].dt + c[slowestQuick].dt < 2 * MinSeconds

(* Division by the length of a window. *)
LEMMA DivisionFacts ==
  ASSUME NEW a \in Nat \ {0}
  PROVE  /\ \A w \in Nat : w * a \in Nat /\ (w + 1) * a = w * a + a
         /\ \A n \in Nat : /\ n \div a \in Nat
                            /\ (n \div a) * a <= n
                            /\ n < (n \div a) * a + a
         /\ \A n, w \in Nat : n \div a = w <=> w * a <= n /\ n < w * a + a
<1>1. \A w \in Nat : w * a \in Nat /\ (w + 1) * a = w * a + a
  OBVIOUS
<1>2. ASSUME NEW n \in Nat
      PROVE  /\ n \div a \in Nat
             /\ (n \div a) * a <= n
             /\ n < (n \div a) * a + a
  <2>1. n \div a \in Nat /\ a * (n \div a) <= n
    OBVIOUS
  <2>2. n = a * (n \div a) + (n % a) /\ n % a \in Nat /\ n % a < a
    OBVIOUS
  <2> DEFINE q == n \div a
  <2>3. a * q = q * a
    BY <2>1
  <2> HIDE DEF q
  <2> QED
    BY <2>1, <2>2, <2>3 DEF q
<1>3. ASSUME NEW n \in Nat, NEW w \in Nat, w * a <= n, n < w * a + a
      PROVE  n \div a = w
  <2> DEFINE q == n \div a
  <2>1. q \in Nat /\ q * a <= n /\ n < q * a + a
    BY <1>2
  <2> HIDE DEF q
  <2>2. ~(q < w)
    <3> SUFFICES ASSUME q < w PROVE FALSE
      OBVIOUS
    <3>1. (q + 1) * a <= w * a
      BY <2>1
    <3> QED
      BY <1>1, <1>3, <2>1, <3>1
  <2>3. ~(w < q)
    <3> SUFFICES ASSUME w < q PROVE FALSE
      OBVIOUS
    <3>1. (w + 1) * a <= q * a
      BY <2>1
    <3> QED
      BY <1>1, <1>3, <2>1, <3>1
  <2> QED
    BY <2>1, <2>2, <2>3 DEF q
<1> QED
  BY <1>1, <1>2, <1>3

(* Moving a set of positions along leaves as many of them. *)
LEMMA Shifted ==
  ASSUME NEW n \in Nat, NEW first \in Nat, NEW S \in SUBSET (1..n)
  PROVE  Cardinality({first + j : j \in S}) = Cardinality(S)
<1> DEFINE T == {first + j : j \in S}
           f == [j \in S |-> first + j]
<1>1. IsFiniteSet(S)
  <2>1. 1 \in Int /\ n \in Int
    OBVIOUS
  <2>2. IsFiniteSet(1..n)
    BY <2>1, FS_Interval
  <2>3. \A U, V : IsFiniteSet(U) /\ V \in SUBSET U => IsFiniteSet(V)
    BY FS_Subset
  <2> QED
    BY <2>2, <2>3
<1>2. f \in Bijection(S, T)
  <2>1. f \in [S -> T]
    OBVIOUS
  <2>2. \A i, j \in S : f[i] = f[j] => i = j
    OBVIOUS
  <2>3. \A t \in T : \E j \in S : f[j] = t
    OBVIOUS
  <2> QED
    BY <2>1, <2>2, <2>3 DEF Bijection, Injection, Surjection, IsInjective
<1> HIDE DEF T, f
<1>3. Cardinality(T) = Cardinality(S)
  BY <1>1, <1>2, FS_Bijection DEF ExistsBijection
<1> QED
  BY <1>3 DEF T

(* What get_vdf_iterations reads of the window before a boundary: the times *)
(* of its blocks, without genesis.                                         *)
FirstOf(start) == IF start > 1 THEN start ELSE 1
TimesOf(c, start, boundary) ==
  [k \in 1..(boundary - FirstOf(start)) |-> c[FirstOf(start) + k].dt]

(* Their median is under MinSeconds exactly when the window is fast. *)
LEMMA WindowMedian ==
  ASSUME NEW c \in Seq(Paced), NEW w \in Nat,
         (w + 1) * AdjustInterval <= Len(c)
  PROVE  LET d == TimesOf(c, w * AdjustInterval, (w + 1) * AdjustInterval)
         IN  FastOf(c, w) <=> d # <<>> /\ TwiceMedian(d) < 2 * MinSeconds
<1> DEFINE first == FirstOf(w * AdjustInterval)
           m == (w + 1) * AdjustInterval - first
           d == TimesOf(c, w * AdjustInterval, (w + 1) * AdjustInterval)
           U == Under(d, MinSeconds)
           low == w * AdjustInterval
           W == WindowOf(c, w)
           Q == QuickOf(c, w)
<1>1. /\ AdjustInterval \in Nat \ {0} /\ MinSeconds \in Nat
      /\ low \in Nat /\ (w + 1) * AdjustInterval = low + AdjustInterval
  BY ChainAssumption, DivisionFacts
<1>2. \A n \in Nat : n \div AdjustInterval = w <=> low <= n /\ n < low + AdjustInterval
  BY <1>1, DivisionFacts
<1>3. /\ Len(c) \in Nat /\ DOMAIN c = 1..Len(c)
      /\ \A i \in 1..Len(c) : c[i].dt \in Nat
  <2>1. Len(c) \in Nat /\ DOMAIN c = 1..Len(c) /\ \A i \in 1..Len(c) : c[i] \in Paced
    BY ElementOfSeq, LenProperties
  <2> QED
    BY <2>1 DEF Paced
<1> HIDE DEF low
<1>4. /\ first \in Nat /\ first >= 1 /\ m \in Nat
      /\ first + m = low + AdjustInterval /\ first + m <= Len(c)
      /\ first >= low /\ (first = low \/ (first = 1 /\ low = 0))
  BY <1>1 DEF low, FirstOf
<1>4a. d = [k \in 1..m |-> c[first + k].dt]
  BY DEF TimesOf
<1> HIDE DEF first, m, d
<1>5. W = {first + j : j \in 1..m}
  <2>1. ASSUME NEW i \in 1..Len(c)
        PROVE  i \in W <=> i \in (first + 1)..(first + m)
    <3>1. i - 1 \in Nat
      OBVIOUS
    <3>2. i \in W <=> (i - 1) \div AdjustInterval = w /\ i - 1 > 0
      BY <1>3 DEF WindowOf, Height
    <3>3. i \in W <=> low <= i - 1 /\ i - 1 < low + AdjustInterval /\ i - 1 > 0
      BY <1>2, <3>1, <3>2
    <3> QED
      BY <1>1, <1>4, <3>3
  <2>2. W \subseteq 1..Len(c) /\ (first + 1)..(first + m) \subseteq 1..Len(c)
    BY <1>3, <1>4 DEF WindowOf
  <2>3. (first + 1)..(first + m) = {first + j : j \in 1..m}
    <3>1. ASSUME NEW i \in (first + 1)..(first + m)
          PROVE  \E j \in 1..m : i = first + j
      <4>1. i - first \in 1..m /\ i = first + (i - first)
        BY <1>4
      <4> QED
        BY <4>1
    <3>2. \A j \in 1..m : first + j \in (first + 1)..(first + m)
      BY <1>4
    <3> QED
      BY <3>1, <3>2
  <2> HIDE DEF W
  <2> QED
    BY <2>1, <2>2, <2>3
<1>6. d \in [1..m -> Nat] /\ U \in SUBSET (1..m)
      /\ \A j \in 1..m : d[j] = c[first + j].dt
  <2>1. \A j \in 1..m : c[first + j].dt \in Nat
    BY <1>3, <1>4
  <2> QED
    BY <1>4a, <2>1 DEF Under
<1>7. Q = {first + j : j \in U}
  <2>1. \A j \in 1..m : first + j \in Q <=> j \in U
    BY <1>5, <1>6 DEF QuickOf, Under
  <2>2. Q \subseteq W
    BY DEF QuickOf
  <2> HIDE DEF Q, U, W
  <2> QED
    BY <1>5, <1>6, <2>1, <2>2
<1> DEFINE V == 1..m \ U
           slow == W \ Q
<1>8. slow = {first + j : j \in V}
  <2>1. \A i, j \in 1..m : first + i = first + j => i = j
    BY <1>4
  <2> HIDE DEF Q, U, W
  <2> QED
    BY <1>5, <1>6, <1>7, <2>1
<1> DEFINE q == Cardinality(U)
<1>9. Cardinality(Q) = q /\ Cardinality(slow) = m - q /\ q \in Nat /\ q <= m
      /\ (q = m - q /\ m >= 1 => slow # {})
  <2> HIDE DEF Q, U, W, slow
  <2>1. V \in SUBSET (1..m) /\ U \cap V = {} /\ U \cup V = 1..m
    BY <1>6
  <2> HIDE DEF V
  <2>2. /\ IsFiniteSet(U) /\ IsFiniteSet(V) /\ q \in Nat /\ q <= m
        /\ Cardinality(V) \in Nat
    BY <1>4, <1>6, <2>1, RankFacts
  <2>3. Cardinality(U \cup V) = q + Cardinality(V)
    BY <2>1, <2>2, DisjointUnion
  <2>4. Cardinality(1..m) = m
    <3>1. m \in Int /\ 1 \in Int
      BY <1>4
    <3>2. Cardinality(1..m) = IF 1 > m THEN 0 ELSE m - 1 + 1
      BY <3>1, FS_Interval
    <3> QED
      BY <1>4, <3>2
  <2>5. Cardinality(Q) = q
    BY <1>4, <1>6, <1>7, Shifted
  <2>6. Cardinality(slow) = Cardinality(V)
    <3>1. Cardinality({first + j : j \in V}) = Cardinality(V)
      <4>1. \A S \in SUBSET (1..m) : Cardinality({first + j : j \in S}) = Cardinality(S)
        BY <1>4, Shifted
      <4> QED
        BY <2>1, <4>1
    <3> QED
      BY <1>8, <3>1
  <2>7. slow = {} => Cardinality(slow) = 0
    BY FS_EmptySet
  <2>8. Cardinality(V) = m - q
    <3>1. q + Cardinality(V) = m
      BY <2>1, <2>3, <2>4
    <3> HIDE DEF q
    <3> QED
      BY <1>4, <2>2, <3>1
  <2> HIDE DEF q
  <2>9. q = m - q /\ m >= 1 => slow # {}
    BY <1>4, <2>2, <2>6, <2>7, <2>8
  <2> QED
    BY <2>2, <2>5, <2>6, <2>8, <2>9
<1>10. CASE m = 0
  <2>1. d = <<>>
    BY <1>6, <1>10
  <2>2. slow = {} /\ Cardinality(slow) = 0 /\ Cardinality(Q) = 0
    <3>1. slow = {}
      <4> HIDE DEF U, slow
      <4> QED
        BY <1>8, <1>10
    <3>2. q = 0
      BY <1>9, <1>10
    <3> QED
      BY <1>9, <3>1, <3>2, FS_EmptySet
  <2> QED
    BY <2>1, <2>2 DEF FastOf, d
<1>11. CASE m >= 1
  <2>1. d # <<>>
    BY <1>4, <1>6, <1>11
  <2> DEFINE x0 == CHOOSE i \in Q : \A j \in Q : c[i].dt >= c[j].dt
             y0 == CHOOSE i \in slow : \A j \in slow : c[i].dt <= c[j].dt
             fast == TwiceMedian(d) < 2 * MinSeconds
  <2>2. /\ q > m - q => fast
        /\ q < m - q => ~fast
        /\ q = m - q =>
             /\ \E x, y : NextTo(d, U, V, x, y)
             /\ \A x, y : NextTo(d, U, V, x, y) =>
                  (fast <=> d[y] + d[x] < 2 * MinSeconds)
    <3> HIDE DEF d
    <3> QED
      BY <1>1, <1>4, <1>6, <1>11, MedianUnder
  <2>3. FastOf(c, w) <=> \/ q > m - q
                         \/ /\ q = m - q /\ slow # {}
                            /\ c[y0].dt + c[x0].dt < 2 * MinSeconds
    BY <1>9 DEF FastOf
  <2>4. ASSUME q = m - q
        PROVE  fast <=> c[y0].dt + c[x0].dt < 2 * MinSeconds
    <3>1. PICK x, y : NextTo(d, U, V, x, y)
      BY <2>2, <2>4
    <3> HIDE DEF U, V, Q, slow
    <3>2. /\ first + x \in Q /\ \A j \in Q : c[first + x].dt >= c[j].dt
      BY <1>6, <1>7, <3>1 DEF NextTo
    <3>3. /\ first + y \in slow /\ \A j \in slow : c[first + y].dt <= c[j].dt
      BY <1>6, <1>8, <3>1 DEF NextTo, V
    <3>4. x0 \in Q /\ \A j \in Q : c[x0].dt >= c[j].dt
      BY <3>2
    <3>5. y0 \in slow /\ \A j \in slow : c[y0].dt <= c[j].dt
      BY <3>3
    <3> HIDE DEF x0, y0
    <3>6. PICK x1 \in U : x0 = first + x1
      BY <1>7, <3>4
    <3>7. PICK y1 \in V : y0 = first + y1
      BY <1>8, <3>5
    <3>8. d[x1] = c[x0].dt /\ d[y1] = c[y0].dt
      BY <1>6, <3>6, <3>7 DEF V
    <3>9. NextTo(d, U, V, x1, y1)
      <4>1. \A j \in U : d[x1] >= d[j]
        BY <1>6, <1>7, <3>4, <3>8
      <4>2. \A j \in V : d[y1] <= d[j]
        <5>1. V \subseteq 1..m
          BY DEF V
        <5> QED
          BY <1>6, <1>8, <3>5, <3>8, <5>1
      <4> QED
        BY <4>1, <4>2 DEF NextTo
    <3> QED
      BY <2>2, <2>4, <3>8, <3>9
  <2>5. fast <=> FastOf(c, w)
    <3>1. q > m - q \/ q < m - q \/ q = m - q
      BY <1>4, <1>9
    <3>2. q < m - q => ~(q > m - q) /\ q # m - q
      BY <1>4, <1>9
    <3>3. q = m - q => ~(q > m - q) /\ slow # {}
      BY <1>4, <1>9, <1>11
    <3> HIDE DEF fast, q, slow, x0, y0
    <3> QED
      BY <2>2, <2>3, <2>4, <3>1, <3>2, <3>3
  <2> QED
    BY <2>1, <2>5 DEF d
<1>12. m = 0 \/ m >= 1
  BY <1>4
<1> QED
  BY <1>10, <1>11, <1>12

-----------------------------------------------------------------------------
(* The rate, by replaying every window from genesis.                       *)

Raise(rate) == (rate * FactorNum) \div FactorDen

RateOf(c) ==
  CHOOSE f : f = [w \in 0..Len(c) |->
                    IF w = 0 THEN VdfIterations
                    ELSE IF FastOf(c, w - 1) THEN Raise(f[w - 1])
                    ELSE f[w - 1]]

(* A replay from genesis ends, with a number of iterations for every       *)
(* window.                                                                 *)
LEMMA RateFacts ==
  ASSUME NEW c \in Seq(Paced)
  PROVE  /\ RateOf(c) \in [0..Len(c) -> Nat]
         /\ RateOf(c)[0] = VdfIterations
         /\ \A w \in 1..Len(c) :
              RateOf(c)[w] = IF FastOf(c, w - 1) THEN Raise(RateOf(c)[w - 1])
                             ELSE RateOf(c)[w - 1]
<1> DEFINE n == Len(c)
           step(w, r) == IF FastOf(c, w - 1) THEN Raise(r) ELSE r
           H == [w \in 1..n |-> [r \in Nat |-> step(w, r)]]
           Run(f) == [w \in 0..n |-> IF w = 0 THEN VdfIterations
                                      ELSE IF FastOf(c, w - 1) THEN Raise(f[w - 1])
                                      ELSE f[w - 1]]
<1>1. n \in Nat
  BY LenProperties
<1> HIDE DEF n
<1>2. VdfIterations \in Nat /\ FactorNum \in Nat /\ FactorDen \in Nat \ {0}
  BY ChainAssumption
<1>3. \A r \in Nat : Raise(r) \in Nat
  <2> SUFFICES ASSUME NEW r \in Nat PROVE Raise(r) \in Nat
    OBVIOUS
  <2> DEFINE p == r * FactorNum
  <2>1. p \in Nat
    BY <1>2
  <2> HIDE DEF p
  <2>2. p \div FactorDen \in Nat
    BY <1>2, <2>1
  <2> QED
    BY <2>2 DEF Raise, p
<1>4. H \in [1..n -> [Nat -> Nat]]
  BY <1>3
<1> HIDE DEF H
<1>5. PICK f \in [0..n -> Nat] :
        f[0] = VdfIterations /\ \A w \in 1..n : f[w] = H[w][f[w - 1]]
  <2> DEFINE L == Nat
  <2>1. VdfIterations \in L /\ n \in Nat /\ H \in [1..n -> [L -> L]]
    BY <1>1, <1>2, <1>4
  <2> HIDE DEF L
  <2>2. \E g \in [0..n -> L] :
          g[0] = VdfIterations /\ \A w \in 1..n : g[w] = H[w][g[w - 1]]
    <3>1. \A e \in L, k \in Nat : \A G \in [1..k -> [L -> L]] :
            \E g \in [0..k -> L] : g[0] = e /\ \A i \in 1..k : g[i] = G[i][g[i - 1]]
      BY Iterate
    <3> QED
      BY <2>1, <3>1, Zenon
  <2> QED
    BY <2>2 DEF L
<1>6. ASSUME NEW w \in 1..n
      PROVE  f[w] = step(w, f[w - 1])
  <2>1. f[w] = H[w][f[w - 1]] /\ f[w - 1] \in Nat
    BY <1>1, <1>5
  <2> QED
    BY <2>1 DEF H
<1>7. f = Run(f)
  BY <1>1, <1>5, <1>6
<1>8. RateOf(c) = Run(RateOf(c))
  <2>1. RateOf(c) = CHOOSE g : g = Run(g)
    BY DEF RateOf, n
  <2> HIDE DEF Run
  <2> QED
    BY <1>7, <2>1
<1> DEFINE R == RateOf(c)
<1> HIDE DEF R
<1>9. R = Run(R)
  BY <1>8 DEF R
<1>10. /\ R[0] = VdfIterations /\ DOMAIN R = 0..n
       /\ \A w \in 1..n : R[w] = step(w, R[w - 1])
  BY <1>1, <1>9
<1> DEFINE S == {w \in 0..n : R[w] \in Nat}
<1>11. 0 \in S /\ \A w \in 1..n : w - 1 \in S => w \in S
  <2>1. 0 \in S
    BY <1>1, <1>2, <1>10
  <2>2. ASSUME NEW w \in 1..n, w - 1 \in S
        PROVE  w \in S
    <3>1. R[w - 1] \in Nat /\ R[w] = step(w, R[w - 1]) /\ Raise(R[w - 1]) \in Nat
      BY <1>3, <1>10, <2>2
    <3>2. R[w] \in Nat
      BY <3>1
    <3> QED
      BY <1>1, <3>2
  <2> QED
    BY <2>1, <2>2
<1> HIDE DEF S
<1>12. 0..n \subseteq S
  BY <1>1, <1>11, UpTo
<1>13. R \in [0..n -> Nat]
  <2>1. \A w \in 0..n : R[w] \in Nat
    BY <1>12 DEF S
  <2>2. R = [w \in 0..n |-> R[w]]
    BY <1>9
  <2> QED
    BY <2>1, <2>2
<1> QED
  BY <1>10, <1>13 DEF R, n

(* A window that is complete stays as it is when the chain grows.          *)
LEMMA FastStays ==
  ASSUME NEW c \in Seq(Paced), NEW r \in Paced, NEW w \in Nat,
         (w + 1) * AdjustInterval <= Len(c)
  PROVE  FastOf(Append(c, r), w) <=> FastOf(c, w)
<1> DEFINE c1 == Append(c, r)
           low == w * AdjustInterval
           high == (w + 1) * AdjustInterval
           d == TimesOf(c, low, high)
           d1 == TimesOf(c1, low, high)
<1>1. /\ AdjustInterval \in Nat \ {0} /\ low \in Nat
      /\ high = low + AdjustInterval /\ high <= Len(c)
  BY ChainAssumption, DivisionFacts
<1>2. /\ Len(c) \in Nat /\ Len(c1) = Len(c) + 1 /\ c1 \in Seq(Paced)
      /\ \A i \in 1..Len(c) : c1[i] = c[i]
  BY AppendProperties, LenProperties
<1>3. (w + 1) * AdjustInterval <= Len(c1)
  BY <1>1, <1>2
<1>4. FastOf(c, w) <=> d # <<>> /\ TwiceMedian(d) < 2 * MinSeconds
  BY WindowMedian
<1>5. FastOf(c1, w) <=> d1 # <<>> /\ TwiceMedian(d1) < 2 * MinSeconds
  <2>1. c1 \in Seq(Paced) /\ (w + 1) * AdjustInterval <= Len(c1)
    BY <1>2, <1>3
  <2> HIDE DEF c1
  <2> QED
    BY <2>1, WindowMedian
<1>6. d1 = d
  <2> HIDE DEF low, high, c1
  <2>1. \A k \in 1..(high - FirstOf(low)) : FirstOf(low) + k \in 1..Len(c)
    BY <1>1, <1>2 DEF FirstOf
  <2> QED
    BY <1>2, <2>1 DEF TimesOf
<1> QED
  BY <1>4, <1>5, <1>6

(* What a replay gives for the windows of a chain that are complete does   *)
(* not change when the chain grows.                                        *)
LEMMA RateStays ==
  ASSUME NEW c \in Seq(Paced), NEW r \in Paced
  PROVE  \A w \in 0..(Len(c) \div AdjustInterval) : RateOf(Append(c, r))[w] = RateOf(c)[w]
<1> DEFINE c1 == Append(c, r)
           n == Len(c) \div AdjustInterval
<1>1. /\ AdjustInterval \in Nat \ {0} /\ Len(c) \in Nat
      /\ n \in Nat /\ n * AdjustInterval <= Len(c) /\ n <= Len(c)
      /\ \A w \in 1..n : w * AdjustInterval <= Len(c)
  <2>1. AdjustInterval \in Nat \ {0} /\ Len(c) \in Nat
    BY ChainAssumption, LenProperties
  <2>2. n \in Nat /\ n * AdjustInterval <= Len(c)
    BY <2>1, DivisionFacts
  <2> HIDE DEF n
  <2>3. \A w \in 0..n : w <= w * AdjustInterval /\ w * AdjustInterval <= n * AdjustInterval
    BY <2>1, <2>2
  <2>4. \A w \in 0..n : w * AdjustInterval \in Nat
    BY <2>1, <2>2
  <2>5. n <= Len(c)
    BY <2>1, <2>2, <2>3, <2>4
  <2>6. \A w \in 1..n : w * AdjustInterval <= Len(c)
    BY <2>1, <2>2, <2>3, <2>4
  <2> QED
    BY <2>1, <2>2, <2>5, <2>6
<1>2. c1 \in Seq(Paced) /\ Len(c1) = Len(c) + 1
  BY AppendProperties
<1> HIDE DEF n
<1> DEFINE S == {w \in 0..n : RateOf(c1)[w] = RateOf(c)[w]}
<1>3. 0 \in S
  <2> HIDE DEF c1
  <2> QED
    BY <1>1, <1>2, RateFacts
<1>4. ASSUME NEW w \in 1..n, w - 1 \in S
      PROVE  w \in S
  <2>1. w - 1 \in Nat /\ (w - 1) + 1 = w /\ w \in 1..Len(c) /\ w \in 1..Len(c1)
    BY <1>1, <1>2
  <2>2. FastOf(c1, w - 1) <=> FastOf(c, w - 1)
    BY <1>1, <2>1, FastStays
  <2> HIDE DEF c1
  <2>3. /\ RateOf(c)[w] = IF FastOf(c, w - 1) THEN Raise(RateOf(c)[w - 1])
                          ELSE RateOf(c)[w - 1]
        /\ RateOf(c1)[w] = IF FastOf(c1, w - 1) THEN Raise(RateOf(c1)[w - 1])
                           ELSE RateOf(c1)[w - 1]
    BY <1>2, <2>1, RateFacts
  <2>4. RateOf(c1)[w - 1] = RateOf(c)[w - 1]
    BY <1>4
  <2> QED
    BY <2>2, <2>3, <2>4
<1> HIDE DEF S
<1>5. 0..n \subseteq S
  BY <1>1, <1>3, <1>4, UpTo
<1> QED
  BY <1>5 DEF S, n

-----------------------------------------------------------------------------
(* The look-up.                                                            *)

(* The claim of get_vdf_iterations about a list of rates and paces. *)
History(c) == \A i \in 1..Len(c) : DueRate(c[i]) = RateOf(c)[Height(i) \div AdjustInterval]

(* On a chain whose blocks have the rates of its history, the value looked *)
(* up for the next block is the rate of its window.                        *)
LEMMA LookUpIsHistory ==
  ASSUME NEW c \in Seq(Paced), Len(c) >= 1, History(c)
  PROVE  GetVdfIterations(c) = RateOf(c)[Len(c) \div AdjustInterval]
<1> DEFINE next == Len(c)
           w == next \div AdjustInterval
           boundary == w * AdjustInterval
           start == boundary - AdjustInterval
           prior == DueRate(c[start + 1])
           d == TimesOf(c, start, boundary)
           fast == d # <<>> /\ TwiceMedian(d) < 2 * MinSeconds
<1>1. /\ GetVdfIterations(c) =
           IF next < AdjustInterval THEN VdfIterations
           ELSE IF next > boundary THEN DueRate(c[boundary + 1])
           ELSE IF fast THEN Raise(prior) ELSE prior
  BY DEF GetVdfIterations, Raise, TimesOf, FirstOf
<1>2. /\ next \in Nat /\ next >= 1 /\ AdjustInterval \in Nat \ {0}
      /\ w \in Nat /\ boundary \in Nat /\ boundary <= next
      /\ next < boundary + AdjustInterval
  BY ChainAssumption, LenProperties, DivisionFacts
<1>3. \A n, v \in Nat : v * AdjustInterval <= n /\ n < v * AdjustInterval + AdjustInterval
                       => n \div AdjustInterval = v
  BY <1>2, DivisionFacts
<1>4. \A i \in 1..next : DueRate(c[i]) = RateOf(c)[(i - 1) \div AdjustInterval]
  BY DEF History, Height
<1>5. CASE next < AdjustInterval
  <2>1. 0 * AdjustInterval <= next /\ next < 0 * AdjustInterval + AdjustInterval
    BY <1>2, <1>5
  <2>2. w = 0
    BY <1>2, <1>3, <2>1
  <2> QED
    BY <1>1, <1>5, <2>2, RateFacts
<1>6. CASE ~(next < AdjustInterval) /\ next > boundary
  <2>1. GetVdfIterations(c) = DueRate(c[boundary + 1])
    BY <1>1, <1>6
  <2>2. boundary \div AdjustInterval = w
    BY <1>2, <1>3
  <2> HIDE DEF boundary, next
  <2>3. boundary + 1 \in 1..next /\ (boundary + 1) - 1 = boundary
    BY <1>2, <1>6
  <2> QED
    BY <1>4, <2>1, <2>2, <2>3 DEF next
<1>7. CASE ~(next < AdjustInterval) /\ ~(next > boundary)
  <2>1. GetVdfIterations(c) = IF fast THEN Raise(prior) ELSE prior
    BY <1>1, <1>7
  <2>2. next = boundary
    BY <1>2, <1>7
  <2>3. w >= 1
    <3> SUFFICES ASSUME w = 0 PROVE FALSE
      BY <1>2
    <3>1. boundary = 0
      BY <1>2
    <3> QED
      BY <1>2, <2>2, <3>1
  <2>4. w - 1 \in Nat /\ (w - 1) + 1 = w
    BY <1>2, <2>3
  <2>5. (w - 1) * AdjustInterval = start /\ start \in Nat
    <3> HIDE DEF w
    <3>1. /\ (w - 1) * AdjustInterval \in Nat
          /\ ((w - 1) + 1) * AdjustInterval = (w - 1) * AdjustInterval + AdjustInterval
      BY <1>2, <2>4, DivisionFacts
    <3> QED
      BY <1>2, <2>4, <3>1
  <2>6. FastOf(c, w - 1) <=> fast
    <3> DEFINE v == w - 1
    <3>1. /\ v \in Nat /\ v * AdjustInterval = start
          /\ (v + 1) * AdjustInterval = boundary /\ boundary <= Len(c)
      BY <1>2, <2>4, <2>5
    <3> HIDE DEF v, boundary, start
    <3>2. LET e == TimesOf(c, v * AdjustInterval, (v + 1) * AdjustInterval)
          IN  FastOf(c, v) <=> e # <<>> /\ TwiceMedian(e) < 2 * MinSeconds
      BY <3>1, WindowMedian
    <3> QED
      BY <3>1, <3>2 DEF v
  <2>7. prior = RateOf(c)[w - 1]
    <3>1. start \div AdjustInterval = w - 1
      <4> DEFINE v == w - 1
      <4>1. v \in Nat /\ v * AdjustInterval = start /\ start \in Nat
        BY <2>4, <2>5
      <4> HIDE DEF v, start
      <4>2. v * AdjustInterval <= start /\ start < v * AdjustInterval + AdjustInterval
        BY <1>2, <4>1
      <4>3. start \div AdjustInterval = v
        BY <1>3, <4>1, <4>2
      <4> QED
        BY <4>3 DEF v
    <3> HIDE DEF w, boundary, next
    <3>2. start + 1 \in 1..next /\ (start + 1) - 1 = start
      BY <1>2, <2>2, <2>5
    <3> QED
      BY <1>4, <3>1, <3>2
  <2>8. w \in 1..Len(c)
    <3>1. w <= w * AdjustInterval
      <4> HIDE DEF w
      <4> QED
        BY <1>2
    <3> QED
      BY <1>2, <2>2, <2>3, <3>1
  <2>9. RateOf(c)[w] = IF FastOf(c, w - 1) THEN Raise(RateOf(c)[w - 1])
                       ELSE RateOf(c)[w - 1]
    BY <2>8, RateFacts
  <2> QED
    BY <2>1, <2>6, <2>7, <2>9
<1> QED
  BY <1>5, <1>6, <1>7

(* A block of the rate looked up keeps the history. *)
LEMMA HistoryStep ==
  ASSUME NEW c \in Seq(Paced), Len(c) >= 1, History(c), NEW dt \in Nat,
         NEW rated \in BOOLEAN, rated \/ GetVdfIterations(c) = VdfIterations
  PROVE  LET c1 == Append(c, [iters |-> IF rated THEN GetVdfIterations(c) ELSE 0,
                              rated |-> rated, dt |-> dt])
         IN  c1 \in Seq(Paced) /\ Len(c1) >= 1 /\ History(c1)
<1> DEFINE r == [iters |-> IF rated THEN GetVdfIterations(c) ELSE 0,
                 rated |-> rated, dt |-> dt]
           c1 == Append(c, r)
           n == Len(c)
           q == n \div AdjustInterval
<1>1. /\ AdjustInterval \in Nat \ {0} /\ n \in Nat /\ n >= 1
      /\ q \in Nat /\ q <= n
  <2>1. AdjustInterval \in Nat \ {0} /\ n \in Nat
    BY ChainAssumption, LenProperties
  <2>2. q \in Nat /\ q * AdjustInterval <= n
    BY <2>1, DivisionFacts
  <2> HIDE DEF q
  <2>3. q <= q * AdjustInterval
    BY <2>1, <2>2
  <2> QED
    BY <2>1, <2>2, <2>3
<1>2. DueRate(r) = RateOf(c)[q] /\ r.iters \in Nat
  <2>1. GetVdfIterations(c) = RateOf(c)[q]
    BY LookUpIsHistory
  <2>2. RateOf(c)[q] \in Nat
    BY <1>1, RateFacts
  <2>3. DueRate(r) = GetVdfIterations(c)
    BY DEF DueRate
  <2>4. r.iters \in Nat
    BY <2>1, <2>2
  <2> QED
    BY <2>1, <2>3, <2>4
<1>3. r \in Paced
  BY <1>2 DEF Paced
<1> HIDE DEF r
<1>4. /\ c1 \in Seq(Paced) /\ Len(c1) = n + 1
      /\ \A i \in 1..n : c1[i] = c[i]
      /\ c1[n + 1] = r
  BY <1>3, AppendProperties
<1>5. \A w \in 0..q : RateOf(c1)[w] = RateOf(c)[w]
  BY <1>3, RateStays
<1> HIDE DEF c1
<1>6. ASSUME NEW i \in 1..(n + 1)
      PROVE  DueRate(c1[i]) = RateOf(c1)[(i - 1) \div AdjustInterval]
  <2>1. CASE i = n + 1
    <3>1. i - 1 = n
      BY <1>1, <2>1
    <3>2. RateOf(c1)[q] = RateOf(c)[q]
      BY <1>1, <1>5
    <3> QED
      BY <1>2, <1>4, <2>1, <3>1, <3>2
  <2>2. CASE i \in 1..n
    <3> DEFINE w == (i - 1) \div AdjustInterval
    <3>1. i - 1 \in Nat /\ i - 1 <= n
      BY <1>1, <2>2
    <3>2. w \in 0..q
      <4>1. /\ w \in Nat /\ w * AdjustInterval <= i - 1
            /\ n < q * AdjustInterval + AdjustInterval
        BY <1>1, <3>1, DivisionFacts
      <4> HIDE DEF w, q
      <4>2. w * AdjustInterval \in Nat /\ q * AdjustInterval \in Nat
        BY <1>1, <4>1
      <4>3. w * AdjustInterval < q * AdjustInterval + AdjustInterval
        BY <1>1, <3>1, <4>1, <4>2
      <4>4. ~(q < w)
        <5> SUFFICES ASSUME q < w PROVE FALSE
          OBVIOUS
        <5>1. (q + 1) * AdjustInterval <= w * AdjustInterval
          BY <1>1, <4>1
        <5>2. (q + 1) * AdjustInterval = q * AdjustInterval + AdjustInterval
          BY <1>1
        <5> QED
          BY <1>1, <4>2, <4>3, <5>1, <5>2
      <4> QED
        BY <1>1, <4>1, <4>4
    <3>3. DueRate(c[i]) = RateOf(c)[w]
      BY <2>2 DEF History, Height
    <3> QED
      BY <1>4, <1>5, <2>2, <3>2, <3>3
  <2> QED
    BY <1>1, <2>1, <2>2
<1> QED
  BY <1>1, <1>4, <1>6 DEF History, Height, c1, r

-----------------------------------------------------------------------------
(* The invariant of module Retarget. *)

RetargetInv == chain \in Seq(Paced) /\ Len(chain) >= 1 /\ History(chain)

(* The reference of Retarget is the replay. *)
LEMMA ReferenceIsReplay == ReferenceRate = RateOf(chain)
<1>1. \A w : FastWindow(w) <=> FastOf(chain, w)
  BY DEF FastWindow, FastOf, Window, WindowOf, Quick, QuickOf
<1> QED
  BY <1>1 DEF ReferenceRate, RateOf, Raise

(* Looking one value up at the last boundary gives what a replay of every  *)
(* window from genesis gives, whatever the length of the windows, the      *)
(* paces of the blocks and which of them state their iterations           *)
(* (get_vdf_iterations).                                                   *)
THEOREM LookUpIsReplay == Spec => []RateIsWindowHistory
<1>1. Init => RetargetInv
  <2> SUFFICES ASSUME Init PROVE RetargetInv
    OBVIOUS
  <2>1. AdjustInterval \in Nat \ {0} /\ VdfIterations \in Nat
    BY ChainAssumption
  <2> DEFINE g == [iters |-> VdfIterations, rated |-> TRUE, dt |-> 0]
  <2>2. chain = <<g>> /\ g \in Paced
    BY <2>1 DEF Init, Genesis, Paced
  <2> HIDE DEF g
  <2>3. chain \in Seq(Paced) /\ Len(chain) = 1 /\ chain[1] = g
    BY <2>2
  <2>4. 0 \div AdjustInterval = 0
    BY <2>1
  <2>5. RateOf(chain)[0] = VdfIterations
    BY <2>3, RateFacts
  <2>6. History(chain)
    BY <2>3, <2>4, <2>5 DEF History, Height, DueRate, g
  <2> QED
    BY <2>3, <2>6 DEF RetargetInv
<1>2. RetargetInv /\ [Next]_chain => RetargetInv'
  <2> SUFFICES ASSUME RetargetInv, [Next]_chain PROVE RetargetInv'
    OBVIOUS
  <2>1. CASE UNCHANGED chain
    BY <2>1 DEF RetargetInv
  <2>2. CASE Next
    <3>1. PICK rated \in BOOLEAN, dt \in Paces :
            /\ rated \/ GetVdfIterations(chain) = VdfIterations
            /\ chain' = Append(chain, [iters |-> IF rated THEN GetVdfIterations(chain) ELSE 0,
                                       rated |-> rated, dt |-> dt])
      BY <2>2 DEF Next, Grow
    <3>2. dt \in Nat
      BY RetargetAssumption
    <3>3. chain' \in Seq(Paced) /\ Len(chain') >= 1 /\ History(chain')
      BY <3>1, <3>2, HistoryStep DEF RetargetInv
    <3> QED
      BY <3>3 DEF RetargetInv
  <2> QED
    BY <2>1, <2>2
<1>3. RetargetInv => RateIsWindowHistory
  BY ReferenceIsReplay DEF RetargetInv, History, RateIsWindowHistory
<1> QED
  BY <1>1, <1>2, <1>3, PTL DEF Spec

=============================================================================
