------------------------ MODULE LatencyTrackerProofs ------------------------
(***************************************************************************)
(* What report() prints, for every number of samples: the indices select   *)
(* percentiles of a sorted sequence, sorting keeps the samples, and the    *)
(* average is no larger than the maximum.                                  *)
(***************************************************************************)
EXTENDS LatencyTracker, FiniteSetTheorems, FunctionTheorems, WellFoundedInduction, TLAPS

\* The index n * p / 100 lies inside a vector of n samples for p below 100: no
\* percentile of report() reads beyond the end, however few the samples.
LEMMA RankInRange ==
  ASSUME NEW n \in Nat \ {0}, NEW p \in 0 .. 99
  PROVE  /\ Rank(n, p) \in 1 .. n
         /\ 100 * (Rank(n, p) - 1) <= p * n
         /\ 100 * Rank(n, p) > p * n
<1> DEFINE m == n * p
<1>1. m \in Nat /\ m <= n * 99
  BY Z3
<1> HIDE DEF m
<1>2. /\ m \div 100 \in Nat
      /\ 100 * (m \div 100) <= m
      /\ 100 * (m \div 100 + 1) > m
  BY <1>1
<1>3. m = p * n
  BY DEF m
<1>4. m \div 100 < n
  BY <1>1, <1>2
<1>5. Rank(n, p) = m \div 100 + 1
  BY DEF Rank, m
<1> QED
  BY <1>2, <1>3, <1>4, <1>5

\* What report() prints as the p-th percentile of sorted samples is one by the
\* reference definition.
THEOREM RankIsPercentile ==
  ASSUME NEW s \in Seq(Nat), Len(s) > 0, IsSorted(s), NEW p \in 0 .. 99
  PROVE  IsPercentile(s[Rank(Len(s), p)], s, p)
<1> DEFINE n == Len(s)
           r == Rank(n, p)
           Below == {k \in 1 .. n : s[k] < s[r]}
           UpTo  == {k \in 1 .. n : s[k] <= s[r]}
<1>1. n \in Nat \ {0}
  OBVIOUS
<1>2. /\ r \in 1 .. n
      /\ 100 * (r - 1) <= p * n
      /\ 100 * r > p * n
  BY <1>1, RankInRange
<1>3. \A k \in 1 .. n : s[k] \in Nat
  OBVIOUS
<1>4. Below \subseteq 1 .. r - 1
  <2> SUFFICES ASSUME NEW k \in 1 .. n, s[k] < s[r]
               PROVE  k \in 1 .. r - 1
    OBVIOUS
  <2>1. ~(r <= k)
    BY <1>2, <1>3 DEF IsSorted
  <2> QED
    BY <1>2, <2>1
<1>5. 1 .. r \subseteq UpTo
  <2> SUFFICES ASSUME NEW k \in 1 .. r
               PROVE  k \in 1 .. n /\ s[k] <= s[r]
    OBVIOUS
  <2> QED
    BY <1>2 DEF IsSorted
<1>6. Cardinality(Below) \in Nat /\ Cardinality(Below) <= r - 1
  <2> HIDE DEF r
  <2>0. 1 \in Int /\ r - 1 \in Int /\ r - 1 >= 0
    BY <1>2
  <2>1. IsFiniteSet(1 .. r - 1) /\ Cardinality(1 .. r - 1) = r - 1
    BY <2>0, FS_Interval
  <2> QED
    BY <1>4, <2>1, FS_Subset, FS_CardinalityType
<1>7. Cardinality(UpTo) \in Nat /\ Cardinality(UpTo) >= r
  <2> HIDE DEF r, UpTo
  <2>1. IsFiniteSet(1 .. n)
    BY <1>1, FS_Interval
  <2>2. IsFiniteSet(UpTo)
    BY <2>1, FS_Subset DEF UpTo
  <2>3. Cardinality(1 .. r) = r
    BY <1>2, FS_Interval
  <2>4. Cardinality(UpTo) \in Nat
    BY <2>2, FS_CardinalityType
  <2> QED
    BY <1>5, <2>2, <2>3, <2>4, FS_Subset
<1>8. p * n \in Nat
  BY <1>1
<1> HIDE DEF n, r, Below, UpTo
<1>9. /\ 100 * Cardinality(Below) <= p * n
      /\ 100 * Cardinality(UpTo) > p * n
  BY <1>1, <1>2, <1>6, <1>7, <1>8
<1> QED
  BY <1>9 DEF IsPercentile, Below, UpTo, n, r

-----------------------------------------------------------------------------
(* Sorting. *)

\* The samples that come before sample k, and itself, with ties in the order of
\* recording.
UpToSample(s, k) == {j \in 1 .. Len(s) : s[j] < s[k] \/ (s[j] = s[k] /\ j <= k)}

\* The place of sample k in a sorted copy.
Place(s) == [k \in 1 .. Len(s) |-> Cardinality(UpToSample(s, k))]

\* Places are indices, different samples have different ones, and a larger
\* sample has a later one.
LEMMA PlaceOrders ==
  ASSUME NEW s \in Seq(Nat)
  PROVE  /\ Place(s) \in Bijection(1 .. Len(s), 1 .. Len(s))
         /\ \A j, k \in 1 .. Len(s) : Place(s)[j] <= Place(s)[k] => s[j] <= s[k]
<1> DEFINE n == Len(s)
<1>1. n \in Nat /\ \A k \in 1 .. n : s[k] \in Nat
  OBVIOUS
<1>2. IsFiniteSet(1 .. n) /\ Cardinality(1 .. n) = n
  <2>1. IsFiniteSet(1 .. n) /\ Cardinality(1 .. n) = IF 1 > n THEN 0 ELSE n - 1 + 1
    BY <1>1, FS_Interval
  <2> QED
    BY <1>1, <2>1
<1> HIDE DEF n
<1>3. ASSUME NEW k \in 1 .. n
      PROVE  /\ UpToSample(s, k) \in SUBSET (1 .. n) /\ IsFiniteSet(UpToSample(s, k))
             /\ Place(s)[k] = Cardinality(UpToSample(s, k)) /\ Place(s)[k] \in 1 .. n
  <2>1. UpToSample(s, k) \in SUBSET (1 .. n) /\ k \in UpToSample(s, k)
    BY <1>1 DEF UpToSample, n
  <2>2. IsFiniteSet(UpToSample(s, k)) /\ Cardinality(UpToSample(s, k)) <= n
    BY <1>2, <2>1, FS_Subset
  <2>3. Cardinality(UpToSample(s, k)) \in Nat /\ Cardinality(UpToSample(s, k)) # 0
    BY <2>1, <2>2, FS_CardinalityType, FS_EmptySet
  <2>4. Place(s)[k] = Cardinality(UpToSample(s, k))
    BY DEF Place, n
  <2> QED
    BY <1>1, <2>1, <2>2, <2>3, <2>4
<1>4. ASSUME NEW j \in 1 .. n, NEW k \in 1 .. n, s[j] < s[k] \/ (s[j] = s[k] /\ j < k)
      PROVE  Place(s)[j] < Place(s)[k]
  <2>1. UpToSample(s, j) \in SUBSET UpToSample(s, k)
    BY <1>1, <1>4 DEF UpToSample, n
  <2>2. k \in UpToSample(s, k) /\ k \notin UpToSample(s, j)
    BY <1>1, <1>4 DEF UpToSample, n
  <2>3. IsFiniteSet(UpToSample(s, k))
    BY <1>3
  <2>4. /\ Cardinality(UpToSample(s, j)) <= Cardinality(UpToSample(s, k))
        /\ Cardinality(UpToSample(s, j)) # Cardinality(UpToSample(s, k))
    BY <2>1, <2>2, <2>3, FS_Subset
  <2> QED
    BY <1>1, <1>3, <2>4
<1>5. \A j, k \in 1 .. n : Place(s)[j] = Place(s)[k] => j = k
  <2> SUFFICES ASSUME NEW j \in 1 .. n, NEW k \in 1 .. n, j # k
               PROVE  Place(s)[j] # Place(s)[k]
    OBVIOUS
  <2>1. \/ s[j] < s[k] \/ (s[j] = s[k] /\ j < k)
        \/ s[k] < s[j] \/ (s[k] = s[j] /\ k < j)
    BY <1>1
  <2>2. Place(s)[j] < Place(s)[k] \/ Place(s)[k] < Place(s)[j]
    BY <1>4, <2>1
  <2> QED
    BY <1>1, <1>3, <2>2
<1>6. Place(s) \in Injection(1 .. n, 1 .. n)
  <2>1. Place(s) \in [1 .. n -> 1 .. n]
    BY <1>3 DEF Place, n
  <2> QED
    BY <1>5, <2>1, Fun_IsInj
<1>7. Place(s) \in Surjection(1 .. n, 1 .. n)
  BY <1>2, <1>6, FS_Injection
<1>8. Place(s) \in Bijection(1 .. n, 1 .. n)
  BY <1>6, <1>7, Fun_IsBij
<1>9. ASSUME NEW j \in 1 .. n, NEW k \in 1 .. n, Place(s)[j] <= Place(s)[k]
      PROVE  s[j] <= s[k]
  <2> SUFFICES ASSUME s[k] < s[j]
               PROVE  FALSE
    BY <1>1
  <2>1. Place(s)[k] < Place(s)[j]
    BY <1>4
  <2> QED
    BY <1>1, <1>3, <1>9, <2>1
<1> QED
  BY <1>8, <1>9 DEF n

\* A bijection of indices, unfolded.
LEMMA BijectionOfIndices ==
  ASSUME NEW n \in Nat, NEW o \in Bijection(1 .. n, 1 .. n)
  PROVE  /\ o \in [1 .. n -> 1 .. n]
         /\ \A j, k \in 1 .. n : o[j] = o[k] => j = k
         /\ \A j \in 1 .. n : \E k \in 1 .. n : o[k] = j
  BY Fun_BijectionProperties, Zenon

\* std::sort has a result: sorted, and with the same samples.
LEMMA SortedSorts ==
  ASSUME NEW s \in Seq(Nat)
  PROVE  /\ SortingOrder(s) \in Bijection(1 .. Len(s), 1 .. Len(s))
         /\ Sorted(s) \in Seq(Nat) /\ Len(Sorted(s)) = Len(s) /\ IsSorted(Sorted(s))
         /\ \A k \in 1 .. Len(s) : Sorted(s)[k] = s[SortingOrder(s)[k]]
<1> DEFINE n == Len(s)
           f == Place(s)
           g == Inverse(f, 1 .. n, 1 .. n)
<1>1. n \in Nat /\ \A k \in 1 .. n : s[k] \in Nat
  OBVIOUS
<1>2. f \in Bijection(1 .. n, 1 .. n)
  BY PlaceOrders
<1>3. g \in Bijection(1 .. n, 1 .. n) /\ \A k \in 1 .. n : g[f[k]] = k
  BY <1>2, Fun_BijInverse
<1>4. \A k \in 1 .. n : g[k] \in 1 .. n /\ f[g[k]] = k
  <2> HIDE DEF f, g
  <2> HIDE DEF n
  <2>1. g \in [1 .. n -> 1 .. n]
    BY <1>1, <1>3, BijectionOfIndices, Zenon
  <2>2. \A k \in 1 .. n : \E j \in 1 .. n : f[j] = k
    BY <1>1, <1>2, BijectionOfIndices, Zenon
  <2> QED
    BY <1>3, <2>1, <2>2
<1>5. ASSUME NEW o \in Bijection(1 .. n, 1 .. n)
      PROVE  /\ Permuted(s, o) \in Seq(Nat) /\ Len(Permuted(s, o)) = n
             /\ \A k \in 1 .. n : Permuted(s, o)[k] = s[o[k]]
  <2>1. o \in [1 .. n -> 1 .. n]
    BY <1>1, <1>5, BijectionOfIndices, Zenon
  <2>2. Permuted(s, o) \in [1 .. n -> Nat]
    BY <1>1, <2>1 DEF Permuted
  <2> QED
    BY <1>1, <2>2 DEF Permuted
<1>6. IsSorted(Permuted(s, g))
  <2> HIDE DEF g, f, n
  <2>1. \A j, k \in 1 .. n : f[j] <= f[k] => s[j] <= s[k]
    BY PlaceOrders DEF f, n
  <2>2. \A j, k \in 1 .. n : j <= k => s[g[j]] <= s[g[k]]
    BY <1>4, <2>1
  <2> QED
    BY <1>3, <1>5, <2>2 DEF IsSorted
<1>7. /\ SortingOrder(s) \in Bijection(1 .. n, 1 .. n)
      /\ IsSorted(Permuted(s, SortingOrder(s)))
  <2> HIDE DEF g
  <2> QED
    BY <1>3, <1>6, Zenon DEF SortingOrder
<1> QED
  BY <1>5, <1>7 DEF Sorted

\* The sorted copy has as many samples of any set of values as the tracker.
LEMMA SortedCounts ==
  ASSUME NEW s \in Seq(Nat), NEW V
  PROVE  Cardinality({k \in 1 .. Len(s) : Sorted(s)[k] \in V})
           = Cardinality({k \in 1 .. Len(s) : s[k] \in V})
<1> DEFINE n == Len(s)
           o == SortingOrder(s)
           A == {k \in 1 .. n : Sorted(s)[k] \in V}
           B == {k \in 1 .. n : s[k] \in V}
           h == [k \in A |-> o[k]]
<1>1. n \in Nat /\ IsFiniteSet(1 .. n)
  BY FS_Interval
<1>2. o \in Bijection(1 .. n, 1 .. n) /\ \A k \in 1 .. n : Sorted(s)[k] = s[o[k]]
  BY SortedSorts
<1> HIDE DEF o, n
<1>3. /\ o \in [1 .. n -> 1 .. n]
      /\ \A j, k \in 1 .. n : o[j] = o[k] => j = k
      /\ \A j \in 1 .. n : \E k \in 1 .. n : o[k] = j
  BY <1>1, <1>2, BijectionOfIndices, Zenon
<1>4. IsFiniteSet(A)
  BY <1>1, FS_Subset
<1>5. h \in [A -> B]
  BY <1>2, <1>3
<1>6. h \in Bijection(A, B)
  <2>1. \A j, k \in A : h[j] = h[k] => j = k
    BY <1>3
  <2>2. ASSUME NEW j \in B
        PROVE  \E k \in A : h[k] = j
    <3>1. j \in 1 .. n /\ s[j] \in V
      OBVIOUS
    <3>2. PICK k \in 1 .. n : o[k] = j
      BY <1>3, <3>1
    <3>3. k \in A /\ h[k] = j
      BY <1>2, <3>1, <3>2
    <3> QED
      BY <3>3
  <2> HIDE DEF h, A, B
  <2> QED
    BY <1>5, <2>1, <2>2, Fun_IsBij
<1> HIDE DEF A, B, h
<1>7. Cardinality(B) = Cardinality(A)
  <2>1. ExistsBijection(A, B)
    BY <1>6 DEF ExistsBijection
  <2> QED
    BY <1>4, <2>1, FS_Bijection
<1> QED
  BY <1>7 DEF A, B, n

-----------------------------------------------------------------------------
(* Summing. *)

\* f has the sums of the first 0, 1, ..., m samples.
IsSums(f, s, m) == f = [n \in 0 .. m |-> IF n = 0 THEN 0 ELSE f[n - 1] + s[n]]

\* A non-empty set of natural numbers has a least element.
LEMMA LeastExists ==
  ASSUME NEW S \in SUBSET Nat, S # {}
  PROVE  \E x \in S : \A y \in S : x <= y
<1>1. PICK x \in S : \A y \in S : ~(<<y, x>> \in OpToRel(<, Nat))
  BY NatLessThanWellFounded, WFMin
<1>2. ASSUME NEW y \in S, y < x
      PROVE  FALSE
  <2>1. <<y, x>> \in Nat \X Nat /\ <<y, x>>[1] < <<y, x>>[2]
    BY <1>2
  <2>2. <<y, x>> \in OpToRel(<, Nat)
    BY <2>1 DEF OpToRel
  <2> QED
    BY <1>1, <2>2
<1> QED
  BY <1>2

\* The loop of report() that adds up the samples computes something, for any
\* number of them.
LEMMA SumsExist ==
  ASSUME NEW s, NEW m \in Nat
  PROVE  \E f : IsSums(f, s, m)
<1> DEFINE Bad == {x \in Nat : ~ \E f : IsSums(f, s, x)}
<1> SUFFICES ASSUME Bad # {}
             PROVE  FALSE
  BY Zenon
<1>1. PICK x \in Bad : \A y \in Bad : x <= y
  BY LeastExists
<1>2. x \in Nat /\ ~ \E f : IsSums(f, s, x)
  OBVIOUS
<1>3. CASE x = 0
  <2> DEFINE f == [n \in 0 .. 0 |-> 0]
  <2>1. IsSums(f, s, 0)
    BY DEF IsSums
  <2> QED
    BY <1>2, <1>3, <2>1
<1>4. CASE x # 0
  <2>1. x - 1 \in Nat /\ x - 1 \notin Bad
    BY <1>1, <1>2, <1>4
  <2>2. PICK f : IsSums(f, s, x - 1)
    BY <2>1
  <2> DEFINE g == [n \in 0 .. x |-> IF n = x THEN f[x - 1] + s[x] ELSE f[n]]
  <2>3. f = [n \in 0 .. x - 1 |-> IF n = 0 THEN 0 ELSE f[n - 1] + s[n]]
    BY <2>2 DEF IsSums
  <2>4. ASSUME NEW n \in 0 .. x
        PROVE  g[n] = IF n = 0 THEN 0 ELSE g[n - 1] + s[n]
    <3>1. CASE n = x
      BY <1>2, <1>4, <3>1
    <3>2. CASE n # x
      <4>1. n \in 0 .. x - 1 /\ (n # 0 => n - 1 \in 0 .. x - 1)
        BY <1>2, <3>2
      <4>2. f[n] = IF n = 0 THEN 0 ELSE f[n - 1] + s[n]
        BY <2>3, <4>1
      <4> QED
        BY <1>2, <3>2, <4>1, <4>2
    <3> QED
      BY <3>1, <3>2
  <2>5. g = [n \in 0 .. x |-> g[n]]
    OBVIOUS
  <2> HIDE DEF g
  <2>6. IsSums(g, s, x)
    BY <2>4, <2>5 DEF IsSums
  <2> QED
    BY <1>2, <2>6
<1> QED
  BY <1>3, <1>4

\* A sum of n samples is at most n times a bound on them.
LEMMA SumBound ==
  ASSUME NEW s \in Seq(Nat), NEW b \in Nat, \A k \in 1 .. Len(s) : s[k] <= b,
         NEW f, IsSums(f, s, Len(s)), NEW m \in 0 .. Len(s)
  PROVE  f[m] \in Nat /\ f[m] <= m * b
<1> DEFINE Good(x) == f[x] \in Nat /\ f[x] <= x * b
           Bad == {x \in 0 .. Len(s) : ~Good(x)}
<1> SUFFICES ASSUME Bad # {}
             PROVE  FALSE
  BY Zenon
<1>0. Len(s) \in Nat /\ \A k \in 1 .. Len(s) : s[k] \in Nat
  OBVIOUS
<1>1. PICK x \in Bad : \A y \in Bad : x <= y
  <2>1. Bad \in SUBSET Nat
    BY <1>0
  <2> HIDE DEF Bad
  <2> QED
    BY <2>1, LeastExists
<1>2. x \in 0 .. Len(s) /\ ~Good(x)
  OBVIOUS
<1>3. f[x] = IF x = 0 THEN 0 ELSE f[x - 1] + s[x]
  BY <1>2 DEF IsSums
<1>4. CASE x = 0
  <2>1. 0 * b = 0
    OBVIOUS
  <2> QED
    BY <1>2, <1>3, <1>4, <2>1
<1>5. CASE x # 0
  <2>1. x - 1 \in 0 .. Len(s) /\ x \in 1 .. Len(s) /\ x - 1 \notin Bad
    BY <1>0, <1>1, <1>2, <1>5
  <2>2. f[x - 1] \in Nat /\ f[x - 1] <= (x - 1) * b
    BY <2>1
  <2>3. (x - 1) * b + b = x * b
    BY <1>2
  <2>4. s[x] \in Nat /\ s[x] <= b
    BY <1>0, <2>1
  <2>5. (x - 1) * b \in Int /\ x * b \in Int
    BY <1>2
  <2>6. f[x] = f[x - 1] + s[x]
    BY <1>3, <1>5
  <2>7. Good(x)
    BY <2>2, <2>3, <2>4, <2>5, <2>6
  <2> QED
    BY <1>2, <2>7
<1> QED
  BY <1>4, <1>5

\* Division of natural numbers rounds down.
LEMMA DivideDown ==
  ASSUME NEW a \in Nat, NEW w \in Nat \ {0}
  PROVE  a \div w \in Nat /\ w * (a \div w) <= a
<1>1. a \div w \in Nat /\ a % w \in 0 .. w - 1
  OBVIOUS
<1>2. a = w * (a \div w) + (a % w)
  OBVIOUS
<1>3. w * (a \div w) \in Int
  BY <1>1
<1> QED
  BY <1>1, <1>2, <1>3

\* The average is a number of cycles, no larger than any bound on the samples.
LEMMA AverageBound ==
  ASSUME NEW s \in Seq(Nat), Len(s) > 0, NEW b \in Nat, \A k \in 1 .. Len(s) : s[k] <= b
  PROVE  Average(s) \in Nat /\ Average(s) <= b
<1> DEFINE n == Len(s)
           f == CHOOSE sum : IsSums(sum, s, n)
<1>1. n \in Nat \ {0}
  OBVIOUS
<1>2. IsSums(f, s, n)
  <2>1. \E sum : IsSums(sum, s, n)
    BY <1>1, SumsExist
  <2> QED
    BY <2>1, Zenon
<1>3. Average(s) = f[n] \div n
  BY DEF Average, IsSums
<1> HIDE DEF f
<1>4. f[n] \in Nat /\ f[n] <= n * b
  BY <1>1, <1>2, SumBound
<1> HIDE DEF n
<1>5. f[n] \div n \in Nat /\ n * (f[n] \div n) <= f[n]
  BY <1>1, <1>4, DivideDown
<1>6. ASSUME f[n] \div n > b
      PROVE  FALSE
  <2>1. f[n] \div n >= b + 1
    BY <1>5, <1>6
  <2>2. n * (f[n] \div n) >= n * (b + 1)
    BY <1>1, <1>5, <2>1
  <2>3. n * (b + 1) = n * b + n
    BY <1>1
  <2> QED
    BY <1>1, <1>4, <1>5, <2>2, <2>3
<1> QED
  BY <1>3, <1>5, <1>6

-----------------------------------------------------------------------------
(* The report. *)

\* A percentile of the sorted copy is one of the samples.
LEMMA SortedPercentile ==
  ASSUME NEW s \in Seq(Nat), NEW v \in Nat, NEW p \in Nat, IsPercentile(v, Sorted(s), p)
  PROVE  IsPercentile(v, s, p)
<1> DEFINE n == Len(s)
           t == Sorted(s)
           Less == {x \in Nat : x < v}
           UpTo == {x \in Nat : x <= v}
<1>1. t \in Seq(Nat) /\ Len(t) = n
  BY SortedSorts
<1>2. /\ \A k \in 1 .. n : s[k] \in Nat
      /\ \A k \in 1 .. n : t[k] \in Nat
  <2> HIDE DEF t
  <2> QED
    BY <1>1
<1>3. /\ Cardinality({k \in 1 .. n : t[k] \in Less}) = Cardinality({k \in 1 .. n : s[k] \in Less})
      /\ Cardinality({k \in 1 .. n : t[k] \in UpTo}) = Cardinality({k \in 1 .. n : s[k] \in UpTo})
  <2> HIDE DEF Less, UpTo
  <2> QED
    BY SortedCounts
<1> HIDE DEF t, n
<1>4. /\ {k \in 1 .. n : t[k] \in Less} = {k \in 1 .. n : t[k] < v}
      /\ {k \in 1 .. n : t[k] \in UpTo} = {k \in 1 .. n : t[k] <= v}
  BY <1>2
<1>5. /\ {k \in 1 .. n : s[k] \in Less} = {k \in 1 .. n : s[k] < v}
      /\ {k \in 1 .. n : s[k] \in UpTo} = {k \in 1 .. n : s[k] <= v}
  BY <1>2
<1>6. IsPercentile(v, t, p)
  BY DEF t
<1> HIDE DEF Less, UpTo
<1> QED
  BY <1>1, <1>3, <1>4, <1>5, <1>6 DEF IsPercentile, n

\* Whatever was recorded, report() prints percentiles, in order, none above the
\* maximum, and an average that is not above it either.
THEOREM ReportIsSound ==
  ASSUME NEW s \in Seq(Nat), s # <<>>
  PROVE  LET r == Report(s) IN
         /\ IsPercentile(r.p50, s, 50)
         /\ IsPercentile(r.p95, s, 95)
         /\ IsPercentile(r.p99, s, 99)
         /\ r.p50 <= r.p95 /\ r.p95 <= r.p99 /\ r.p99 <= r.max /\ r.avg <= r.max
<1> DEFINE n == Len(s)
           t == Sorted(s)
           o == SortingOrder(s)
           R(p) == Rank(n, p)
<1>1. n \in Nat \ {0} /\ n > 0 /\ \A k \in 1 .. n : s[k] \in Nat
  OBVIOUS
<1>2. /\ t \in Seq(Nat) /\ Len(t) = n /\ IsSorted(t)
      /\ o \in Bijection(1 .. n, 1 .. n)
      /\ \A k \in 1 .. n : t[k] = s[o[k]]
  BY SortedSorts
<1> HIDE DEF t, o
<1>3. ASSUME NEW p \in 0 .. 99
      PROVE  /\ R(p) \in 1 .. n /\ 100 * (R(p) - 1) <= p * n /\ 100 * R(p) > p * n
             /\ t[R(p)] \in Nat /\ IsPercentile(t[R(p)], s, p)
  <2>1. R(p) \in 1 .. n /\ 100 * (R(p) - 1) <= p * n /\ 100 * R(p) > p * n
    BY <1>1, RankInRange
  <2>2. IsPercentile(t[R(p)], t, p)
    BY <1>1, <1>2, RankIsPercentile, Zenon
  <2> DEFINE r == R(p)
  <2> HIDE DEF r
  <2>3. t[r] \in Nat
    <3>1. r \in 1 .. n
      BY <2>1 DEF r
    <3> QED
      BY <1>2, <3>1
  <2>4. IsPercentile(t[r], s, p)
    <3>1. IsPercentile(t[r], Sorted(s), p) /\ p \in Nat
      BY <2>2 DEF r, t
    <3> QED
      BY <2>3, <3>1, SortedPercentile, Zenon
  <2> QED
    BY <2>1, <2>3, <2>4 DEF r
<1>4. R(50) <= R(95) /\ R(95) <= R(99) /\ R(99) <= n
  <2> HIDE DEF R, n
  <2>1. /\ R(50) \in 1 .. n /\ 100 * (R(50) - 1) <= 50 * n
        /\ R(95) \in 1 .. n /\ 100 * (R(95) - 1) <= 95 * n /\ 100 * R(95) > 95 * n
        /\ R(99) \in 1 .. n /\ 100 * R(99) > 99 * n
    BY <1>3
  <2> QED
    BY <1>1, <2>1
<1>5. t[R(50)] <= t[R(95)] /\ t[R(95)] <= t[R(99)] /\ t[R(99)] <= t[n]
  <2> HIDE DEF R, n
  <2>1. R(50) \in 1 .. n /\ R(95) \in 1 .. n /\ R(99) \in 1 .. n /\ n \in 1 .. n
    BY <1>1, <1>3
  <2> QED
    BY <1>2, <1>4, <2>1 DEF IsSorted
<1>6. t[n] \in Nat /\ \A k \in 1 .. n : s[k] <= t[n]
  <2> HIDE DEF n
  <2>1. n \in 1 .. n
    BY <1>1
  <2>2. ASSUME NEW k \in 1 .. n
        PROVE  s[k] <= t[n]
    <3>0. n \in Nat /\ o \in Bijection(1 .. n, 1 .. n)
      BY <1>1, <1>2
    <3>1. PICK j \in 1 .. n : o[j] = k
      BY <3>0, BijectionOfIndices, Zenon
    <3>2. t[j] = s[k] /\ t[j] <= t[n]
      BY <1>1, <1>2, <2>1, <3>1 DEF IsSorted
    <3> QED
      BY <3>2
  <2> QED
    BY <1>2, <2>1, <2>2
<1>7. Average(s) <= t[n]
  <2> DEFINE b == t[n]
  <2>1. b \in Nat /\ \A k \in 1 .. Len(s) : s[k] <= b
    BY <1>6
  <2>2. Len(s) > 0
    BY <1>1
  <2> HIDE DEF b
  <2>3. Average(s) <= b
    BY <2>1, <2>2, AverageBound
  <2> QED
    BY <2>3 DEF b
<1>8. Report(s) = [avg |-> Average(s), p50 |-> t[R(50)], p95 |-> t[R(95)],
                   p99 |-> t[R(99)], max |-> t[n]]
  BY DEF Report, t
<1> HIDE DEF R, n
<1> QED
  BY <1>3, <1>5, <1>7, <1>8

=============================================================================
