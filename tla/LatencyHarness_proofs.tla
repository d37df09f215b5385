------------------------- MODULE LatencyHarness_proofs -------------------------
(***************************************************************************)
(* The integer arithmetic of nearest_rank_percentile computes the nearest  *)
(* rank, for any number of samples, any samples and any percentage; and    *)
(* measure_latency_ns summarises the timed calls and no other.             *)
(***************************************************************************)
EXTENDS LatencyHarness, Integers, FiniteSetTheorems, SequenceTheorems, TLAPS

--------------------------------------------------------------------------------
(* The rank of h hundredths of a percent among n samples.                  *)
RankOf(h, n) ==
    LET rank128 == Ceiling(h * n)
    IN IF rank128 < 1 THEN 1 ELSE IF rank128 > n THEN n ELSE rank128

(* The quotient is a ceiling: the least number of samples that are h       *)
(* hundredths of a percent of them or more, and never more than all.       *)
LEMMA CeilingIsLeast ==
    ASSUME NEW x \in Nat, NEW m \in Nat, x <= 10000 * m
    PROVE  /\ Ceiling(x) \in Nat /\ Ceiling(x) <= m
           /\ 10000 * Ceiling(x) >= x
           /\ Ceiling(x) > 0 => 10000 * (Ceiling(x) - 1) < x
BY DEF Ceiling

LEMMA RankIsLeast ==
    ASSUME NEW m \in Nat, m > 0, NEW h \in Nat, h <= 10000
    PROVE  /\ RankOf(h, m) \in Nat /\ RankOf(h, m) >= 1 /\ RankOf(h, m) <= m
           /\ 10000 * RankOf(h, m) >= h * m
           /\ RankOf(h, m) > 1 => 10000 * (RankOf(h, m) - 1) < h * m
<1> DEFINE x == h * m
<1>1. x \in Nat /\ x <= 10000 * m
  OBVIOUS
<1> HIDE DEF x
<1>2. /\ Ceiling(x) \in Nat /\ Ceiling(x) <= m
      /\ 10000 * Ceiling(x) >= x
      /\ Ceiling(x) > 0 => 10000 * (Ceiling(x) - 1) < x
  BY <1>1, CeilingIsLeast
<1>3. RankOf(h, m) = IF Ceiling(x) < 1 THEN 1 ELSE IF Ceiling(x) > m THEN m ELSE Ceiling(x)
  BY DEF RankOf, x
<1>4. /\ RankOf(h, m) \in Nat /\ RankOf(h, m) >= 1 /\ RankOf(h, m) <= m
      /\ 10000 * RankOf(h, m) >= x
      /\ RankOf(h, m) > 1 => 10000 * (RankOf(h, m) - 1) < x
  BY <1>1, <1>2, <1>3
<1> QED
  BY <1>4 DEF x

(* A percentage within half a hundredth of h is rounded to h: whatever     *)
(* double stands for a decimal of two places, it means that decimal.       *)
LEMMA RoundedToHundredth ==
    ASSUME NEW p \in Int, NEW h \in Int,
           2 * p > (2 * h - 1) * Fine, 2 * p < (2 * h + 1) * Fine
    PROVE  Rounded(p) = h
<1> DEFINE d == 2 * Fine
           a == 2 * p + Fine
<1>1. Fine \in Nat \ {0} /\ d \in Nat \ {0} /\ a \in Int
  BY PercentagesAssumption
<1>2. a > d * h /\ a < d * h + d
  BY <1>1
<1> HIDE DEF d, a
<1>3. a \div d = h
  BY <1>1, <1>2
<1> QED
  BY <1>3 DEF Rounded, d, a

--------------------------------------------------------------------------------
(* Sorting: how many samples precede one tells the samples apart, and      *)
(* takes each value below the number of samples.                           *)
LEMMA PrecedingIsPosition ==
    ASSUME NEW s \in Seq(Int), NEW k \in DOMAIN s
    PROVE  /\ IsFiniteSet(Preceding(s, k))
           /\ Cardinality(Preceding(s, k)) \in 0 .. Len(s) - 1
<1>1. IsFiniteSet(1 .. Len(s)) /\ Cardinality(1 .. Len(s)) = Len(s) /\ Len(s) \in Nat
  <2>1. Len(s) \in Nat /\ 1 <= Len(s)
    OBVIOUS
  <2>2. Cardinality(1 .. Len(s)) = IF 1 > Len(s) THEN 0 ELSE Len(s) - 1 + 1
    BY <2>1, FS_Interval
  <2> QED
    BY <2>1, <2>2, FS_Interval
<1>2. Preceding(s, k) \subseteq 1 .. Len(s) /\ Preceding(s, k) # 1 .. Len(s)
  BY DEF Preceding
<1>3. /\ IsFiniteSet(Preceding(s, k))
      /\ Cardinality(Preceding(s, k)) \in Nat /\ Cardinality(Preceding(s, k)) <= Len(s)
      /\ Cardinality(Preceding(s, k)) # Len(s)
  BY <1>1, <1>2, FS_Subset, FS_CardinalityType
<1> QED
  BY <1>1, <1>3

LEMMA PrecedingGrows ==
    ASSUME NEW s \in Seq(Int), NEW j \in DOMAIN s, NEW k \in DOMAIN s,
           j \in Preceding(s, k)
    PROVE  Cardinality(Preceding(s, j)) < Cardinality(Preceding(s, k))
<1>1. Preceding(s, j) \subseteq Preceding(s, k) /\ j \notin Preceding(s, j)
  BY DEF Preceding
<1>2. IsFiniteSet(Preceding(s, k)) /\ Preceding(s, j) # Preceding(s, k)
  BY <1>1, PrecedingIsPosition
<1> QED
  BY <1>1, <1>2, FS_Subset, FS_CardinalityType

LEMMA PositionsAreApart ==
    ASSUME NEW s \in Seq(Int), NEW j \in DOMAIN s, NEW k \in DOMAIN s,
           Cardinality(Preceding(s, j)) <= Cardinality(Preceding(s, k))
    PROVE  j = k \/ j \in Preceding(s, k)
<1>1. j = k \/ j \in Preceding(s, k) \/ k \in Preceding(s, j)
  BY DEF Preceding
<1>2. Cardinality(Preceding(s, j)) \in Nat /\ Cardinality(Preceding(s, k)) \in Nat
  BY PrecedingIsPosition
<1> QED
  BY <1>1, <1>2, PrecedingGrows

LEMMA EveryPositionIsTaken ==
    ASSUME NEW s \in Seq(Int), NEW r \in DOMAIN s
    PROVE  /\ SampleAt(s, r) \in DOMAIN s
           /\ Cardinality(Preceding(s, SampleAt(s, r))) = r - 1
<1> DEFINE f == [k \in DOMAIN s |-> Cardinality(Preceding(s, k)) + 1]
<1>1. DOMAIN s = 1 .. Len(s) /\ Len(s) \in Nat /\ IsFiniteSet(DOMAIN s)
  BY FS_Interval
<1>2. \A k \in DOMAIN s : f[k] \in DOMAIN s
  BY <1>1, PrecedingIsPosition
<1>3. ASSUME NEW j \in DOMAIN s, NEW k \in DOMAIN s, f[j] = f[k]
      PROVE  j = k
  <2>1. /\ Cardinality(Preceding(s, j)) \in Nat /\ Cardinality(Preceding(s, k)) \in Nat
    BY PrecedingIsPosition
  <2>2. Cardinality(Preceding(s, j)) = Cardinality(Preceding(s, k))
    BY <1>3, <2>1
  <2> QED
    BY <2>1, <2>2, PositionsAreApart, PrecedingGrows
<1>4. f \in Injection(DOMAIN s, DOMAIN s)
  BY <1>2, <1>3 DEF Injection, IsInjective
<1>5. f \in Surjection(DOMAIN s, DOMAIN s)
  BY <1>1, <1>4, FS_Injection
<1>6. \E k \in DOMAIN s : Cardinality(Preceding(s, k)) = r - 1
  <2>1. PICK k \in DOMAIN s : f[k] = r
    BY <1>5 DEF Surjection
  <2>2. Cardinality(Preceding(s, k)) \in Nat
    BY PrecedingIsPosition
  <2> QED
    BY <1>1, <2>1, <2>2
<1> QED
  BY <1>6 DEF SampleAt

(* The sorted samples are in order, and are the samples.                   *)
LEMMA SortedIsSorted ==
    ASSUME NEW s \in Seq(Int)
    PROVE  /\ Sorted(s) \in Seq(Int) /\ Len(Sorted(s)) = Len(s)
           /\ \A i, j \in 1 .. Len(s) : i <= j => Sorted(s)[i] <= Sorted(s)[j]
           /\ \A i \in 1 .. Len(s) : Sorted(s)[i] = s[SampleAt(s, i)]
<1>1. DOMAIN s = 1 .. Len(s) /\ Len(s) \in Nat
  OBVIOUS
<1>2. \A i \in 1 .. Len(s) : SampleAt(s, i) \in 1 .. Len(s)
  BY <1>1, EveryPositionIsTaken
<1>3. Sorted(s) = [i \in 1 .. Len(s) |-> s[SampleAt(s, i)]]
  BY <1>1 DEF Sorted
<1>4. Sorted(s) \in [1 .. Len(s) -> Int]
  BY <1>2, <1>3
<1>5. ASSUME NEW i \in 1 .. Len(s), NEW j \in 1 .. Len(s), i <= j
      PROVE  Sorted(s)[i] <= Sorted(s)[j]
  <2>1. PICK a \in DOMAIN s : a = SampleAt(s, i) /\ Cardinality(Preceding(s, a)) = i - 1
    BY <1>1, EveryPositionIsTaken
  <2>2. PICK b \in DOMAIN s : b = SampleAt(s, j) /\ Cardinality(Preceding(s, b)) = j - 1
    BY <1>1, EveryPositionIsTaken
  <2>3. a = b \/ a \in Preceding(s, b)
    BY <1>5, <2>1, <2>2, PositionsAreApart
  <2>4. s[a] \in Int /\ s[b] \in Int
    OBVIOUS
  <2>5. s[a] <= s[b]
    BY <2>3, <2>4 DEF Preceding
  <2> QED
    BY <1>3, <2>1, <2>2, <2>5
<1> QED
  BY <1>1, <1>3, <1>4, <1>5

(* A position in the sorted samples is a position in the samples, and the  *)
(* other way round.                                                        *)
LEMMA SortingIsABijection ==
    ASSUME NEW s \in Seq(Int)
    PROVE  [r \in 1 .. Len(s) |-> SampleAt(s, r)] \in Bijection(1 .. Len(s), 1 .. Len(s))
<1> DEFINE f == [r \in 1 .. Len(s) |-> SampleAt(s, r)]
<1>1. DOMAIN s = 1 .. Len(s) /\ Len(s) \in Nat /\ IsFiniteSet(1 .. Len(s))
  BY FS_Interval
<1>2. \A r \in 1 .. Len(s) : f[r] \in 1 .. Len(s)
  BY <1>1, EveryPositionIsTaken
<1>3. ASSUME NEW i \in 1 .. Len(s), NEW j \in 1 .. Len(s), f[i] = f[j]
      PROVE  i = j
  <2>1. Cardinality(Preceding(s, f[i])) = i - 1 /\ Cardinality(Preceding(s, f[j])) = j - 1
    BY <1>1, EveryPositionIsTaken
  <2> QED
    BY <1>3, <2>1
<1>4. f \in Injection(1 .. Len(s), 1 .. Len(s))
  BY <1>2, <1>3 DEF Injection, IsInjective
<1>5. f \in Surjection(1 .. Len(s), 1 .. Len(s))
  BY <1>1, <1>4, FS_Injection
<1> QED
  BY <1>4, <1>5 DEF Bijection

(* As many samples as sorted samples are no larger than a value.           *)
NoLarger(s, v) == {k \in 1 .. Len(s) : s[k] <= v}

LEMMA SharesAreNumbers ==
    ASSUME NEW s \in Seq(Int), NEW v
    PROVE  IsFiniteSet(NoLarger(s, v)) /\ Cardinality(NoLarger(s, v)) \in Nat
<1>1. IsFiniteSet(1 .. Len(s))
  BY FS_Interval
<1> QED
  BY <1>1, FS_Subset, FS_CardinalityType DEF NoLarger

LEMMA SortingKeepsShares ==
    ASSUME NEW s \in Seq(Int), NEW v \in Int
    PROVE  /\ Cardinality(NoLarger(Sorted(s), v)) = Cardinality(NoLarger(s, v))
           /\ Cardinality(NoLarger(s, v)) \in Nat
<1> DEFINE f == [r \in 1 .. Len(s) |-> SampleAt(s, r)]
           A == NoLarger(Sorted(s), v)
           B == NoLarger(s, v)
           g == [r \in A |-> f[r]]
<1>1. f \in Injection(1 .. Len(s), 1 .. Len(s)) /\ f \in Surjection(1 .. Len(s), 1 .. Len(s))
  BY SortingIsABijection DEF Bijection
<1>2. A = {r \in 1 .. Len(s) : s[f[r]] <= v}
  BY SortedIsSorted DEF NoLarger
<1>3. IsFiniteSet(A) /\ IsFiniteSet(B)
  <2>1. IsFiniteSet(1 .. Len(s))
    BY FS_Interval
  <2> QED
    BY <1>2, <2>1, FS_Subset DEF NoLarger
<1>4. g \in [A -> B]
  BY <1>1, <1>2 DEF NoLarger, Injection
<1>5. \A i, j \in A : g[i] = g[j] => i = j
  BY <1>1, <1>2 DEF Injection, IsInjective
<1>6. \A k \in B : \E r \in A : g[r] = k
  <2> SUFFICES ASSUME NEW k \in B PROVE \E r \in A : g[r] = k
    OBVIOUS
  <2>1. k \in 1 .. Len(s) /\ s[k] <= v
    BY DEF NoLarger
  <2>2. PICK r \in 1 .. Len(s) : f[r] = k
    BY <1>1, <2>1 DEF Surjection
  <2> QED
    BY <1>2, <2>1, <2>2
<1>7. ExistsBijection(A, B)
  BY <1>4, <1>5, <1>6 DEF ExistsBijection, Bijection, Injection, Surjection, IsInjective
<1> QED
  BY <1>3, <1>7, FS_Bijection, FS_CardinalityType

--------------------------------------------------------------------------------
(* p means h hundredths of a percent: it is within half of one, or is out  *)
(* of range on that side.                                                  *)
Means(p, h) ==
    \/ 2 * p > (2 * h - 1) * Fine /\ 2 * p < (2 * h + 1) * Fine
    \/ p < 0 /\ h = 0
    \/ p > Hundred /\ h = 10000

LEMMA ClampedMeaning ==
    ASSUME NEW p \in Int, NEW h \in Nat, h <= 10000, Means(p, h)
    PROVE  Rounded(Clamped(p)) = h
<1>1. Fine \in Nat \ {0} /\ Clamped(p) \in Int
  BY PercentagesAssumption DEF Clamped, Hundred
<1>2. /\ 2 * Clamped(p) > (2 * h - 1) * Fine /\ 2 * Clamped(p) < (2 * h + 1) * Fine
  <2>1. CASE p < 0
    <3>1. h = 0
      <4>1. CASE 2 * p > (2 * h - 1) * Fine
        <5>1. CASE h >= 1
          <6>1. (2 * h - 1) * Fine > 0
            BY <1>1, <5>1
          <6> QED
            BY <1>1, <2>1, <4>1, <6>1
        <5> QED
          BY <5>1
      <4> QED
        BY <1>1, <2>1, <4>1 DEF Means, Hundred
    <3> QED
      BY <1>1, <2>1, <3>1 DEF Clamped
  <2>2. CASE p > Hundred
    <3>1. h = 10000
      <4>1. CASE 2 * p < (2 * h + 1) * Fine
        <5>1. CASE h <= 9999
          <6>1. (2 * h + 1) * Fine <= 20000 * Fine
            BY <1>1, <5>1
          <6> QED
            BY <1>1, <2>2, <4>1, <6>1 DEF Hundred
        <5> QED
          BY <5>1
      <4> QED
        BY <1>1, <2>2, <4>1 DEF Means, Hundred
    <3>2. Clamped(p) = 10000 * Fine
      BY <1>1, <2>2 DEF Clamped, Hundred
    <3> QED
      BY <1>1, <3>1, <3>2
  <2>3. CASE ~(p < 0) /\ ~(p > Hundred)
    BY <2>3 DEF Clamped, Means
  <2> QED
    BY <2>1, <2>2, <2>3
<1> QED
  BY <1>1, <1>2, RoundedToHundredth

(* The answer is the least sample that enough samples do not exceed: the   *)
(* definition of a percentile, reached without looking for a rank.         *)
IsPercentileOf(s, value, h) ==
    /\ value \in ToSet(s)
    /\ 10000 * Cardinality(NoLarger(s, value)) >= h * Len(s)
    /\ \A w \in ToSet(s) :
          10000 * Cardinality(NoLarger(s, w)) >= h * Len(s) => value <= w

LEMMA RanksOfSorted ==
    ASSUME NEW s \in Seq(Int), NEW r \in 1 .. Len(s)
    PROVE  /\ Cardinality(NoLarger(s, Sorted(s)[r])) >= r
           /\ \A w \in Int : w < Sorted(s)[r] => Cardinality(NoLarger(s, w)) <= r - 1
<1> DEFINE t == Sorted(s)
<1>1. /\ t \in Seq(Int) /\ Len(t) = Len(s) /\ Len(s) \in Nat /\ t[r] \in Int
      /\ \A i, j \in 1 .. Len(s) : i <= j => t[i] <= t[j]
  BY SortedIsSorted
<1> HIDE DEF t
<1>2. IsFiniteSet(1 .. Len(s)) /\ IsFiniteSet(1 .. r) /\ IsFiniteSet(1 .. r - 1)
      /\ Cardinality(1 .. r) = r /\ Cardinality(1 .. r - 1) = r - 1
  <2>1. Cardinality(1 .. r) = IF 1 > r THEN 0 ELSE r - 1 + 1
    BY FS_Interval
  <2>2. Cardinality(1 .. r - 1) = IF 1 > r - 1 THEN 0 ELSE (r - 1) - 1 + 1
    BY FS_Interval
  <2> QED
    BY <2>1, <2>2, FS_Interval
<1>3. \A v \in Int : IsFiniteSet(NoLarger(t, v))
  BY <1>1, <1>2, FS_Subset DEF NoLarger
<1>4. 1 .. r \subseteq NoLarger(t, t[r])
  BY <1>1 DEF NoLarger
<1>5. Cardinality(NoLarger(t, t[r])) >= r
  BY <1>1, <1>2, <1>3, <1>4, FS_Subset
<1>6. ASSUME NEW w \in Int, w < t[r]
      PROVE  Cardinality(NoLarger(t, w)) <= r - 1
  <2>1. NoLarger(t, w) \subseteq 1 .. r - 1
    <3> SUFFICES ASSUME NEW k \in NoLarger(t, w) PROVE k \in 1 .. r - 1
      OBVIOUS
    <3>1. k \in 1 .. Len(s) /\ t[k] <= w /\ t[k] \in Int
      BY <1>1 DEF NoLarger
    <3>2. k < r
      BY <1>1, <1>6, <3>1
    <3> QED
      BY <3>1, <3>2
  <2> QED
    BY <1>2, <2>1, FS_Subset
<1> QED
  BY <1>1, <1>5, <1>6, SortingKeepsShares DEF t

(* What nearest_rank_percentile returns, for any samples and percentage.   *)
THEOREM NearestRank ==
    ASSUME NEW s \in Seq(Int), s # <<>>,
           NEW p \in Int, NEW h \in Nat, h <= 10000, Means(p, h)
    PROVE  IsPercentileOf(s, nearest_rank_percentile(Sorted(s), p), h)
<1>1. DOMAIN s = 1 .. Len(s)
  OBVIOUS
<1>2. PICK m \in Nat : m = Len(s) /\ m > 0
  OBVIOUS
<1>3. PICK r \in Nat :
         /\ r = RankOf(h, m) /\ r >= 1 /\ r <= m /\ 10000 * r >= h * m
         /\ r > 1 => 10000 * (r - 1) < h * m
  <2>1. /\ RankOf(h, m) \in Nat /\ RankOf(h, m) >= 1 /\ RankOf(h, m) <= m
        /\ 10000 * RankOf(h, m) >= h * m
        /\ RankOf(h, m) > 1 => 10000 * (RankOf(h, m) - 1) < h * m
    BY <1>2, RankIsLeast
  <2> QED
    BY <2>1
<1>4. PICK v \in Int : v = Sorted(s)[r] /\ v = s[SampleAt(s, r)]
  <2>1. r \in 1 .. Len(s)
    BY <1>2, <1>3
  <2>2. Sorted(s)[r] = s[SampleAt(s, r)] /\ Sorted(s) \in Seq(Int) /\ Len(Sorted(s)) = Len(s)
    BY <2>1, SortedIsSorted
  <2>3. Sorted(s)[r] \in Int
    BY <2>1, <2>2
  <2> QED
    BY <2>2, <2>3, SMTT(60)
<1>5. nearest_rank_percentile(Sorted(s), p) = v
  <2>1. Len(Sorted(s)) = m /\ Rounded(Clamped(p)) = h /\ m # 0
    BY <1>2, SortedIsSorted, ClampedMeaning
  <2>2. nearest_rank_percentile(Sorted(s), p) = Sorted(s)[RankOf(h, m)]
    BY <1>2, <2>1 DEF nearest_rank_percentile, RankOf
  <2>3. RankOf(h, m) = r /\ Sorted(s)[r] = v
    BY <1>3, <1>4
  <2> QED
    BY <2>2, <2>3
<1>6. v \in ToSet(s)
  BY <1>1, <1>2, <1>3, <1>4, EveryPositionIsTaken, SMTT(60) DEF ToSet
<1>7. /\ Cardinality(NoLarger(s, v)) \in Nat /\ Cardinality(NoLarger(s, v)) >= r
      /\ \A x \in Int : x < v => Cardinality(NoLarger(s, x)) <= r - 1
  <2>1. r \in 1 .. Len(s)
    BY <1>2, <1>3
  <2>2. /\ Cardinality(NoLarger(s, Sorted(s)[r])) >= r
        /\ \A x \in Int : x < Sorted(s)[r] => Cardinality(NoLarger(s, x)) <= r - 1
    BY <2>1, RanksOfSorted
  <2>3. Cardinality(NoLarger(s, v)) \in Nat
    BY SharesAreNumbers
  <2> QED
    BY <1>4, <2>2, <2>3
<1>8. 10000 * Cardinality(NoLarger(s, v)) >= h * m
  <2>1. h * m \in Nat
    BY <1>2
  <2> QED
    BY <1>3, <1>7, <2>1
<1>9. ASSUME NEW w \in ToSet(s), 10000 * Cardinality(NoLarger(s, w)) >= h * m
      PROVE  v <= w
  <2>1. PICK k \in 1 .. Len(s) : w = s[k] /\ w \in Int
    BY <1>1 DEF ToSet
  <2> SUFFICES ASSUME w < v PROVE FALSE
    BY <1>4, <2>1
  <2>2. Cardinality(NoLarger(s, w)) \in Nat /\ Cardinality(NoLarger(s, w)) <= r - 1
    <3>1. Cardinality(NoLarger(s, w)) \in Nat
      BY SharesAreNumbers
    <3>2. Cardinality(NoLarger(s, w)) <= r - 1
      BY <1>7, <2>1
    <3> QED
      BY <3>1, <3>2
  <2>3. Cardinality(NoLarger(s, w)) # 0
    <3>1. k \in NoLarger(s, w)
      BY <2>1 DEF NoLarger
    <3>2. IsFiniteSet(NoLarger(s, w))
      BY SharesAreNumbers
    <3> QED
      BY <3>1, <3>2, FS_EmptySet
  <2>4. r > 1 /\ h * m \in Nat
    BY <1>2, <1>3, <2>2, <2>3, SMTT(60)
  <2> QED
    BY <1>3, <1>9, <2>2, <2>4
<1> QED
  BY <1>2, <1>5, <1>6, <1>8, <1>9 DEF IsPercentileOf

--------------------------------------------------------------------------------
(* The ends of the sorted samples are the percentiles 0 and 100.           *)
LEMMA EndsAreRanks ==
    ASSUME NEW s \in Seq(Int), s # <<>>
    PROVE  /\ IsPercentileOf(s, Sorted(s)[1], 0)
           /\ IsPercentileOf(s, Sorted(s)[Len(s)], 10000)
<1>1. PICK m \in Nat : m = Len(s) /\ m > 0
  OBVIOUS
<1>2. Fine \in Nat \ {0} /\ 0 \in Int /\ Hundred \in Int
  BY PercentagesAssumption DEF Hundred
<1>3. Means(0, 0) /\ Means(Hundred, 10000)
  BY <1>2 DEF Means, Hundred
<1>4. Rounded(Clamped(0)) = 0 /\ Rounded(Clamped(Hundred)) = 10000 /\ Len(Sorted(s)) = m
  BY <1>1, <1>2, <1>3, ClampedMeaning, SortedIsSorted
<1>5. Ceiling(0 * m) = 0 /\ Ceiling(10000 * m) = m
  BY <1>1 DEF Ceiling
<1>6. /\ nearest_rank_percentile(Sorted(s), 0) = Sorted(s)[1]
      /\ nearest_rank_percentile(Sorted(s), Hundred) = Sorted(s)[m]
  BY <1>1, <1>4, <1>5 DEF nearest_rank_percentile
<1>7. /\ IsPercentileOf(s, nearest_rank_percentile(Sorted(s), 0), 0)
      /\ IsPercentileOf(s, nearest_rank_percentile(Sorted(s), Hundred), 10000)
  BY <1>2, <1>3, NearestRank
<1> QED
  BY <1>1, <1>6, <1>7

(* A call after the warm-up adds itself to the timed calls.                *)
LEMMA TimedGrows ==
    ASSUME NEW S, NEW c \in Seq(S), NEW d \in S, NEW w \in Nat, w <= Len(c)
    PROVE  SubSeq(Append(c, d), w + 1, Len(c) + 1) = Append(SubSeq(c, w + 1, Len(c)), d)
<1> DEFINE a == SubSeq(Append(c, d), w + 1, Len(c) + 1)
           b == SubSeq(c, w + 1, Len(c))
<1>1. /\ Append(c, d) \in Seq(S) /\ Len(c) \in Nat
      /\ \A i \in 1 .. Len(c) : Append(c, d)[i] = c[i]
      /\ Append(c, d)[Len(c) + 1] = d
      /\ \A i \in 1 .. Len(c) + 1 : Append(c, d)[i] \in S
  BY AppendProperties
<1>2. /\ a \in Seq(S) /\ Len(a) = Len(c) + 1 - w
      /\ \A i \in 1 .. Len(c) + 1 - w : a[i] = Append(c, d)[w + i]
  <2>1. \A i \in (w + 1) .. (Len(c) + 1) : Append(c, d)[i] \in S
    BY <1>1
  <2>2. /\ a \in Seq(S)
        /\ Len(a) = IF w + 1 <= Len(c) + 1 THEN (Len(c) + 1) - (w + 1) + 1 ELSE 0
        /\ \A i \in 1 .. (Len(c) + 1) - (w + 1) + 1 : a[i] = Append(c, d)[(w + 1) + i - 1]
    BY <1>1, <2>1, SubSeqProperties
  <2> QED
    BY <1>1, <2>2
<1>3. /\ b \in Seq(S) /\ Len(b) = Len(c) - w
      /\ \A i \in 1 .. Len(c) - w : b[i] = c[w + i]
  <2>1. \A i \in (w + 1) .. Len(c) : c[i] \in S
    OBVIOUS
  <2>2. /\ b \in Seq(S)
        /\ Len(b) = IF w + 1 <= Len(c) THEN Len(c) - (w + 1) + 1 ELSE 0
        /\ \A i \in 1 .. Len(c) - (w + 1) + 1 : b[i] = c[(w + 1) + i - 1]
    BY <1>1, <2>1, SubSeqProperties
  <2> QED
    BY <1>1, <2>2
<1> HIDE DEF a, b
<1>4. /\ Append(b, d) \in Seq(S) /\ Len(Append(b, d)) = Len(c) - w + 1
      /\ \A i \in 1 .. Len(c) - w : Append(b, d)[i] = c[w + i]
      /\ Append(b, d)[Len(c) - w + 1] = d
  BY <1>1, <1>3, AppendProperties
<1>5. \A i \in 1 .. Len(c) + 1 - w : a[i] = Append(b, d)[i]
  <2> SUFFICES ASSUME NEW i \in 1 .. Len(c) + 1 - w PROVE a[i] = Append(b, d)[i]
    OBVIOUS
  <2>1. CASE i <= Len(c) - w
    <3>1. i \in 1 .. Len(c) - w /\ w + i \in 1 .. Len(c)
      BY <1>1, <2>1
    <3>2. a[i] = Append(c, d)[w + i] /\ Append(c, d)[w + i] = c[w + i]
      BY <1>1, <1>2, <3>1
    <3>3. Append(b, d)[i] = c[w + i]
      BY <1>4, <3>1
    <3> QED
      BY <3>2, <3>3
  <2>2. CASE i = Len(c) - w + 1
    BY <1>1, <1>2, <1>4, <2>2
  <2>3. i <= Len(c) - w \/ i = Len(c) - w + 1
    <3>1. PICK n \in Nat : n = Len(c)
      BY <1>1
    <3> QED
      BY <3>1
  <2> QED
    BY <2>1, <2>2, <2>3
<1>6. a = Append(b, d)
  BY <1>1, <1>2, <1>4, <1>5, SeqEqual
<1> QED
  BY <1>6 DEF a, b

--------------------------------------------------------------------------------
(* What has been recorded is the timed calls, and what has been returned   *)
(* was computed from all of them: no call follows the reduction.           *)
HarnessInv ==
    /\ measured_iters \in Nat
    /\ calls \in Seq(Durations) /\ samples_ns \in Seq(Durations)
    /\ samples_ns = Timed /\ Len(samples_ns) <= measured_iters
    /\ stats # <<>> =>
          /\ Len(calls) >= WarmupIters /\ Len(samples_ns) = measured_iters
          /\ stats = compute_latency_stats(samples_ns)
    /\ answer # <<>> =>
          /\ stats # <<>> /\ answer.p \in Percentages
          /\ answer.value = nearest_rank_percentile(Sorted(samples_ns), answer.p)

THEOREM HarnessInvariance == Spec => []HarnessInv
<1>1. Init => HarnessInv
  <2> SUFFICES ASSUME Init PROVE HarnessInv
    OBVIOUS
  <2>1. Timed = <<>>
    <3>1. WarmupIters + 1 \in Int /\ Len(calls) = 0
      BY ItersAssumption DEF Init
    <3>2. Len(calls) < WarmupIters + 1
      BY ItersAssumption, <3>1
    <3> QED
      BY <3>1, <3>2, SubSeqEmpty DEF Timed
  <2> QED
    BY <2>1, ItersAssumption DEF Init, HarnessInv
<1>2. HarnessInv /\ [Next]_vars => HarnessInv'
  <2> SUFFICES ASSUME HarnessInv, [Next]_vars PROVE HarnessInv'
    OBVIOUS
  <2>0. PICK n \in Nat : n = Len(calls)
    BY DEF HarnessInv
  <2>1. ASSUME NEW d \in Durations, Warmup(d) PROVE HarnessInv'
    <3>1. /\ calls' \in Seq(Durations) /\ Len(calls') = n + 1
      BY <2>0, <2>1 DEF Warmup, HarnessInv
    <3>2. n < WarmupIters
      BY <2>0, <2>1 DEF Warmup
    <3>3. Timed = <<>>
      BY <2>0, <3>2, ItersAssumption, SubSeqEmpty DEF Timed
    <3>4. Timed' = <<>>
      <4>1. n + 1 < WarmupIters + 1 /\ n + 1 \in Int /\ WarmupIters + 1 \in Int
        BY <3>2, ItersAssumption
      <4> QED
        BY <3>1, <4>1, SubSeqEmpty DEF Timed
    <3>5. stats = <<>> /\ answer = <<>>
      BY <2>0, <3>2, ItersAssumption DEF HarnessInv
    <3> QED
      BY <2>1, <3>1, <3>3, <3>4, <3>5 DEF Warmup, HarnessInv
  <2>2. ASSUME NEW d \in Durations, Measure(d) PROVE HarnessInv'
    <3>1. /\ calls' = Append(calls, d) /\ samples_ns' = Append(samples_ns, d)
          /\ n >= WarmupIters /\ Len(samples_ns) < measured_iters
          /\ measured_iters' = measured_iters /\ stats' = stats /\ answer' = answer
      BY <2>0, <2>2 DEF Measure
    <3>2. /\ calls' \in Seq(Durations) /\ samples_ns' \in Seq(Durations)
          /\ Len(calls') = n + 1 /\ Len(samples_ns') = Len(samples_ns) + 1
      BY <2>0, <3>1 DEF HarnessInv
    <3>3. Timed' = Append(Timed, d)
      BY <2>0, <3>1, <3>2, ItersAssumption, TimedGrows, ZenonT(60) DEF Timed, HarnessInv
    <3>4. PICK k \in Nat : k = Len(samples_ns)
      BY DEF HarnessInv
    <3>5. stats = <<>> /\ answer = <<>>
      BY <3>1, <3>4 DEF HarnessInv
    <3> QED
      BY <3>1, <3>2, <3>3, <3>4, <3>5 DEF HarnessInv
  <2>3. CASE Reduce
    BY <2>3 DEF Reduce, HarnessInv, Timed
  <2>4. ASSUME NEW p \in Percentages, Ask(p) PROVE HarnessInv'
    BY <2>4 DEF Ask, HarnessInv, Timed
  <2>5. CASE UNCHANGED vars
    BY <2>5 DEF vars, HarnessInv, Timed
  <2> QED
    BY <2>1, <2>2, <2>3, <2>4, <2>5 DEF Next
<1> QED
  BY <1>1, <1>2, PTL DEF Spec

(* A percentage asked of what was recorded is answered by the timed calls. *)
LEMMA AnsweredByTimed ==
    ASSUME HarnessInv, samples_ns # <<>>, NEW value, NEW h \in Nat,
           IsPercentileOf(samples_ns, value, h)
    PROVE  IsPercentile(value, h)
<1>1. samples_ns \in Seq(Durations) /\ Timed = samples_ns
  BY DEF HarnessInv
<1>2. DOMAIN samples_ns = 1 .. Len(samples_ns)
  BY <1>1
<1> DEFINE below(v) == {k \in DOMAIN Timed : Timed[k] <= v}
           enough(v) == 10000 * Cardinality(below(v)) >= h * Len(Timed)
<1>3. \A v : below(v) = NoLarger(samples_ns, v)
  BY <1>1, <1>2 DEF NoLarger
<1>4. IsPercentile(value, h) <=> IF Timed = <<>> THEN value = 0
                                 ELSE /\ value \in ToSet(Timed) /\ enough(value)
                                      /\ \A v \in ToSet(Timed) : enough(v) => value <= v
  BY DEF IsPercentile
<1> HIDE DEF below
<1>5. \A v : enough(v) <=> 10000 * Cardinality(NoLarger(samples_ns, v)) >= h * Len(samples_ns)
  BY <1>1, <1>3
<1> HIDE DEF enough
<1>6. /\ value \in ToSet(Timed) /\ enough(value)
      /\ \A v \in ToSet(Timed) : enough(v) => value <= v
  BY <1>1, <1>5 DEF IsPercentileOf
<1> QED
  BY <1>1, <1>4, <1>6

LEMMA DurationsAreNumbers == Seq(Durations) \subseteq Seq(Int)
<1>1. Durations \subseteq Int
  BY DurationsAssumption
<1>2. \A x \in Seq(Durations) : x \in Seq(Int)
  BY <1>1, SeqMonotonic, Zenon
<1> QED
  BY <1>2

LEMMA RankAnswers ==
    ASSUME HarnessInv, NEW p \in Int, NEW h \in Nat, h <= 10000, Means(p, h)
    PROVE  IsPercentile(nearest_rank_percentile(Sorted(samples_ns), p), h)
<1>1. samples_ns \in Seq(Int) /\ Timed = samples_ns
  BY DurationsAreNumbers DEF HarnessInv
<1>2. CASE samples_ns = <<>>
  <2>1. Len(Sorted(samples_ns)) = Len(samples_ns)
    BY <1>1, SortedIsSorted
  <2>2. Len(samples_ns) = 0
    BY <1>2
  <2> QED
    BY <1>1, <1>2, <2>1, <2>2 DEF nearest_rank_percentile, IsPercentile
<1>3. CASE samples_ns # <<>>
  BY <1>1, <1>3, NearestRank, AnsweredByTimed
<1> QED
  BY <1>2, <1>3

(* A caller's percentage is answered by the nearest rank of the hundredth  *)
(* it means, and one out of range by the least or the greatest duration    *)
(* (latency_harness.hpp:59-75).                                            *)
THEOREM AnswersAreRanks == Spec => []AnswerIsNearestRank
<1>1. HarnessInv => AnswerIsNearestRank
  <2> SUFFICES ASSUME HarnessInv, answer # <<>>
               PROVE  LET p == answer.p
                          nearby == {p \div Fine, p \div Fine + 1}
                      IN /\ p < 0 => IsPercentile(answer.value, 0)
                         /\ p > Hundred => IsPercentile(answer.value, 10000)
                         /\ \A h \in nearby \cap 0 .. 10000 :
                               2 * p > (2 * h - 1) * Fine /\ 2 * p < (2 * h + 1) * Fine
                                   => IsPercentile(answer.value, h)
    BY DEF AnswerIsNearestRank
  <2>1. /\ answer.p \in Int
        /\ answer.value = nearest_rank_percentile(Sorted(samples_ns), answer.p)
    BY PercentagesAssumption DEF HarnessInv
  <2>2. \A h \in Nat : h <= 10000 /\ Means(answer.p, h) => IsPercentile(answer.value, h)
    BY <2>1, RankAnswers
  <2>3. /\ answer.p < 0 => IsPercentile(answer.value, 0)
        /\ answer.p > Hundred => IsPercentile(answer.value, 10000)
    BY <2>2 DEF Means
  <2>4. ASSUME NEW nearby, NEW h \in nearby \cap 0 .. 10000,
               2 * answer.p > (2 * h - 1) * Fine, 2 * answer.p < (2 * h + 1) * Fine
        PROVE  IsPercentile(answer.value, h)
    <3>1. h \in Nat /\ h <= 10000
      BY <2>4, h \in 0 .. 10000
    <3>2. Means(answer.p, h)
      BY <2>4 DEF Means
    <3> QED
      BY <2>1, <3>1, <3>2, RankAnswers
  <2> QED
    BY <2>3, <2>4
<1> QED
  BY <1>1, HarnessInvariance, PTL

(* The summary is of all timed calls and of no other, and each percentile  *)
(* in it is the nearest rank (latency_harness.hpp:27-28, 51-56).           *)
THEOREM StatsAreRanks == Spec => []StatsDescribeTimedCalls
<1>1. HarnessInv => StatsDescribeTimedCalls
  <2> SUFFICES ASSUME HarnessInv, stats # <<>>
               PROVE  /\ stats.count = measured_iters /\ Len(Timed) = measured_iters
                      /\ IsPercentile(stats.min_ns, 0) /\ IsPercentile(stats.max_ns, 10000)
                      /\ \A h \in Reported : IsPercentile(stats.percentile[h], h)
    BY DEF StatsDescribeTimedCalls
  <2>1. /\ samples_ns \in Seq(Int) /\ Timed = samples_ns
        /\ Len(samples_ns) = measured_iters /\ stats = compute_latency_stats(samples_ns)
    BY DurationsAreNumbers DEF HarnessInv
  <2>2. /\ stats.count = Len(samples_ns)
        /\ samples_ns = <<>> => stats.min_ns = 0 /\ stats.max_ns = 0
        /\ samples_ns # <<>> => /\ stats.min_ns = Sorted(samples_ns)[1]
                                /\ stats.max_ns = Sorted(samples_ns)[Len(samples_ns)]
        /\ \A h \in Reported :
              stats.percentile[h] = nearest_rank_percentile(Sorted(samples_ns), h * Fine)
    BY <2>1 DEF compute_latency_stats
  <2>3. IsPercentile(stats.min_ns, 0) /\ IsPercentile(stats.max_ns, 10000)
    <3>1. CASE samples_ns = <<>>
      BY <2>1, <2>2, <3>1 DEF IsPercentile
    <3>2. CASE samples_ns # <<>>
      <4>1. /\ IsPercentileOf(samples_ns, stats.min_ns, 0)
            /\ IsPercentileOf(samples_ns, stats.max_ns, 10000)
        BY <2>1, <2>2, <3>2, EndsAreRanks
      <4> QED
        BY <3>2, <4>1, AnsweredByTimed
    <3> QED
      BY <3>1, <3>2
  <2>4. ASSUME NEW h \in Reported PROVE IsPercentile(stats.percentile[h], h)
    <3>1. h \in Nat /\ h <= 10000
      BY DEF Reported
    <3>2. Fine \in Nat \ {0} /\ h * Fine \in Int
      BY <3>1, PercentagesAssumption
    <3>3. Means(h * Fine, h)
      BY <3>1, <3>2 DEF Means
    <3> QED
      BY <2>2, <3>1, <3>2, <3>3, RankAnswers
  <2> QED
    BY <2>1, <2>2, <2>3, <2>4
<1> QED
  BY <1>1, HarnessInvariance, PTL
================================================================================
