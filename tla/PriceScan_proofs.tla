---------------------------- MODULE PriceScan_proofs ----------------------------
(***************************************************************************)
(* The three scans agree, stay within the array and add a total that fits  *)
(* without overflow: for snapshots of any length, whatever their prices    *)
(* and quantities, and for Quantities of any width.                        *)
(*                                                                         *)
(* A sum of the community modules takes the elements of a set in an order  *)
(* it chooses; the first part shows that the order does not matter.  The   *)
(* second is arithmetic modulo the width.  The invariant is then that the  *)
(* lanes, added up, stand for the levels scanned so far, up to a multiple  *)
(* of the width.                                                           *)
(***************************************************************************)
EXTENDS PriceScan, FiniteSetTheorems, WellFoundedInduction, TLAPS

--------------------------------------------------------------------------------
(* Sums over finite sets.  A sum of the community modules takes the        *)
(* elements in an order of its own; g is the function it recurses through. *)
Body(g, f, s) == IF s = {} THEN 0 ELSE f[CHOOSE x \in s : TRUE] + g[s \ {CHOOSE x \in s : TRUE}]
Iterates(g, f, S) == g = [s \in SUBSET S |-> Body(g, f, s)]

LEMMA LeastNatural ==
    ASSUME NEW T, T \subseteq Nat, T # {}
    PROVE  \E k \in T : \A m \in T : k <= m
<1> DEFINE R == {p \in Nat \X Nat : p[1] < p[2]}
<1>1. IsWellFoundedOn(R, Nat)
  <2>1. OpToRel(<, Nat) = R
    BY DEF OpToRel
  <2> QED
    BY <2>1, NatLessThanWellFounded
<1> HIDE DEF R
<1>2. PICK k \in T : \A m \in T : ~ (<<m, k>> \in R)
  BY <1>1, WFMin
<1>3. ASSUME NEW m \in T PROVE k <= m
  <2>1. m \in Nat /\ k \in Nat /\ <<m, k>> \notin R
    BY <1>2
  <2> QED
    BY <2>1 DEF R
<1> QED
  BY <1>3

(* The recursion has a solution for the sets of up to k elements.          *)
UpTo(g, f, S, k) ==
    \A s \in SUBSET S : Cardinality(s) <= k => g[s] = Body(g, f, s)

LEMMA OneLess ==
    ASSUME NEW S, IsFiniteSet(S), NEW s \in SUBSET S, NEW x \in s
    PROVE  /\ IsFiniteSet(s) /\ Cardinality(s) \in Nat /\ Cardinality(s) > 0
           /\ s \ {x} \in SUBSET S /\ Cardinality(s \ {x}) = Cardinality(s) - 1
BY FS_Subset, FS_RemoveElement, FS_CardinalityType, FS_EmptySet

LEMMA RecursionExtends ==
    ASSUME NEW S, IsFiniteSet(S), NEW f, NEW k \in Nat, NEW g, UpTo(g, f, S, k)
    PROVE  \E h : UpTo(h, f, S, k + 1)
<1> DEFINE h == [s \in SUBSET S |-> IF Cardinality(s) <= k THEN g[s] ELSE Body(g, f, s)]
<1>1. ASSUME NEW s \in SUBSET S, Cardinality(s) <= k + 1
      PROVE  h[s] = Body(h, f, s)
  <2>1. CASE s = {}
    <3>1. Cardinality(s) <= k
      BY <2>1, FS_EmptySet
    <3> QED
      BY <2>1, <3>1 DEF UpTo, Body
  <2>2. CASE s # {}
    <3>1. PICK e : e = CHOOSE x \in s : TRUE
      OBVIOUS
    <3>2. e \in s
      BY <2>2, <3>1
    <3>3. /\ Cardinality(s) \in Nat /\ s \ {e} \in SUBSET S
          /\ Cardinality(s \ {e}) = Cardinality(s) - 1
      BY <3>2, OneLess
    <3>4. h[s \ {e}] = g[s \ {e}]
      BY <1>1, <3>3
    <3>5. h[s] = Body(g, f, s)
      BY <1>1 DEF UpTo
    <3> QED
      BY <2>2, <3>1, <3>4, <3>5 DEF Body
  <2> QED
    BY <2>1, <2>2
<1> HIDE DEF h
<1>2. UpTo(h, f, S, k + 1)
  BY <1>1 DEF UpTo
<1> QED
  BY <1>2

LEMMA RecursionSolved ==
    ASSUME NEW S, IsFiniteSet(S), NEW f
    PROVE  \E g : Iterates(g, f, S)
<1> DEFINE Fails == {k \in Nat : ~ \E g : UpTo(g, f, S, k)}
<1>1. Fails = {}
  <2> SUFFICES ASSUME Fails # {} PROVE FALSE
    OBVIOUS
  <2>1. PICK k \in Fails : \A m \in Fails : k <= m
    BY LeastNatural
  <2>2. k # 0
    <3>1. PICK g : g = [s \in SUBSET S |-> 0]
      OBVIOUS
    <3>2. \A s \in SUBSET S : Cardinality(s) <= 0 => s = {}
      BY FS_Subset, FS_CardinalityType, FS_EmptySet
    <3>3. UpTo(g, f, S, 0)
      BY <3>1, <3>2 DEF UpTo, Body
    <3> QED
      BY <3>3, <2>1
  <2>3. k - 1 \in Nat /\ k - 1 \notin Fails
    BY <2>1, <2>2
  <2>4. PICK g : UpTo(g, f, S, k - 1)
    BY <2>3
  <2>5. \E h : UpTo(h, f, S, (k - 1) + 1)
    BY <2>3, <2>4, RecursionExtends
  <2> QED
    BY <2>1, <2>5
<1>2. PICK g : UpTo(g, f, S, Cardinality(S))
  BY <1>1, FS_CardinalityType
<1> DEFINE h == [s \in SUBSET S |-> g[s]]
<1>3. ASSUME NEW s \in SUBSET S
      PROVE  h[s] = Body(h, f, s)
  <2>1. g[s] = Body(g, f, s)
    <3>1. Cardinality(s) <= Cardinality(S)
      BY FS_Subset
    <3> QED
      BY <3>1, <1>2 DEF UpTo
  <2> QED
    BY <2>1 DEF Body
<1>4. Iterates(h, f, S)
  BY <1>3 DEF Iterates
<1> HIDE DEF h
<1> QED
  BY <1>4

(* Any element may be taken out first.                                     *)
LEMMA AnyOrder ==
    ASSUME NEW S, IsFiniteSet(S), NEW f \in [S -> Int], NEW g, Iterates(g, f, S)
    PROVE  /\ g[{}] = 0
           /\ \A s \in SUBSET S : g[s] \in Int /\ \A x \in s : g[s] = f[x] + g[s \ {x}]
<1> DEFINE Good(s) == g[s] \in Int /\ \A x \in s : g[s] = f[x] + g[s \ {x}]
           Fails == {k \in Nat : \E s \in SUBSET S : Cardinality(s) = k /\ ~Good(s)}
<1>1. \A s \in SUBSET S : g[s] = Body(g, f, s)
  BY DEF Iterates
<1>2. Fails = {}
  <2> SUFFICES ASSUME Fails # {} PROVE FALSE
    OBVIOUS
  <2>1. PICK k \in Fails : \A m \in Fails : k <= m
    BY LeastNatural
  <2>2. PICK s \in SUBSET S : Cardinality(s) = k /\ ~Good(s)
    OBVIOUS
  <2>3. \A u \in SUBSET S : Cardinality(u) \in Nat /\ Cardinality(u) < k => Good(u)
    BY <2>1
  <2> HIDE DEF Fails
  <2>4. PICK e : e = CHOOSE x \in s : TRUE
    OBVIOUS
  <2>5. s # {}
    <3>1. CASE s = {}
      <4>1. g[s] = 0
        BY <1>1, <3>1 DEF Body
      <4> QED
        BY <2>2, <3>1, <4>1
    <3> QED
      BY <3>1
  <2>6. e \in s
    BY <2>4, <2>5
  <2>7. g[s] = f[e] + g[s \ {e}]
    BY <1>1, <2>4, <2>5 DEF Body
  <2>8. \A u \in SUBSET S : \A x \in u :
           /\ u \ {x} \in SUBSET S /\ Cardinality(u) \in Nat
           /\ Cardinality(u \ {x}) \in Nat /\ Cardinality(u \ {x}) < Cardinality(u)
    <3> SUFFICES ASSUME NEW u \in SUBSET S, NEW x \in u
                 PROVE  /\ u \ {x} \in SUBSET S /\ Cardinality(u) \in Nat
                        /\ Cardinality(u \ {x}) \in Nat /\ Cardinality(u \ {x}) < Cardinality(u)
      OBVIOUS
    <3>1. PICK c, d : c = Cardinality(u) /\ d = Cardinality(u \ {x})
      OBVIOUS
    <3>2. c \in Nat /\ c > 0 /\ u \ {x} \in SUBSET S /\ d = c - 1
      BY <3>1, OneLess
    <3>3. d \in Nat /\ d < c
      BY <3>2
    <3> QED
      BY <3>1, <3>2, <3>3
  <2>9. \A x \in s : Good(s \ {x})
    BY <2>2, <2>3, <2>8
  <2>10. g[s] \in Int
    <3>1. f[e] \in Int /\ g[s \ {e}] \in Int
      BY <2>6, <2>9
    <3> QED
      BY <2>7, <3>1
  <2>11. ASSUME NEW x \in s PROVE g[s] = f[x] + g[s \ {x}]
    <3>1. CASE x = e
      BY <2>7, <3>1
    <3>2. CASE x # e
      <4>1. x \in s \ {e} /\ e \in s \ {x} /\ (s \ {e}) \ {x} = (s \ {x}) \ {e}
        BY <2>6, <3>2
      <4>2. PICK a, b, c, p, q :
               /\ a = g[s \ {e}] /\ b = g[s \ {x}] /\ c = g[(s \ {x}) \ {e}]
               /\ p = f[x] /\ q = f[e]
        OBVIOUS
      <4>3. a = p + c
        BY <2>6, <2>9, <4>1, <4>2
      <4>4. b = q + c
        BY <2>9, <4>1, <4>2
      <4>5. p \in Int /\ q \in Int
        BY <2>6, <4>2
      <4>6. c \in Int
        <5>1. PICK u : u = s \ {x}
          OBVIOUS
        <5>2. u \in SUBSET S /\ e \in u /\ Cardinality(u) \in Nat /\ Cardinality(u) < k
          BY <2>2, <2>8, <4>1, <5>1
        <5>3. /\ u \ {e} \in SUBSET S
              /\ Cardinality(u \ {e}) \in Nat /\ Cardinality(u \ {e}) < Cardinality(u)
          BY <2>8, <5>2
        <5>4. k \in Nat
          BY <2>2, <2>6, <2>8
        <5>5. Cardinality(u \ {e}) < k
          BY <5>2, <5>3, <5>4
        <5>6. Good(u \ {e})
          BY <2>3, <5>3, <5>5
        <5> QED
          BY <4>2, <5>1, <5>6
      <4>7. q + (p + c) = p + (q + c)
        BY <4>5, <4>6
      <4> QED
        BY <2>7, <4>2, <4>3, <4>4, <4>7
    <3> QED
      BY <3>1, <3>2
  <2> QED
    BY <2>2, <2>10, <2>11
<1>3. ASSUME NEW s \in SUBSET S PROVE Good(s)
  <2>1. Cardinality(s) \in Nat
    BY FS_Subset, FS_CardinalityType
  <2> QED
    BY <2>1, <1>2
<1>4. g[{}] = 0
  BY <1>1 DEF Body
<1> QED
  BY <1>3, <1>4

(* A sum depends on its elements only.                                     *)
LEMMA SumsAgree ==
    ASSUME NEW S, IsFiniteSet(S), NEW f, NEW g, Iterates(g, f, S),
           NEW T, IsFiniteSet(T), NEW e, NEW h, Iterates(h, e, T),
           NEW u, u \subseteq S, u \subseteq T, \A x \in u : f[x] = e[x]
    PROVE  g[u] = h[u]
<1> DEFINE Fails == {k \in Nat : \E s \in SUBSET u : Cardinality(s) = k /\ g[s] # h[s]}
<1>1. \A s \in SUBSET u : g[s] = Body(g, f, s) /\ h[s] = Body(h, e, s)
  BY DEF Iterates
<1>2. IsFiniteSet(u)
  BY FS_Subset
<1>3. Fails = {}
  <2> SUFFICES ASSUME Fails # {} PROVE FALSE
    OBVIOUS
  <2>1. PICK k \in Fails : \A m \in Fails : k <= m
    BY LeastNatural
  <2>2. PICK s \in SUBSET u : Cardinality(s) = k /\ g[s] # h[s]
    OBVIOUS
  <2>3. s # {}
    BY <1>1, <2>2 DEF Body
  <2>4. PICK x : x = CHOOSE y \in s : TRUE
    OBVIOUS
  <2>5. x \in s
    BY <2>3, <2>4
  <2>6. s \ {x} \in SUBSET u /\ Cardinality(s \ {x}) = k - 1 /\ k - 1 \in Nat
    BY <1>2, <2>2, <2>5, OneLess
  <2>7. g[s \ {x}] = h[s \ {x}]
    <3>1. k - 1 \notin Fails
      BY <2>1, <2>6
    <3> QED
      BY <2>6, <3>1
  <2>8. g[s] = f[x] + g[s \ {x}] /\ h[s] = e[x] + h[s \ {x}]
    BY <1>1, <2>3, <2>4 DEF Body
  <2> QED
    BY <2>2, <2>5, <2>7, <2>8
<1>4. Cardinality(u) \in Nat
  BY <1>2, FS_CardinalityType
<1> QED
  BY <1>3, <1>4

(* What a sum is, and how it grows by one element.                         *)
SumIs(f, S, v) == \E g : Iterates(g, f, S) /\ v = g[S]

LEMMA SumOfNone ==
    ASSUME NEW f, NEW v, SumIs(f, {}, v)
    PROVE  v = 0
BY DEF SumIs, Iterates, Body

IntegerValued(f, S) == f \in [S -> Int]
TakenOut(g, f, S, x) == g[S] \in Int /\ g[S \ {x}] \in Int /\ g[S] = f[x] + g[S \ {x}]

LEMMA ElementTaken ==
    ASSUME NEW S, IsFiniteSet(S), NEW f, IntegerValued(f, S), NEW g, Iterates(g, f, S), NEW x \in S
    PROVE  TakenOut(g, f, S, x)
<1>1. \A s \in SUBSET S : g[s] \in Int /\ \A y \in s : g[s] = f[y] + g[s \ {y}]
  BY AnyOrder DEF IntegerValued
<1> QED
  BY <1>1 DEF TakenOut

LEMMA SumOfMore ==
    ASSUME NEW S, IsFiniteSet(S), NEW x, x \notin S, NEW T, T = S \cup {x},
           NEW f, f \in [T -> Int], NEW v, SumIs(f, T, v),
           NEW e, NEW w, SumIs(e, S, w), \A y \in S : e[y] = f[y]
    PROVE  v \in Int /\ w \in Int /\ v = f[x] + w
<1>1. PICK U : U = T
  OBVIOUS
<1>2. IsFiniteSet(U) /\ IntegerValued(f, U) /\ SumIs(f, U, v)
  BY <1>1, FS_AddElement DEF IntegerValued
<1>3. PICK g : Iterates(g, f, U) /\ v = g[U]
  BY <1>2 DEF SumIs
<1>4. PICK h : Iterates(h, e, S) /\ w = h[S]
  BY DEF SumIs
<1>5. g[S] = h[S]
  BY <1>1, <1>2, <1>3, <1>4, SumsAgree
<1>6. U \ {x} = S /\ x \in U
  BY <1>1
<1>7. TakenOut(g, f, U, x)
  BY <1>2, <1>3, <1>6, ElementTaken
<1> QED
  BY <1>3, <1>4, <1>5, <1>6, <1>7 DEF TakenOut

--------------------------------------------------------------------------------
(* Wrapped numbers: equal up to multiples of the width of a Quantity.      *)
Width == 2 * (MaxQuantity + 1)
Same(a, b) == \E k \in Int : a = b + Width * k

LEMMA MultipleOrder ==
    ASSUME NEW d \in Nat \ {0}, NEW a \in Int, NEW b \in Int, d * a < d * b + d
    PROVE  a <= b
<1>1. SUFFICES ASSUME a >= b + 1 PROVE FALSE
  BY SMT
<1>2. d * a >= d * (b + 1)
  BY <1>1, SMT
<1> QED
  BY <1>2, SMT

LEMMA SameIsEquivalence ==
    ASSUME NEW a \in Int, NEW b \in Int, NEW c \in Int
    PROVE  /\ Same(a, a)
           /\ Same(a, b) => Same(b, a)
           /\ Same(a, b) /\ Same(b, c) => Same(a, c)
<1>0. Width \in Int
  BY QuantityAssumption DEF Width
<1>1. Same(a, a)
  <2>1. a = a + Width * 0
    BY <1>0
  <2> QED
    BY <2>1 DEF Same
<1>2. ASSUME Same(a, b) PROVE Same(b, a)
  <2>1. PICK k \in Int : a = b + Width * k
    BY <1>2 DEF Same
  <2>2. b = a + Width * (-k) /\ -k \in Int
    BY <1>0, <2>1
  <2> QED
    BY <2>2 DEF Same
<1>3. ASSUME Same(a, b), Same(b, c) PROVE Same(a, c)
  <2>1. PICK k \in Int : a = b + Width * k
    BY <1>3 DEF Same
  <2>2. PICK m \in Int : b = c + Width * m
    BY <1>3 DEF Same
  <2>3. a = c + Width * (m + k) /\ m + k \in Int
    BY <1>0, <2>1, <2>2
  <2> QED
    BY <2>3 DEF Same
<1> QED
  BY <1>1, <1>2, <1>3

LEMMA SameSum ==
    ASSUME NEW a \in Int, NEW b \in Int, NEW c \in Int, NEW d \in Int, Same(a, b), Same(c, d)
    PROVE  Same(a + c, b + d)
<1>0. Width \in Int
  BY QuantityAssumption DEF Width
<1>1. PICK k \in Int : a = b + Width * k
  BY DEF Same
<1>2. PICK m \in Int : c = d + Width * m
  BY DEF Same
<1>3. a + c = b + d + Width * (k + m) /\ k + m \in Int
  BY <1>0, <1>1, <1>2
<1> QED
  BY <1>3 DEF Same

LEMMA WrapIsSame ==
    ASSUME NEW a \in Int
    PROVE  Wrap(a) \in Quantity /\ Same(Wrap(a), a)
<1>1. Width \in Nat \ {0}
  BY QuantityAssumption DEF Width
<1>2. PICK x : x = a + MaxQuantity + 1
  OBVIOUS
<1>3. x \in Int
  BY <1>2, QuantityAssumption
<1>4. x % Width \in 0 .. Width - 1 /\ x \div Width \in Int /\ x = Width * (x \div Width) + (x % Width)
  BY <1>1, <1>3
<1>5. Wrap(a) = (x % Width) - MaxQuantity - 1
  BY <1>2 DEF Wrap, Width
<1>6. Wrap(a) \in Quantity
  BY <1>4, <1>5, QuantityAssumption DEF Width, Quantity
<1>7. Wrap(a) = a + Width * (-(x \div Width)) /\ -(x \div Width) \in Int
  BY <1>1, <1>2, <1>4, <1>5, QuantityAssumption
<1> QED
  BY <1>6, <1>7 DEF Same

(* Two Quantities that are the same modulo the width are equal.            *)
LEMMA SameInWidth ==
    ASSUME NEW a \in Quantity, NEW b \in Quantity, Same(a, b)
    PROVE  a = b
<1>0. Width \in Nat \ {0}
  BY QuantityAssumption DEF Width
<1>1. PICK k \in Int : a = b + Width * k
  BY DEF Same
<1>2. Width * k < Width * 0 + Width /\ Width * 0 < Width * k + Width
  BY <1>0, <1>1, QuantityAssumption DEF Width, Quantity
<1>3. k <= 0 /\ 0 <= k
  BY <1>0, <1>2, MultipleOrder
<1>4. k = 0
  BY <1>3
<1> QED
  BY <1>0, <1>1, <1>4 DEF Quantity

LEMMA WrapOfSame ==
    ASSUME NEW a \in Int, NEW b \in Int
    PROVE  Same(a, b) <=> Wrap(a) = Wrap(b)
<1>1. PICK v, w : v = Wrap(a) /\ w = Wrap(b)
  OBVIOUS
<1>2. /\ v \in Quantity /\ w \in Quantity /\ Same(v, a) /\ Same(w, b)
      /\ v \in Int /\ w \in Int
  BY <1>1, WrapIsSame, QuantityAssumption DEF Quantity
<1>3. ASSUME Same(a, b) PROVE v = w
  <2>1. Same(v, b)
    BY <1>2, <1>3, SameIsEquivalence
  <2>2. Same(b, w)
    BY <1>2, SameIsEquivalence
  <2>3. Same(v, w)
    BY <1>2, <2>1, <2>2, SameIsEquivalence
  <2> QED
    BY <1>2, <2>3, SameInWidth
<1>4. ASSUME v = w PROVE Same(a, b)
  <2>1. Same(a, v)
    BY <1>2, SameIsEquivalence
  <2>2. Same(v, b)
    BY <1>2, <1>4
  <2> QED
    BY <1>2, <2>1, <2>2, SameIsEquivalence
<1> QED
  BY <1>1, <1>3, <1>4

--------------------------------------------------------------------------------
(* The index of the vector loop is a multiple of the width, and never past *)
(* the last full vector; the scalar loop starts there.                     *)
IndexInv ==
    /\ levels \in Seq(LevelChoices)
    /\ isa \in DOMAIN LaneCount
    /\ i \in Nat
    /\ pc = "vector" => i % LaneCount[isa] = 0 /\ i <= VecEnd
    /\ pc # "vector" => i <= n
    /\ pc = "done" => i = n

(* The last full vector ends within the array.                             *)
LEMMA FullVectors ==
    ASSUME levels \in Seq(LevelChoices), isa \in DOMAIN LaneCount
    PROVE  /\ n \in Nat /\ VecEnd \in Nat /\ VecEnd <= n
           /\ VecEnd % LaneCount[isa] = 0
<1>1. n \in Nat
  BY DEF n
<1>2. LaneCount[isa] = 1 \/ LaneCount[isa] = 2 \/ LaneCount[isa] = 4
  BY DEF LaneCount
<1> QED
  BY <1>1, <1>2 DEF VecEnd

(* A vector that begins before the last full one's end is a full one.      *)
LEMMA NextVector ==
    ASSUME NEW L \in {1, 2, 4}, NEW a \in Nat, NEW b \in Nat,
           a % L = 0, b % L = 0, a < b
    PROVE  a + L <= b /\ (a + L) % L = 0
OBVIOUS

LEMMA IndexInitially == Init => IndexInv
<1> SUFFICES ASSUME Init PROVE IndexInv
  OBVIOUS
<1>1. levels \in Seq(LevelChoices)
  BY LimitsAssumption DEF Init
<1>2. isa \in DOMAIN LaneCount /\ i = 0 /\ pc \in {"vector", "tail"}
  BY DEF Init
<1>3. 0 % LaneCount[isa] = 0
  BY <1>2 DEF LaneCount
<1> QED
  BY <1>1, <1>2, <1>3, FullVectors DEF IndexInv

LEMMA IndexStep ==
    ASSUME IndexInv, [Next]_vars
    PROVE  IndexInv'
<1>1. levels \in Seq(LevelChoices) /\ isa \in DOMAIN LaneCount /\ i \in Nat
  BY DEF IndexInv
<1>2. n \in Nat /\ VecEnd \in Nat /\ VecEnd <= n /\ VecEnd % LaneCount[isa] = 0
  BY <1>1, FullVectors
<1>3. UNCHANGED arguments
  BY DEF Next, VectorStep, Reduce, TailStep, Return, vars, arguments
<1>4. n' = n /\ VecEnd' = VecEnd /\ levels' = levels /\ isa' = isa
  BY <1>3 DEF n, VecEnd, arguments
<1>5. CASE VectorStep
  <2>1. pc = "vector" /\ pc' = pc /\ i < VecEnd /\ i' = i + LaneCount[isa] /\ i % LaneCount[isa] = 0
    BY <1>5 DEF VectorStep, IndexInv
  <2>2. LaneCount[isa] \in {1, 2, 4}
    BY <1>1 DEF LaneCount
  <2>3. i' <= VecEnd /\ i' % LaneCount[isa] = 0 /\ i' \in Nat
    BY <1>1, <1>2, <2>1, <2>2, NextVector
  <2> QED
    BY <1>1, <1>4, <2>1, <2>3 DEF IndexInv
<1>6. CASE Reduce
  BY <1>1, <1>2, <1>4, <1>6 DEF Reduce, IndexInv
<1>7. CASE TailStep
  BY <1>1, <1>2, <1>4, <1>7 DEF TailStep, IndexInv
<1>8. CASE Return
  BY <1>1, <1>2, <1>4, <1>8 DEF Return, IndexInv
<1>9. CASE UNCHANGED vars
  BY <1>4, <1>9 DEF vars, IndexInv
<1> QED
  BY <1>5, <1>6, <1>7, <1>8, <1>9 DEF Next

LEMMA VectorInBounds ==
    ASSUME IndexInv, pc = "vector", i < VecEnd
    PROVE  i + LaneCount[isa] <= n
<1>1. /\ LaneCount[isa] \in {1, 2, 4} /\ i \in Nat /\ i % LaneCount[isa] = 0
      /\ n \in Nat /\ VecEnd \in Nat /\ VecEnd <= n /\ VecEnd % LaneCount[isa] = 0
  BY FullVectors DEF IndexInv, LaneCount
<1>2. i + LaneCount[isa] <= VecEnd
  BY <1>1, NextVector
<1> QED
  BY <1>1, <1>2

(* A vector load stays in bounds, for every length of the snapshot and in  *)
(* every build (price_scan.cpp:61, 120).                                   *)
THEOREM LoadsStayInBounds == Spec => []LoadsInBounds
<1>1. IndexInv => LoadsInBounds
  BY VectorInBounds DEF LoadsInBounds
<1> QED
  BY <1>1, IndexInitially, IndexStep, PTL DEF Spec

(* A scan that returns has looked at every level: neither loop leaves one  *)
(* to the other that the other does not take.                              *)
THEOREM EveryLevelIsScanned == Spec => [](pc = "done" => i = n)
<1>1. IndexInv => (pc = "done" => i = n)
  BY DEF IndexInv
<1> QED
  BY <1>1, IndexInitially, IndexStep, PTL DEF Spec

--------------------------------------------------------------------------------
(* The sums of the specification.                                          *)
IsLaneVector(v) == v \in [Lanes -> Int]

LEMMA LanesAdded ==
    ASSUME isa \in DOMAIN LaneCount, NEW v, IsLaneVector(v)
    PROVE  /\ LaneCount[isa] = 1 => LaneSum(v) = v[0]
           /\ LaneCount[isa] = 2 => LaneSum(v) = v[0] + v[1]
           /\ LaneCount[isa] = 4 => LaneSum(v) = v[0] + v[1] + v[2] + v[3]
<1>1. LaneCount[isa] \in {1, 2, 4}
  BY DEF LaneCount
<1>2. IsFiniteSet(Lanes)
  BY <1>1, FS_Interval DEF Lanes
<1>3. PICK solved : Iterates(solved, v, Lanes)
  BY <1>2, RecursionSolved
<1>4. PICK g : g = CHOOSE h : Iterates(h, v, Lanes)
  OBVIOUS
<1>5. Iterates(g, v, Lanes)
  BY <1>3, <1>4
<1>6. LaneSum(v) = g[Lanes]
  BY <1>4 DEF LaneSum, MapThenSumSet, MapThenFoldSet, Iterates, Body
<1>7. g[{}] = 0 /\ \A s \in SUBSET Lanes : \A x \in s : g[s] = v[x] + g[s \ {x}]
  BY <1>2, <1>5, AnyOrder DEF IsLaneVector
<1>8. CASE LaneCount[isa] = 1
  <2>1. Lanes = {0} /\ {0} \ {0} = {}
    BY <1>8 DEF Lanes
  <2>2. g[Lanes] = v[0] + g[{}]
    BY <1>7, <2>1
  <2>3. v[0] \in Int
    BY <2>1 DEF IsLaneVector
  <2> QED
    BY <1>6, <1>7, <1>8, <2>2, <2>3
<1>9. CASE LaneCount[isa] = 2
  <2>1. Lanes = {0, 1} /\ {0, 1} \ {1} = {0} /\ {0} \ {0} = {}
    BY <1>9 DEF Lanes
  <2>2. g[Lanes] = v[1] + g[{0}] /\ g[{0}] = v[0] + g[{}]
    BY <1>7, <2>1
  <2>3. v[0] \in Int /\ v[1] \in Int
    BY <2>1 DEF IsLaneVector
  <2> QED
    BY <1>6, <1>7, <1>9, <2>2, <2>3
<1>10. CASE LaneCount[isa] = 4
  <2>1. /\ Lanes = {0, 1, 2, 3} /\ {0, 1, 2, 3} \ {3} = {0, 1, 2}
        /\ {0, 1, 2} \ {2} = {0, 1} /\ {0, 1} \ {1} = {0} /\ {0} \ {0} = {}
    BY <1>10 DEF Lanes
  <2>2. /\ g[Lanes] = v[3] + g[{0, 1, 2}] /\ g[{0, 1, 2}] = v[2] + g[{0, 1}]
        /\ g[{0, 1}] = v[1] + g[{0}] /\ g[{0}] = v[0] + g[{}]
    <3>1. \A s \in SUBSET {0, 1, 2, 3} : \A x \in s : g[s] = v[x] + g[s \ {x}]
      BY <1>7, <2>1
    <3>2. g[{0, 1, 2, 3}] = v[3] + g[{0, 1, 2, 3} \ {3}]
      BY <3>1
    <3>3. g[{0, 1, 2}] = v[2] + g[{0, 1, 2} \ {2}]
      BY <3>1
    <3>4. g[{0, 1}] = v[1] + g[{0, 1} \ {1}] /\ g[{0}] = v[0] + g[{0} \ {0}]
      BY <3>1
    <3> QED
      BY <2>1, <3>2, <3>3, <3>4
  <2>3. v[0] \in Int /\ v[1] \in Int /\ v[2] \in Int /\ v[3] \in Int
    BY <2>1 DEF IsLaneVector
  <2> QED
    BY <1>6, <1>7, <1>10, <2>2, <2>3
<1> QED
  BY <1>1, <1>8, <1>9, <1>10

QuantityAt(S) == [m \in S |-> levels[m].quantity]

LEMMA QuantitiesAdded ==
    ASSUME NEW S, IsFiniteSet(S)
    PROVE  SumIs(QuantityAt(S), S, QuantityOf(S))
<1> DEFINE Solves(h) == h = [s \in SUBSET S |-> IF s = {} THEN 0
                               ELSE levels[CHOOSE x \in s : TRUE].quantity + h[s \ {CHOOSE x \in s : TRUE}]]
<1>1. ASSUME NEW h PROVE Iterates(h, QuantityAt(S), S) <=> Solves(h)
  <2>1. ASSUME NEW s \in SUBSET S
        PROVE  Body(h, QuantityAt(S), s) = IF s = {} THEN 0
                 ELSE levels[CHOOSE x \in s : TRUE].quantity + h[s \ {CHOOSE x \in s : TRUE}]
    <3>1. CASE s = {}
      BY <3>1 DEF Body
    <3>2. CASE s # {}
      <4>1. PICK e : e = CHOOSE x \in s : TRUE
        OBVIOUS
      <4>2. e \in S
        BY <3>2, <4>1
      <4> QED
        BY <3>2, <4>1, <4>2 DEF Body, QuantityAt
    <3> QED
      BY <3>1, <3>2
  <2> QED
    BY <2>1 DEF Iterates
<1>2. PICK solved : Iterates(solved, QuantityAt(S), S)
  BY RecursionSolved
<1>3. PICK g : g = CHOOSE h : Solves(h)
  OBVIOUS
<1>4. QuantityOf(S) = g[S]
  BY <1>3 DEF QuantityOf, MapThenSumSet, MapThenFoldSet
<1> HIDE DEF Solves
<1>5. Iterates(g, QuantityAt(S), S)
  <2>1. Solves(solved)
    BY <1>1, <1>2
  <2>2. Solves(g)
    BY <1>3, <2>1
  <2> QED
    BY <1>1, <2>2
<1> QED
  BY <1>4, <1>5 DEF SumIs


LEMMA QuantityOfMore ==
    ASSUME NEW S, IsFiniteSet(S), NEW m, m \notin S, \A k \in S \cup {m} : levels[k].quantity \in Int
    PROVE  /\ QuantityOf(S) \in Int
           /\ QuantityOf(S \cup {m}) = levels[m].quantity + QuantityOf(S)
<1>1. IsFiniteSet(S \cup {m})
  BY FS_AddElement
<1>2. SumIs(QuantityAt(S), S, QuantityOf(S)) /\ SumIs(QuantityAt(S \cup {m}), S \cup {m}, QuantityOf(S \cup {m}))
  BY <1>1, QuantitiesAdded
<1>3. /\ QuantityAt(S \cup {m}) \in [S \cup {m} -> Int]
      /\ QuantityAt(S \cup {m})[m] = levels[m].quantity
      /\ \A k \in S : QuantityAt(S)[k] = QuantityAt(S \cup {m})[k]
  BY DEF QuantityAt
<1>4. PICK f, e, v, w, T : /\ T = S \cup {m} /\ f = QuantityAt(T) /\ e = QuantityAt(S)
                           /\ v = QuantityOf(T) /\ w = QuantityOf(S)
  OBVIOUS
<1>5. /\ T = S \cup {m} /\ SumIs(e, S, w) /\ SumIs(f, T, v) /\ f \in [T -> Int]
      /\ f[m] = levels[m].quantity /\ \A k \in S : e[k] = f[k]
  BY <1>2, <1>3, <1>4
<1>6. w \in Int /\ v \in Int /\ v = f[m] + w
  BY <1>5, SumOfMore
<1> QED
  BY <1>4, <1>5, <1>6

--------------------------------------------------------------------------------
(* How the crossable levels grow with the levels scanned.                  *)
ArgumentsTyped == levels \in Seq(LevelChoices) /\ limit_price \in Int /\ side \in Sides

Added(m) == IF AtOrBetter(levels[m].price) THEN levels[m].quantity ELSE 0
Counted(m) == IF AtOrBetter(levels[m].price) THEN 1 ELSE 0
Total(k) == QuantityOf(Crossable(k))
Number(k) == Cardinality(Crossable(k))

LEMMA LevelTyped ==
    ASSUME ArgumentsTyped, NEW m \in 1 .. n
    PROVE  /\ levels[m].price \in Int /\ levels[m].quantity \in Quantity
           /\ levels[m].quantity \in Int /\ Added(m) \in Int /\ Counted(m) \in Nat
<1>1. levels[m] \in LevelChoices
  BY DEF ArgumentsTyped, n
<1>2. levels[m].price \in Int /\ levels[m].quantity \in Quantity /\ levels[m].quantity \in Int
  BY <1>1, LevelsAssumption, QuantityAssumption DEF Quantity
<1> QED
  BY <1>2 DEF Added, Counted

LEMMA CrossableFinite ==
    ASSUME NEW k \in Nat
    PROVE  IsFiniteSet(Crossable(k)) /\ Cardinality(Crossable(k)) \in 0 .. k
<1>1. IsFiniteSet(1 .. k) /\ Cardinality(1 .. k) = k
  BY FS_Interval
<1>2. Crossable(k) \subseteq 1 .. k
  BY DEF Crossable
<1> QED
  BY <1>1, <1>2, FS_Subset, FS_CardinalityType

LEMMA ScannedNone == Total(0) = 0 /\ Number(0) = 0
<1>1. Crossable(0) = {}
  BY DEF Crossable
<1>2. QuantityOf({}) = 0
  BY QuantitiesAdded, SumOfNone, FS_EmptySet
<1> QED
  BY <1>1, <1>2, FS_EmptySet DEF Total, Number

LEMMA ScannedMore ==
    ASSUME ArgumentsTyped, NEW k \in Nat, k < n
    PROVE  /\ Total(k) \in Int /\ Number(k) \in 0 .. k
           /\ Total(k + 1) = Total(k) + Added(k + 1)
           /\ Number(k + 1) = Number(k) + Counted(k + 1)
<1>0. n \in Nat /\ k + 1 \in 1 .. n
  BY DEF ArgumentsTyped, n
<1>1. IsFiniteSet(Crossable(k)) /\ Cardinality(Crossable(k)) \in 0 .. k /\ k + 1 \notin Crossable(k)
  BY CrossableFinite DEF Crossable
<1>2. Crossable(k) \cup {k + 1} \subseteq 1 .. n
  BY <1>0 DEF Crossable
<1>3. \A m \in Crossable(k) \cup {k + 1} : levels[m].quantity \in Int
  BY <1>2, LevelTyped
<1>4. /\ QuantityOf(Crossable(k)) \in Int
      /\ QuantityOf(Crossable(k) \cup {k + 1}) = levels[k + 1].quantity + QuantityOf(Crossable(k))
  BY <1>1, <1>3, QuantityOfMore
<1>5. Cardinality(Crossable(k) \cup {k + 1}) = Cardinality(Crossable(k)) + 1
  BY <1>1, FS_AddElement
<1>6. \A m \in 1 .. n : AtOrBetter(levels[m].price) <=> \/ side = "Buy" /\ levels[m].price <= limit_price
                                                        \/ side = "Sell" /\ levels[m].price >= limit_price
  BY DEF AtOrBetter, ArgumentsTyped, Sides
<1>7. CASE AtOrBetter(levels[k + 1].price)
  <2>1. Crossable(k + 1) = Crossable(k) \cup {k + 1}
    BY <1>0, <1>6, <1>7 DEF Crossable
  <2> QED
    <3>1. /\ Total(k + 1) = levels[k + 1].quantity + Total(k) /\ Number(k + 1) = Number(k) + 1
          /\ Added(k + 1) = levels[k + 1].quantity /\ Counted(k + 1) = 1
      BY <1>4, <1>5, <1>7, <2>1 DEF Total, Number, Added, Counted
    <3>2. Total(k) \in Int /\ Number(k) \in 0 .. k /\ levels[k + 1].quantity \in Int
      BY <1>1, <1>3, <1>4 DEF Total, Number
    <3> QED
      BY <3>1, <3>2
<1>8. CASE ~AtOrBetter(levels[k + 1].price)
  <2>1. Crossable(k + 1) = Crossable(k)
    BY <1>0, <1>6, <1>8 DEF Crossable
  <2> QED
    <3>1. Total(k + 1) = Total(k) /\ Number(k + 1) = Number(k) /\ Added(k + 1) = 0 /\ Counted(k + 1) = 0
      BY <1>8, <2>1 DEF Total, Number, Added, Counted
    <3>2. Total(k) \in Int /\ Number(k) \in 0 .. k
      BY <1>1, <1>4 DEF Total, Number
    <3> QED
      BY <3>1, <3>2
<1> QED
  BY <1>7, <1>8

LEMMA TotalTyped ==
    ASSUME ArgumentsTyped, NEW k \in 0 .. n
    PROVE  Total(k) \in Int /\ Number(k) \in 0 .. k
<1>0. n \in Nat
  BY DEF ArgumentsTyped, n
<1>1. CASE k = 0
  BY <1>1, ScannedNone
<1>2. CASE k # 0
  <2>1. k - 1 \in Nat /\ k - 1 < n /\ (k - 1) + 1 = k /\ k \in 1 .. n
    BY <1>0, <1>2
  <2>2. /\ Total(k - 1) \in Int /\ Number(k - 1) \in 0 .. k - 1
        /\ Total((k - 1) + 1) = Total(k - 1) + Added((k - 1) + 1)
        /\ Number((k - 1) + 1) = Number(k - 1) + Counted((k - 1) + 1)
    BY <2>1, ScannedMore
  <2>3. Added(k) \in Int /\ Counted(k) \in {0, 1}
    BY <2>1, LevelTyped DEF Counted
  <2> QED
    BY <1>0, <2>1, <2>2, <2>3
<1> QED
  BY <1>1, <1>2


--------------------------------------------------------------------------------
(* What one iteration of a vector loop adds: the next levels, one per      *)
(* lane, each with its own quantity.                                       *)
LaneAdds(j) == IF Mask(LanePrice(j)) THEN LaneQuantity(j) ELSE 0
LaneCounts(j) == IF Mask(LanePrice(j)) THEN 1 ELSE 0

LEMMA WordsOfLevel ==
    ASSUME NEW m \in Nat
    PROVE  Word(2 * m) = levels[m + 1].price /\ Word(2 * m + 1) = levels[m + 1].quantity
<1>1. /\ (2 * m) % 2 = 0 /\ (2 * m) \div 2 = m
      /\ (2 * m + 1) % 2 = 1 /\ (2 * m + 1) \div 2 = m
  OBVIOUS
<1> QED
  BY <1>1 DEF Word

LEMMA LaneHoldsLevel ==
    ASSUME ArgumentsTyped, NEW j, NEW m \in 1 .. n,
           LanePrice(j) = levels[m].price, LaneQuantity(j) = levels[m].quantity
    PROVE  LaneAdds(j) = Added(m) /\ LaneCounts(j) = Counted(m)
<1>1. levels[m].price \in Int /\ limit_price \in Int
  BY LevelTyped DEF ArgumentsTyped
<1>2. Mask(levels[m].price) <=> AtOrBetter(levels[m].price)
  BY <1>1 DEF Mask, NotWorse, AtOrBetter
<1> QED
  BY <1>2 DEF LaneAdds, LaneCounts, Added, Counted

LEMMA LanesOfNeon ==
    ASSUME ArgumentsTyped, isa = "neon", i \in Nat, i + 2 <= n
    PROVE  /\ LaneAdds(0) = Added(i + 1) /\ LaneCounts(0) = Counted(i + 1)
           /\ LaneAdds(1) = Added(i + 2) /\ LaneCounts(1) = Counted(i + 2)
<1>0. n \in Nat /\ i + 1 \in 1 .. n /\ i + 2 \in 1 .. n /\ i + 1 \in Nat /\ (i + 1) + 1 = i + 2
  BY DEF ArgumentsTyped, n
<1>1. /\ Word(2 * i) = levels[i + 1].price /\ Word(2 * i + 1) = levels[i + 1].quantity
      /\ Word(2 * (i + 1)) = levels[i + 2].price /\ Word(2 * (i + 1) + 1) = levels[i + 2].quantity
  BY <1>0, WordsOfLevel
<1>2. /\ 2 * i + 2 * 0 = 2 * i /\ 2 * i + (2 * 0 + 1) = 2 * i + 1
      /\ 2 * i + 2 * 1 = 2 * (i + 1) /\ 2 * i + (2 * 1 + 1) = 2 * (i + 1) + 1
  OBVIOUS
<1>3. /\ LanePrice(0) = levels[i + 1].price /\ LaneQuantity(0) = levels[i + 1].quantity
      /\ LanePrice(1) = levels[i + 2].price /\ LaneQuantity(1) = levels[i + 2].quantity
  BY <1>1, <1>2 DEF LanePrice, LaneQuantity
<1> QED
  BY <1>0, <1>3, LaneHoldsLevel

LEMMA LanesOfAvx2 ==
    ASSUME ArgumentsTyped, isa = "avx2", i \in Nat, i + 4 <= n
    PROVE  /\ LaneAdds(0) = Added(i + 1) /\ LaneCounts(0) = Counted(i + 1)
           /\ LaneAdds(1) = Added(i + 3) /\ LaneCounts(1) = Counted(i + 3)
           /\ LaneAdds(2) = Added(i + 2) /\ LaneCounts(2) = Counted(i + 2)
           /\ LaneAdds(3) = Added(i + 4) /\ LaneCounts(3) = Counted(i + 4)
<1>0. /\ n \in Nat /\ i + 1 \in 1 .. n /\ i + 2 \in 1 .. n /\ i + 3 \in 1 .. n /\ i + 4 \in 1 .. n
      /\ i + 1 \in Nat /\ i + 2 \in Nat /\ i + 3 \in Nat
      /\ (i + 1) + 1 = i + 2 /\ (i + 2) + 1 = i + 3 /\ (i + 3) + 1 = i + 4
  BY DEF ArgumentsTyped, n
<1>1. /\ Word(2 * i) = levels[i + 1].price /\ Word(2 * i + 1) = levels[i + 1].quantity
      /\ Word(2 * (i + 1)) = levels[i + 2].price /\ Word(2 * (i + 1) + 1) = levels[i + 2].quantity
      /\ Word(2 * (i + 2)) = levels[i + 3].price /\ Word(2 * (i + 2) + 1) = levels[i + 3].quantity
      /\ Word(2 * (i + 3)) = levels[i + 4].price /\ Word(2 * (i + 3) + 1) = levels[i + 4].quantity
  BY <1>0, WordsOfLevel
<1>2. /\ UnpackedFrom(0, 0) = 0 /\ UnpackedFrom(0, 1) = 1
      /\ UnpackedFrom(1, 0) = 4 /\ UnpackedFrom(1, 1) = 5
      /\ UnpackedFrom(2, 0) = 2 /\ UnpackedFrom(2, 1) = 3
      /\ UnpackedFrom(3, 0) = 6 /\ UnpackedFrom(3, 1) = 7
  BY DEF UnpackedFrom
<1>3. /\ 2 * i + 0 = 2 * i
      /\ 2 * i + 4 = 2 * (i + 2) /\ 2 * i + 5 = 2 * (i + 2) + 1
      /\ 2 * i + 2 = 2 * (i + 1) /\ 2 * i + 3 = 2 * (i + 1) + 1
      /\ 2 * i + 6 = 2 * (i + 3) /\ 2 * i + 7 = 2 * (i + 3) + 1
  OBVIOUS
<1>4. /\ LanePrice(0) = levels[i + 1].price /\ LaneQuantity(0) = levels[i + 1].quantity
      /\ LanePrice(1) = levels[i + 3].price /\ LaneQuantity(1) = levels[i + 3].quantity
      /\ LanePrice(2) = levels[i + 2].price /\ LaneQuantity(2) = levels[i + 2].quantity
      /\ LanePrice(3) = levels[i + 4].price /\ LaneQuantity(3) = levels[i + 4].quantity
  BY <1>1, <1>2, <1>3 DEF LanePrice, LaneQuantity
<1> QED
  BY <1>0, <1>4, LaneHoldsLevel

(* What the levels of a vector add to the total and the number.            *)
LEMMA ScannedVector ==
    ASSUME ArgumentsTyped, NEW k \in Nat
    PROVE  /\ k + 2 <= n => /\ Total(k + 2) = Total(k) + Added(k + 1) + Added(k + 2)
                            /\ Number(k + 2) = Number(k) + Counted(k + 1) + Counted(k + 2)
           /\ k + 4 <= n =>
                /\ Total(k + 4) = Total(k) + Added(k + 1) + Added(k + 2) + Added(k + 3) + Added(k + 4)
                /\ Number(k + 4) = Number(k) + Counted(k + 1) + Counted(k + 2) + Counted(k + 3) + Counted(k + 4)
<1>0. n \in Nat
  BY DEF ArgumentsTyped, n
<1>1. ASSUME NEW m \in Nat, m + 2 <= n
      PROVE  /\ Total(m + 2) = Total(m) + Added(m + 1) + Added(m + 2)
             /\ Number(m + 2) = Number(m) + Counted(m + 1) + Counted(m + 2)
             /\ Total(m) \in Int /\ Number(m) \in Int
             /\ Added(m + 1) \in Int /\ Counted(m + 1) \in Int
             /\ Added(m + 2) \in Int /\ Counted(m + 2) \in Int
  <2>1. m < n /\ m + 1 < n /\ m + 1 \in Nat /\ (m + 1) + 1 = m + 2 /\ m + 1 \in 1 .. n /\ m + 2 \in 1 .. n
    BY <1>0, <1>1
  <2>2. /\ Total(m) \in Int /\ Number(m) \in 0 .. m
        /\ Total(m + 1) = Total(m) + Added(m + 1)
        /\ Number(m + 1) = Number(m) + Counted(m + 1)
    BY <2>1, ScannedMore
  <2>3. /\ Total((m + 1) + 1) = Total(m + 1) + Added((m + 1) + 1)
        /\ Number((m + 1) + 1) = Number(m + 1) + Counted((m + 1) + 1)
    BY <2>1, ScannedMore
  <2>4. /\ Added(m + 1) \in Int /\ Counted(m + 1) \in Int
        /\ Added(m + 2) \in Int /\ Counted(m + 2) \in Int
    BY <2>1, LevelTyped
  <2> QED
    BY <2>1, <2>2, <2>3, <2>4
<1>2. ASSUME k + 4 <= n
      PROVE  /\ Total(k + 4) = Total(k) + Added(k + 1) + Added(k + 2) + Added(k + 3) + Added(k + 4)
             /\ Number(k + 4) = Number(k) + Counted(k + 1) + Counted(k + 2) + Counted(k + 3) + Counted(k + 4)
  <2>1. /\ k + 2 \in Nat /\ k + 2 <= n /\ (k + 2) + 2 <= n
        /\ (k + 2) + 1 = k + 3 /\ (k + 2) + 2 = k + 4
    BY <1>0, <1>2
  <2>2. /\ Total(k + 2) = Total(k) + Added(k + 1) + Added(k + 2)
        /\ Number(k + 2) = Number(k) + Counted(k + 1) + Counted(k + 2)
    BY <1>1, <2>1
  <2>3. /\ Total((k + 2) + 2) = Total(k + 2) + Added((k + 2) + 1) + Added((k + 2) + 2)
        /\ Number((k + 2) + 2) = Number(k + 2) + Counted((k + 2) + 1) + Counted((k + 2) + 2)
    BY <1>1, <2>1
  <2> QED
    BY <2>1, <2>2, <2>3
<1> QED
  BY <1>1, <1>2


(* The arguments of a call do not change, nor do the sums they define.     *)
TotalFor(snapshot, limit, s, k) ==
    MapThenSumSet(LAMBDA m : snapshot[m].quantity,
                  {m \in 1 .. k : \/ s = "Buy" /\ snapshot[m].price <= limit
                                  \/ s = "Sell" /\ snapshot[m].price >= limit})

LEMMA ArgumentsStay ==
    ASSUME Next \/ UNCHANGED vars
    PROVE  /\ levels' = levels /\ limit_price' = limit_price /\ side' = side /\ isa' = isa
           /\ n' = n /\ Lanes' = Lanes /\ VecEnd' = VecEnd
<1>1. levels' = levels /\ limit_price' = limit_price /\ side' = side /\ isa' = isa
  BY DEF Next, VectorStep, Reduce, TailStep, Return, vars, arguments
<1> QED
  BY <1>1 DEF n, Lanes, VecEnd

LEMMA TotalStays ==
    ASSUME Next \/ UNCHANGED vars, NEW k
    PROVE  Total(k)' = Total(k) /\ Number(k)' = Number(k)
<1>1. levels' = levels /\ limit_price' = limit_price /\ side' = side
  BY ArgumentsStay
<1>2. Total(k) = TotalFor(levels, limit_price, side, k)
  BY DEF Total, TotalFor, QuantityOf, Crossable
<1>3. Total(k)' = TotalFor(levels', limit_price', side', k)
  BY DEF Total, TotalFor, QuantityOf, Crossable, MapThenSumSet, MapThenFoldSet
<1>4. Crossable(k)' = Crossable(k)
  BY <1>1 DEF Crossable
<1> QED
  BY <1>1, <1>2, <1>3, <1>4 DEF Number

(* The lanes are added in order.                                           *)
Step(r, j) == [Add(r, sum_vec[j]) EXCEPT !.count = @ + count_vec[j]]
FirstLane == [result EXCEPT !.total = sum_vec[0], !.count = count_vec[0]]

LEMMA ReducedLanes ==
    ASSUME Reduce, isa \in {"neon", "avx2"}
    PROVE  /\ isa = "neon" => result' = Step(FirstLane, 1)
           /\ isa = "avx2" => result' = Step(Step(Step(FirstLane, 1), 2), 3)
<1> DEFINE Solves(u) == u = [j \in Lanes |-> IF j = 0 THEN FirstLane ELSE Step(u[j - 1], j)]
<1>1. PICK u : u = CHOOSE h : Solves(h)
  OBVIOUS
<1>2. result' = u[LaneCount[isa] - 1]
  BY <1>1 DEF Reduce, Step, FirstLane
<1>3. CASE isa = "neon"
  <2>1. Lanes = {0, 1} /\ LaneCount[isa] - 1 = 1
    BY <1>3 DEF Lanes, LaneCount
  <2>2. PICK w : w = [j \in Lanes |-> IF j = 0 THEN FirstLane ELSE Step(FirstLane, 1)]
    OBVIOUS
  <2>3. Solves(w)
    BY <2>1, <2>2
  <2>4. Solves(u)
    BY <1>1, <2>3
  <2>5. u[0] = FirstLane /\ u[1] = Step(u[0], 1)
    BY <2>1, <2>4
  <2> QED
    BY <1>2, <1>3, <2>1, <2>5
<1>4. CASE isa = "avx2"
  <2>1. Lanes = {0, 1, 2, 3} /\ LaneCount[isa] - 1 = 3
    BY <1>4 DEF Lanes, LaneCount
  <2>2. PICK w : w = [j \in Lanes |->
            IF j = 0 THEN FirstLane ELSE IF j = 1 THEN Step(FirstLane, 1)
            ELSE IF j = 2 THEN Step(Step(FirstLane, 1), 2) ELSE Step(Step(Step(FirstLane, 1), 2), 3)]
    OBVIOUS
  <2>3. Solves(w)
    <3>1. /\ w[0] = FirstLane /\ w[1] = Step(w[0], 1) /\ w[2] = Step(w[1], 2) /\ w[3] = Step(w[2], 3)
      BY <2>1, <2>2
    <3>2. \A j \in Lanes : w[j] = IF j = 0 THEN FirstLane ELSE Step(w[j - 1], j)
      BY <2>1, <3>1
    <3> QED
      BY <2>2, <3>2
  <2>4. Solves(u)
    BY <1>1, <2>3
  <2>5. u[0] = FirstLane /\ u[1] = Step(u[0], 1) /\ u[2] = Step(u[1], 2) /\ u[3] = Step(u[2], 3)
    BY <2>1, <2>4
  <2> QED
    BY <1>2, <1>4, <2>1, <2>5
<1> QED
  BY <1>3, <1>4

LEMMA StepTyped ==
    ASSUME NEW r \in [total : Quantity, count : Nat, defined : BOOLEAN], NEW j \in Lanes,
           sum_vec[j] \in Quantity, count_vec[j] \in Nat
    PROVE  /\ Step(r, j) \in [total : Quantity, count : Nat, defined : BOOLEAN]
           /\ Step(r, j).total = Wrap(r.total + sum_vec[j])
           /\ Step(r, j).count = r.count + count_vec[j]
           /\ Step(r, j).defined <=> r.defined /\ r.total + sum_vec[j] \in Quantity
<1>1. r.total + sum_vec[j] \in Int
  BY QuantityAssumption DEF Quantity
<1>2. Wrap(r.total + sum_vec[j]) \in Quantity
  BY <1>1, WrapIsSame
<1>3. PICK t, c, d : t = Wrap(r.total + sum_vec[j]) /\ c = r.count + count_vec[j]
                     /\ d = (r.defined /\ r.total + sum_vec[j] \in Quantity)
  OBVIOUS
<1>4. t \in Quantity /\ c \in Nat /\ d \in BOOLEAN
  BY <1>2, <1>3
<1>5. PICK s : s = Add(r, sum_vec[j])
  OBVIOUS
<1>6. s = [total |-> t, count |-> r.count, defined |-> d]
  BY <1>3, <1>5 DEF Add
<1>7. Step(r, j) = [total |-> t, count |-> c, defined |-> d]
  BY <1>3, <1>5, <1>6 DEF Step
<1>8. Step(r, j) \in [total : Quantity, count : Nat, defined : BOOLEAN]
  BY <1>4, <1>7
<1>9. Step(r, j).total = t /\ Step(r, j).count = c /\ Step(r, j).defined = d
  BY <1>7
<1> QED
  BY <1>3, <1>8, <1>9


--------------------------------------------------------------------------------
(* The scan: between two iterations the lanes (then the result) stand for  *)
(* the levels scanned so far, up to a multiple of the width.               *)
ResultType == [total : Quantity, count : Nat, defined : BOOLEAN]
LaneTotal(v) == IF isa = "neon" THEN v[0] + v[1] ELSE v[0] + v[1] + v[2] + v[3]

ScanTyped ==
    /\ IndexInv /\ ArgumentsTyped
    /\ pc \in {"vector", "tail", "done"}
    /\ pc = "vector" => isa \in {"neon", "avx2"} /\ result.count = 0
    /\ sum_vec \in [Lanes -> Quantity] /\ count_vec \in [Lanes -> 0 .. n]
    /\ result \in ResultType
LanesStand ==
    pc = "vector" => Same(LaneTotal(sum_vec), Total(i)) /\ LaneTotal(count_vec) = Number(i)
ResultStands ==
    pc # "vector" => Same(result.total, Total(i)) /\ result.count = Number(i)
ScanInv == ScanTyped /\ LanesStand /\ ResultStands

LEMMA WrapAll ==
    ASSUME NEW a \in Int, NEW b \in Int, NEW c \in Int, NEW d \in Int
    PROVE  /\ Same(Wrap(a) + Wrap(b), a + b)
           /\ Same(Wrap(a) + Wrap(b) + Wrap(c) + Wrap(d), a + b + c + d)
<1>1. PICK p, q, r, s : p = Wrap(a) /\ q = Wrap(b) /\ r = Wrap(c) /\ s = Wrap(d)
  OBVIOUS
<1>2. /\ p \in Int /\ q \in Int /\ r \in Int /\ s \in Int
      /\ Same(p, a) /\ Same(q, b) /\ Same(r, c) /\ Same(s, d)
  BY <1>1, WrapIsSame, QuantityAssumption DEF Quantity
<1>3. Same(p + q, a + b) /\ p + q \in Int /\ a + b \in Int
  BY <1>2, SameSum
<1>4. Same(p + q + r, a + b + c) /\ p + q + r \in Int /\ a + b + c \in Int
  BY <1>2, <1>3, SameSum
<1>5. Same(p + q + r + s, a + b + c + d)
  BY <1>2, <1>4, SameSum
<1> QED
  BY <1>1, <1>3, <1>5

LEMMA ScanInitially == Init => ScanInv
<1> SUFFICES ASSUME Init PROVE ScanInv
  OBVIOUS
<1>1. IndexInv
  BY IndexInitially
<1>2. levels \in Seq(LevelChoices) /\ limit_price \in Int /\ side \in Sides
  BY <1>1, LimitsAssumption DEF IndexInv, Init
<1>3. /\ isa \in DOMAIN LaneCount /\ i = 0 /\ pc = IF isa = "scalar" THEN "tail" ELSE "vector"
      /\ sum_vec = [j \in Lanes |-> 0] /\ count_vec = [j \in Lanes |-> 0]
      /\ result = [total |-> 0, count |-> 0, defined |-> TRUE]
  BY DEF Init
<1>4. 0 \in Quantity /\ n \in Nat
  BY <1>2, QuantityAssumption DEF Quantity, n
<1>5. isa \in {"scalar", "neon", "avx2"}
  BY <1>3 DEF LaneCount
<1>6. ScanTyped
  BY <1>1, <1>2, <1>3, <1>4, <1>5 DEF ScanTyped, ArgumentsTyped, ResultType
<1>7. ASSUME pc = "vector"
      PROVE  Same(LaneTotal(sum_vec), Total(i)) /\ LaneTotal(count_vec) = Number(i)
  <2>1. CASE isa = "neon"
    <3>1. Lanes = {0, 1}
      BY <2>1 DEF Lanes, LaneCount
    <3>2. LaneTotal(sum_vec) = 0 /\ LaneTotal(count_vec) = 0
      BY <1>3, <2>1, <3>1 DEF LaneTotal
    <3> QED
      BY <1>3, <3>2, ScannedNone, SameIsEquivalence
  <2>2. CASE isa = "avx2"
    <3>1. Lanes = {0, 1, 2, 3}
      BY <2>2 DEF Lanes, LaneCount
    <3>2. LaneTotal(sum_vec) = 0 /\ LaneTotal(count_vec) = 0
      BY <1>3, <2>2, <3>1 DEF LaneTotal
    <3> QED
      BY <1>3, <3>2, ScannedNone, SameIsEquivalence
  <2> QED
    BY <1>3, <1>5, <1>7, <2>1, <2>2
<1>8. Same(result.total, Total(i)) /\ result.count = Number(i)
  BY <1>3, ScannedNone, SameIsEquivalence
<1> QED
  BY <1>6, <1>7, <1>8 DEF ScanInv, LanesStand, ResultStands

LEMMA NeonVector ==
    ASSUME VectorStep, ScanInv, isa = "neon"
    PROVE  /\ sum_vec' = [j \in Lanes |-> IF j = 0 THEN Wrap(sum_vec[0] + Added(i + 1))
                                          ELSE Wrap(sum_vec[1] + Added(i + 2))]
           /\ count_vec' = [j \in Lanes |-> IF j = 0 THEN count_vec[0] + Counted(i + 1)
                                            ELSE count_vec[1] + Counted(i + 2)]
           /\ i' = i + 2 /\ i + 2 <= n
<1>1. i + 2 <= n /\ i \in Nat /\ ArgumentsTyped
  BY VectorInBounds DEF VectorStep, ScanInv, ScanTyped, IndexInv, LaneCount
<1>2. /\ LaneAdds(0) = Added(i + 1) /\ LaneCounts(0) = Counted(i + 1)
      /\ LaneAdds(1) = Added(i + 2) /\ LaneCounts(1) = Counted(i + 2)
  BY <1>1, LanesOfNeon
<1>3. /\ sum_vec' = [j \in Lanes |-> Wrap(sum_vec[j] + LaneAdds(j))]
      /\ count_vec' = [j \in Lanes |-> count_vec[j] + LaneCounts(j)]
      /\ i' = i + LaneCount[isa]
  BY DEF VectorStep, LaneAdds, LaneCounts
<1>4. Lanes = {0, 1} /\ LaneCount[isa] = 2
  BY DEF Lanes, LaneCount
<1> QED
  BY <1>1, <1>2, <1>3, <1>4

LEMMA Avx2Vector ==
    ASSUME VectorStep, ScanInv, isa = "avx2"
    PROVE  /\ sum_vec' = [j \in Lanes |-> IF j = 0 THEN Wrap(sum_vec[0] + Added(i + 1))
                                          ELSE IF j = 1 THEN Wrap(sum_vec[1] + Added(i + 3))
                                          ELSE IF j = 2 THEN Wrap(sum_vec[2] + Added(i + 2))
                                          ELSE Wrap(sum_vec[3] + Added(i + 4))]
           /\ count_vec' = [j \in Lanes |-> IF j = 0 THEN count_vec[0] + Counted(i + 1)
                                            ELSE IF j = 1 THEN count_vec[1] + Counted(i + 3)
                                            ELSE IF j = 2 THEN count_vec[2] + Counted(i + 2)
                                            ELSE count_vec[3] + Counted(i + 4)]
           /\ i' = i + 4 /\ i + 4 <= n
<1>1. i + 4 <= n /\ i \in Nat /\ ArgumentsTyped
  BY VectorInBounds DEF VectorStep, ScanInv, ScanTyped, IndexInv, LaneCount
<1>2. /\ LaneAdds(0) = Added(i + 1) /\ LaneCounts(0) = Counted(i + 1)
      /\ LaneAdds(1) = Added(i + 3) /\ LaneCounts(1) = Counted(i + 3)
      /\ LaneAdds(2) = Added(i + 2) /\ LaneCounts(2) = Counted(i + 2)
      /\ LaneAdds(3) = Added(i + 4) /\ LaneCounts(3) = Counted(i + 4)
  BY <1>1, LanesOfAvx2
<1>3. /\ sum_vec' = [j \in Lanes |-> Wrap(sum_vec[j] + LaneAdds(j))]
      /\ count_vec' = [j \in Lanes |-> count_vec[j] + LaneCounts(j)]
      /\ i' = i + LaneCount[isa]
  BY DEF VectorStep, LaneAdds, LaneCounts
<1>4. Lanes = {0, 1, 2, 3} /\ LaneCount[isa] = 4
  BY DEF Lanes, LaneCount
<1> QED
  BY <1>1, <1>2, <1>3, <1>4


(* One iteration of a vector loop, in either build: what the lanes add up  *)
(* to afterwards.                                                          *)
VectorSums ==
    /\ sum_vec' \in [Lanes -> Quantity] /\ count_vec' \in [Lanes -> 0 .. n]
    /\ Same(LaneTotal(sum_vec'), Total(i')) /\ LaneTotal(count_vec') = Number(i')

LEMMA CountTyped ==
    ASSUME ArgumentsTyped, NEW m \in 1 .. n
    PROVE  Counted(m) \in Nat /\ Added(m) \in Int
BY LevelTyped

LEMMA NeonSums ==
    ASSUME VectorStep, ScanInv, isa = "neon"
    PROVE  VectorSums
<1>1. /\ ArgumentsTyped /\ i \in Nat /\ n \in Nat /\ i + 2 <= n /\ i' = i + 2
      /\ i + 1 \in 1 .. n /\ i + 2 \in 1 .. n /\ i \in 0 .. n /\ i + 2 \in 0 .. n
  BY NeonVector, FullVectors DEF ScanInv, ScanTyped, IndexInv
<1>2. Lanes = {0, 1}
  BY DEF Lanes, LaneCount
<1>3. PICK s, t, c, d : s = sum_vec[0] /\ t = sum_vec[1] /\ c = count_vec[0] /\ d = count_vec[1]
  OBVIOUS
<1>4. s \in Int /\ t \in Int /\ c \in Nat /\ d \in Nat
  BY <1>1, <1>2, <1>3, QuantityAssumption DEF ScanInv, ScanTyped, Quantity
<1>5. pc = "vector" /\ Same(s + t, Total(i)) /\ c + d = Number(i)
  BY <1>3 DEF VectorStep, ScanInv, LanesStand, LaneTotal
<1>6. PICK a, b, e, f : /\ a = Added(i + 1) /\ b = Added(i + 2)
                        /\ e = Counted(i + 1) /\ f = Counted(i + 2)
  OBVIOUS
<1>7. a \in Int /\ b \in Int /\ e \in Nat /\ f \in Nat
  BY <1>1, <1>6, CountTyped
<1>8. Total(i + 2) = Total(i) + a + b /\ Number(i + 2) = Number(i) + e + f
  BY <1>1, <1>6, ScannedVector
<1>9. Total(i) \in Int /\ Number(i) \in Nat /\ Number(i + 2) \in 0 .. i + 2 /\ Total(i + 2) \in Int
  BY <1>1, TotalTyped
<1>10. /\ sum_vec' = [j \in Lanes |-> IF j = 0 THEN Wrap(s + a) ELSE Wrap(t + b)]
       /\ count_vec' = [j \in Lanes |-> IF j = 0 THEN c + e ELSE d + f]
  BY <1>3, <1>6, NeonVector
<1>11. Wrap(s + a) \in Quantity /\ Wrap(t + b) \in Quantity /\ Wrap(s + a) \in Int /\ Wrap(t + b) \in Int
  BY <1>4, <1>7, WrapIsSame, QuantityAssumption DEF Quantity
<1>12. Same(Wrap(s + a) + Wrap(t + b), Total(i + 2))
  <2>1. Same(Wrap(s + a) + Wrap(t + b), (s + a) + (t + b))
    BY <1>4, <1>7, WrapAll
  <2>2. Same((s + t) + (a + b), Total(i) + (a + b))
    <3>1. s + t \in Int /\ a + b \in Int
      BY <1>4, <1>7
    <3>2. Same(a + b, a + b)
      BY <3>1, SameIsEquivalence
    <3> QED
      BY <3>1, <3>2, <1>5, <1>9, SameSum
  <2>3. (s + t) + (a + b) = (s + a) + (t + b) /\ Total(i) + (a + b) = Total(i + 2)
    BY <1>4, <1>7, <1>8, <1>9
  <2>4. Same((s + a) + (t + b), Total(i + 2))
    BY <2>2, <2>3
  <2>5. Wrap(s + a) + Wrap(t + b) \in Int /\ (s + a) + (t + b) \in Int
    BY <1>4, <1>7, <1>11
  <2> QED
    BY <2>1, <2>4, <2>5, <1>9, SameIsEquivalence
<1>13. (c + e) + (d + f) = Number(i + 2) /\ c + e \in 0 .. n /\ d + f \in 0 .. n
  BY <1>1, <1>4, <1>5, <1>7, <1>8, <1>9
<1>14. sum_vec' \in [Lanes -> Quantity] /\ count_vec' \in [Lanes -> 0 .. n]
  BY <1>10, <1>11, <1>13
<1>15. LaneTotal(sum_vec') = Wrap(s + a) + Wrap(t + b) /\ LaneTotal(count_vec') = (c + e) + (d + f)
  BY <1>2, <1>10 DEF LaneTotal
<1> QED
  BY <1>1, <1>12, <1>13, <1>14, <1>15 DEF VectorSums

LEMMA Avx2Sums ==
    ASSUME VectorStep, ScanInv, isa = "avx2"
    PROVE  VectorSums
<1>1. /\ ArgumentsTyped /\ i \in Nat /\ n \in Nat /\ i + 4 <= n /\ i' = i + 4
      /\ i + 1 \in 1 .. n /\ i + 2 \in 1 .. n /\ i + 3 \in 1 .. n /\ i + 4 \in 1 .. n
      /\ i \in 0 .. n /\ i + 4 \in 0 .. n
  BY Avx2Vector, FullVectors DEF ScanInv, ScanTyped, IndexInv
<1>2. Lanes = {0, 1, 2, 3}
  BY DEF Lanes, LaneCount
<1>3. PICK s0, s1, s2, s3, c0, c1, c2, c3 :
         /\ s0 = sum_vec[0] /\ s1 = sum_vec[1] /\ s2 = sum_vec[2] /\ s3 = sum_vec[3]
         /\ c0 = count_vec[0] /\ c1 = count_vec[1] /\ c2 = count_vec[2] /\ c3 = count_vec[3]
  OBVIOUS
<1>4. /\ s0 \in Int /\ s1 \in Int /\ s2 \in Int /\ s3 \in Int
      /\ c0 \in Nat /\ c1 \in Nat /\ c2 \in Nat /\ c3 \in Nat
  BY <1>1, <1>2, <1>3, QuantityAssumption DEF ScanInv, ScanTyped, Quantity
<1>5. pc = "vector" /\ Same(s0 + s1 + s2 + s3, Total(i)) /\ c0 + c1 + c2 + c3 = Number(i)
  BY <1>3 DEF VectorStep, ScanInv, LanesStand, LaneTotal
<1>6. PICK a1, a2, a3, a4, e1, e2, e3, e4 :
         /\ a1 = Added(i + 1) /\ a2 = Added(i + 2) /\ a3 = Added(i + 3) /\ a4 = Added(i + 4)
         /\ e1 = Counted(i + 1) /\ e2 = Counted(i + 2) /\ e3 = Counted(i + 3) /\ e4 = Counted(i + 4)
  OBVIOUS
<1>7. /\ a1 \in Int /\ a2 \in Int /\ a3 \in Int /\ a4 \in Int
      /\ e1 \in Nat /\ e2 \in Nat /\ e3 \in Nat /\ e4 \in Nat
  BY <1>1, <1>6, CountTyped
<1>8. /\ Total(i + 4) = Total(i) + a1 + a2 + a3 + a4
      /\ Number(i + 4) = Number(i) + e1 + e2 + e3 + e4
  BY <1>1, <1>6, ScannedVector
<1>9. Total(i) \in Int /\ Number(i) \in Nat /\ Number(i + 4) \in 0 .. i + 4 /\ Total(i + 4) \in Int
  BY <1>1, TotalTyped
<1>10. PICK w0, w1, w2, w3 : /\ w0 = Wrap(s0 + a1) /\ w1 = Wrap(s1 + a3)
                             /\ w2 = Wrap(s2 + a2) /\ w3 = Wrap(s3 + a4)
  OBVIOUS
<1>11. /\ sum_vec' = [j \in Lanes |-> IF j = 0 THEN w0 ELSE IF j = 1 THEN w1 ELSE IF j = 2 THEN w2 ELSE w3]
       /\ count_vec' = [j \in Lanes |-> IF j = 0 THEN c0 + e1 ELSE IF j = 1 THEN c1 + e3
                                        ELSE IF j = 2 THEN c2 + e2 ELSE c3 + e4]
  BY <1>3, <1>6, <1>10, Avx2Vector
<1>12. /\ w0 \in Quantity /\ w1 \in Quantity /\ w2 \in Quantity /\ w3 \in Quantity
       /\ w0 \in Int /\ w1 \in Int /\ w2 \in Int /\ w3 \in Int
  BY <1>4, <1>7, <1>10, WrapIsSame, QuantityAssumption DEF Quantity
<1>13. Same(w0 + w1 + w2 + w3, Total(i + 4))
  <2>1. Same(w0 + w1 + w2 + w3, (s0 + a1) + (s1 + a3) + (s2 + a2) + (s3 + a4))
    BY <1>4, <1>7, <1>10, WrapAll
  <2>2. Same((s0 + s1 + s2 + s3) + (a1 + a2 + a3 + a4), Total(i) + (a1 + a2 + a3 + a4))
    <3>1. s0 + s1 + s2 + s3 \in Int /\ a1 + a2 + a3 + a4 \in Int
      BY <1>4, <1>7
    <3>2. Same(a1 + a2 + a3 + a4, a1 + a2 + a3 + a4)
      BY <3>1, SameIsEquivalence
    <3> QED
      BY <3>1, <3>2, <1>5, <1>9, SameSum
  <2>3. /\ (s0 + s1 + s2 + s3) + (a1 + a2 + a3 + a4) = (s0 + a1) + (s1 + a3) + (s2 + a2) + (s3 + a4)
        /\ Total(i) + (a1 + a2 + a3 + a4) = Total(i + 4)
    BY <1>4, <1>7, <1>8, <1>9
  <2>4. Same((s0 + a1) + (s1 + a3) + (s2 + a2) + (s3 + a4), Total(i + 4))
    BY <2>2, <2>3
  <2>5. w0 + w1 + w2 + w3 \in Int /\ (s0 + a1) + (s1 + a3) + (s2 + a2) + (s3 + a4) \in Int
    BY <1>4, <1>7, <1>12
  <2> QED
    BY <2>1, <2>4, <2>5, <1>9, SameIsEquivalence
<1>14. /\ (c0 + e1) + (c1 + e3) + (c2 + e2) + (c3 + e4) = Number(i + 4)
       /\ c0 + e1 \in 0 .. n /\ c1 + e3 \in 0 .. n /\ c2 + e2 \in 0 .. n /\ c3 + e4 \in 0 .. n
  BY <1>1, <1>4, <1>5, <1>7, <1>8, <1>9
<1>15. sum_vec' \in [Lanes -> Quantity] /\ count_vec' \in [Lanes -> 0 .. n]
  BY <1>11, <1>12, <1>14
<1>16. /\ LaneTotal(sum_vec') = w0 + w1 + w2 + w3
       /\ LaneTotal(count_vec') = (c0 + e1) + (c1 + e3) + (c2 + e2) + (c3 + e4)
  BY <1>2, <1>11 DEF LaneTotal
<1> QED
  BY <1>1, <1>13, <1>14, <1>15, <1>16 DEF VectorSums


(* Adding the lanes up in scalar code, wrapped or not, keeps the sum.      *)
ReducedSums ==
    /\ result' \in ResultType
    /\ Same(result'.total, LaneTotal(sum_vec)) /\ result'.count = LaneTotal(count_vec)

LEMMA SameAddLeft ==
    ASSUME NEW a \in Int, NEW b \in Int, NEW c \in Int, Same(a, b)
    PROVE  Same(Wrap(a + c), b + c)
<1>1. PICK w : w = Wrap(a + c)
  OBVIOUS
<1>2. w \in Int /\ Same(w, a + c)
  BY <1>1, WrapIsSame, QuantityAssumption DEF Quantity
<1>3. Same(c, c)
  BY SameIsEquivalence
<1>4. Same(a + c, b + c) /\ a + c \in Int /\ b + c \in Int
  BY <1>3, SameSum
<1> QED
  BY <1>1, <1>2, <1>4, SameIsEquivalence

LEMMA StepFrom ==
    ASSUME NEW r \in ResultType, NEW j \in Lanes, ScanTyped,
           NEW t \in Int, NEW c \in Nat, Same(r.total, t), r.count = c
    PROVE  /\ Step(r, j) \in ResultType
           /\ Same(Step(r, j).total, t + sum_vec[j]) /\ Step(r, j).count = c + count_vec[j]
<1>1. /\ sum_vec[j] \in Quantity /\ count_vec[j] \in Nat /\ sum_vec[j] \in Int
      /\ r.total \in Int
  <2>1. n \in Nat
    BY FullVectors DEF ScanTyped, IndexInv
  <2> QED
    BY <2>1, QuantityAssumption DEF ScanTyped, ResultType, Quantity
<1>2. /\ Step(r, j) \in ResultType
      /\ Step(r, j).total = Wrap(r.total + sum_vec[j])
      /\ Step(r, j).count = r.count + count_vec[j]
  BY <1>1, StepTyped DEF ResultType
<1>3. Same(Wrap(r.total + sum_vec[j]), t + sum_vec[j])
  BY <1>1, SameAddLeft
<1> QED
  BY <1>2, <1>3

LEMMA FirstLaneTyped ==
    ASSUME ScanTyped, isa \in {"neon", "avx2"}
    PROVE  /\ 0 \in Lanes /\ FirstLane \in ResultType /\ FirstLane.defined = result.defined
           /\ FirstLane.total = sum_vec[0] /\ FirstLane.count = count_vec[0]
           /\ sum_vec[0] \in Int /\ count_vec[0] \in Nat
<1>1. 0 \in Lanes
  BY DEF Lanes, LaneCount
<1>2. n \in Nat
  BY FullVectors DEF ScanTyped, IndexInv
<1>3. sum_vec[0] \in Quantity /\ count_vec[0] \in Nat /\ sum_vec[0] \in Int
  BY <1>1, <1>2, QuantityAssumption DEF ScanTyped, Quantity
<1>4. PICK r, t, c : r = result /\ t = sum_vec[0] /\ c = count_vec[0]
  OBVIOUS
<1>5. FirstLane = [r EXCEPT !.total = t, !.count = c]
  BY <1>4 DEF FirstLane
<1>6. r \in ResultType /\ t \in Quantity /\ c \in Nat
  BY <1>3, <1>4 DEF ScanTyped
<1>7. [r EXCEPT !.total = t, !.count = c] \in ResultType
  BY <1>6 DEF ResultType
<1>8. /\ [r EXCEPT !.total = t, !.count = c].total = t
      /\ [r EXCEPT !.total = t, !.count = c].count = c
      /\ [r EXCEPT !.total = t, !.count = c].defined = r.defined
  BY <1>6 DEF ResultType
<1> QED
  BY <1>1, <1>3, <1>4, <1>5, <1>7, <1>8

LEMMA ReduceSums ==
    ASSUME Reduce, ScanInv
    PROVE  ReducedSums
<1>1. ScanTyped /\ isa \in {"neon", "avx2"}
  BY DEF Reduce, ScanInv, ScanTyped
<1>2. PICK s, c : s = sum_vec /\ c = count_vec
  OBVIOUS
<1>3. n \in Nat
  BY <1>1, FullVectors DEF ScanTyped, IndexInv
<1>4. \A j \in Lanes : s[j] \in Int /\ c[j] \in Nat
  BY <1>1, <1>2, <1>3, QuantityAssumption DEF ScanTyped, Quantity
<1>5. PICK f : f = FirstLane
  OBVIOUS
<1>6. f \in ResultType /\ Same(f.total, s[0]) /\ f.count = c[0] /\ 0 \in Lanes
  BY <1>1, <1>2, <1>5, FirstLaneTyped, SameIsEquivalence
<1>7. PICK g : g = Step(f, 1)
  OBVIOUS
<1>8. 1 \in Lanes
  BY <1>1 DEF Lanes, LaneCount
<1>9. /\ g \in ResultType
      /\ Same(g.total, s[0] + s[1]) /\ g.count = c[0] + c[1]
  BY <1>1, <1>2, <1>4, <1>6, <1>7, <1>8, StepFrom
<1>10. CASE isa = "neon"
  <2>1. result' = g
    BY <1>1, <1>5, <1>7, <1>10, ReducedLanes
  <2> QED
    BY <1>2, <1>9, <1>10, <2>1 DEF ReducedSums, LaneTotal
<1>11. CASE isa = "avx2"
  <2>1. 2 \in Lanes /\ 3 \in Lanes
    BY <1>11 DEF Lanes, LaneCount
  <2>2. PICK h, k : h = Step(g, 2) /\ k = Step(h, 3)
    OBVIOUS
  <2>3. s[0] + s[1] \in Int /\ c[0] + c[1] \in Nat
    BY <1>4, <1>6, <1>8
  <2>4. /\ h \in ResultType
        /\ Same(h.total, s[0] + s[1] + s[2]) /\ h.count = c[0] + c[1] + c[2]
    BY <1>1, <1>2, <1>9, <2>1, <2>2, <2>3, StepFrom
  <2>5. s[0] + s[1] + s[2] \in Int /\ c[0] + c[1] + c[2] \in Nat
    BY <1>4, <2>1, <2>3
  <2>6. /\ k \in ResultType
        /\ Same(k.total, s[0] + s[1] + s[2] + s[3]) /\ k.count = c[0] + c[1] + c[2] + c[3]
    BY <1>1, <1>2, <2>1, <2>2, <2>4, <2>5, StepFrom
  <2>7. result' = k
    BY <1>1, <1>5, <1>7, <1>11, <2>2, ReducedLanes
  <2> QED
    BY <1>2, <1>11, <2>6, <2>7 DEF ReducedSums, LaneTotal
<1> QED
  BY <1>1, <1>10, <1>11

LEMMA TailSums ==
    ASSUME TailStep, ScanInv
    PROVE  /\ result' \in ResultType
           /\ Same(result'.total, Total(i + 1)) /\ result'.count = Number(i + 1)
<1>1. /\ ArgumentsTyped /\ i \in Nat /\ n \in Nat /\ i < n /\ i + 1 \in 1 .. n /\ i \in 0 .. n
      /\ result \in ResultType /\ Same(result.total, Total(i)) /\ result.count = Number(i)
  BY FullVectors DEF TailStep, ScanInv, ScanTyped, IndexInv, ResultStands
<1>2. PICK m : m = i + 1
  OBVIOUS
<1>3. /\ Total(i) \in Int /\ Number(i) \in Nat
      /\ Total(m) = Total(i) + Added(m) /\ Number(m) = Number(i) + Counted(m)
  BY <1>1, <1>2, ScannedMore
<1>4. levels[m].quantity \in Int
  BY <1>1, <1>2, LevelTyped
<1>5. CASE AtOrBetter(levels[m].price)
  <2>1. PICK t, d : /\ t = Wrap(result.total + levels[m].quantity)
                    /\ d = (result.defined /\ result.total + levels[m].quantity \in Quantity)
    OBVIOUS
  <2>2. result' = [Add(result, levels[m].quantity) EXCEPT !.count = @ + 1]
    BY <1>2, <1>5 DEF TailStep
  <2>3. PICK r : r = Add(result, levels[m].quantity)
    OBVIOUS
  <2>4. r = [total |-> t, count |-> result.count, defined |-> d]
    BY <1>1, <2>1, <2>3 DEF Add, ResultType
  <2>5. result' = [total |-> t, count |-> result.count + 1, defined |-> d]
    BY <2>2, <2>3, <2>4
  <2>6. result.total \in Int /\ result.count \in Nat
    BY <1>1, QuantityAssumption DEF ResultType, Quantity
  <2>7. t \in Quantity /\ d \in BOOLEAN
    BY <1>4, <2>1, <2>6, WrapIsSame
  <2>8. Same(t, Total(i) + levels[m].quantity)
    BY <1>1, <1>3, <1>4, <2>1, <2>6, SameAddLeft
  <2>9. Added(m) = levels[m].quantity /\ Counted(m) = 1
    BY <1>5 DEF Added, Counted
  <2>10. result'.total = t /\ result'.count = result.count + 1
    BY <2>5
  <2>11. result' \in ResultType
    BY <2>5, <2>6, <2>7 DEF ResultType
  <2> QED
    BY <1>1, <1>2, <1>3, <2>8, <2>9, <2>10, <2>11
<1>6. CASE ~AtOrBetter(levels[m].price)
  <2>1. result' = result /\ Added(m) = 0 /\ Counted(m) = 0
    BY <1>2, <1>6 DEF TailStep, Added, Counted
  <2>2. Total(m) = Total(i) /\ Number(m) = Number(i)
    BY <1>3, <2>1
  <2> QED
    BY <1>1, <1>2, <2>1, <2>2
<1> QED
  BY <1>5, <1>6


LEMMA ScanStep ==
    ASSUME ScanInv, [Next]_vars
    PROVE  ScanInv'
<1>0. Next \/ UNCHANGED vars
  OBVIOUS
<1>1. /\ levels' = levels /\ limit_price' = limit_price /\ side' = side /\ isa' = isa
      /\ n' = n /\ Lanes' = Lanes
  BY <1>0, ArgumentsStay
<1>2. IndexInv' /\ ArgumentsTyped'
  BY <1>1, IndexStep DEF ScanInv, ScanTyped, ArgumentsTyped
<1>3. \A k : Total(k)' = Total(k) /\ Number(k)' = Number(k)
  BY <1>0, TotalStays
<1>4. Total(i)' = Total(i') /\ Number(i)' = Number(i')
  <2>1. PICK k : k = i'
    OBVIOUS
  <2>2. Total(i)' = Total(k)' /\ Number(i)' = Number(k)'
    BY <2>1 DEF Total, Number, Crossable
  <2> QED
    BY <1>3, <2>1, <2>2
<1>5. LaneTotal(sum_vec)' = LaneTotal(sum_vec') /\ LaneTotal(count_vec)' = LaneTotal(count_vec')
  BY <1>1 DEF LaneTotal
<1>6. /\ LanesStand' <=> (pc' = "vector" => /\ Same(LaneTotal(sum_vec'), Total(i'))
                                            /\ LaneTotal(count_vec') = Number(i'))
      /\ ResultStands' <=> (pc' # "vector" => Same(result'.total, Total(i')) /\ result'.count = Number(i'))
  BY <1>4, <1>5 DEF LanesStand, ResultStands
<1>7. ScanTyped' <=> /\ pc' \in {"vector", "tail", "done"}
                     /\ pc' = "vector" => isa \in {"neon", "avx2"} /\ result'.count = 0
                     /\ sum_vec' \in [Lanes -> Quantity] /\ count_vec' \in [Lanes -> 0 .. n]
                     /\ result' \in ResultType
  BY <1>1, <1>2 DEF ScanTyped, ResultType, Quantity
<1>8. CASE VectorStep
  <2>1. /\ isa \in {"neon", "avx2"} /\ pc = "vector" /\ pc' = pc
        /\ result' = result /\ result \in ResultType /\ result.count = 0
    BY <1>8 DEF VectorStep, ScanInv, ScanTyped
  <2>2. VectorSums
    BY <1>8, <2>1, NeonSums, Avx2Sums
  <2> QED
    BY <1>6, <1>7, <2>1, <2>2 DEF VectorSums, ScanInv
<1>9. CASE Reduce
  <2>1. ReducedSums
    BY <1>9, ReduceSums
  <2>2. /\ pc = "vector" /\ pc' = "tail" /\ i' = i /\ sum_vec' = sum_vec /\ count_vec' = count_vec
        /\ ScanTyped /\ Same(LaneTotal(sum_vec), Total(i)) /\ LaneTotal(count_vec) = Number(i)
    BY <1>9 DEF Reduce, ScanInv, LanesStand
  <2>3. LaneTotal(sum_vec) \in Int /\ Total(i) \in Int /\ result'.total \in Int
    <3>1. i \in 0 .. n /\ n \in Nat
      BY <2>2, FullVectors DEF ScanTyped, IndexInv
    <3>2. Total(i) \in Int
      BY <2>2, <3>1, TotalTyped DEF ScanTyped
    <3>3. sum_vec \in [Lanes -> Int]
      BY <2>2, QuantityAssumption DEF ScanTyped, Quantity
    <3>4. /\ isa = "neon" => Lanes = {0, 1}
          /\ isa = "avx2" => Lanes = {0, 1, 2, 3}
          /\ isa \in {"neon", "avx2"}
      BY <2>2 DEF Lanes, LaneCount, ScanTyped
    <3>5. LaneTotal(sum_vec) \in Int
      BY <3>3, <3>4 DEF LaneTotal
    <3>6. result'.total \in Int
      BY <2>1, QuantityAssumption DEF ReducedSums, ResultType, Quantity
    <3> QED
      BY <3>2, <3>5, <3>6
  <2>4. Same(result'.total, Total(i)) /\ result'.count = Number(i)
    BY <2>1, <2>2, <2>3, SameIsEquivalence DEF ReducedSums
  <2> QED
    BY <1>6, <1>7, <2>1, <2>2, <2>4 DEF ReducedSums, ScanTyped, ScanInv
<1>10. CASE TailStep
  <2>1. /\ result' \in ResultType
        /\ Same(result'.total, Total(i + 1)) /\ result'.count = Number(i + 1)
    BY <1>10, TailSums
  <2>2. /\ pc = "tail" /\ pc' = "tail" /\ i' = i + 1 /\ sum_vec' = sum_vec /\ count_vec' = count_vec
        /\ ScanTyped
    BY <1>10 DEF TailStep, ScanInv
  <2> QED
    BY <1>6, <1>7, <2>1, <2>2 DEF ScanTyped, ScanInv
<1>11. CASE Return \/ UNCHANGED vars
  <2>1. /\ UNCHANGED <<i, sum_vec, count_vec, result>>
        /\ pc' = pc \/ (pc = "tail" /\ pc' = "done")
    BY <1>11 DEF Return, vars
  <2> QED
    BY <1>6, <1>7, <2>1 DEF ScanTyped, ScanInv, LanesStand, ResultStands
<1> QED
  BY <1>0, <1>8, <1>9, <1>10, <1>11 DEF Next

(* The invariant holds between any two iterations.                         *)
THEOREM ScanInvariance == Spec => []ScanInv
BY ScanInitially, ScanStep, PTL DEF Spec

(* Every variable has its type, a lane that of a Quantity.                 *)
THEOREM TypeCorrect == Spec => []TypeOK
<1>1. ScanInv => TypeOK
  <2> SUFFICES ASSUME ScanInv PROVE TypeOK
    OBVIOUS
  <2>1. ScanTyped /\ n \in Nat /\ VecEnd <= n /\ VecEnd \in Nat /\ i \in Nat
    BY FullVectors DEF ScanInv, ScanTyped, IndexInv
  <2>2. i <= n
    BY <2>1 DEF ScanTyped, IndexInv
  <2>3. result.count \in 0 .. n
    <3>1. CASE pc = "vector"
      BY <2>1, <3>1 DEF ScanTyped
    <3>2. CASE pc # "vector"
      <4>1. result.count = Number(i)
        BY <3>2 DEF ScanInv, ResultStands
      <4>2. Number(i) \in 0 .. i
        BY <2>1, <2>2, TotalTyped DEF ScanTyped
      <4> QED
        BY <2>1, <2>2, <4>1, <4>2
    <3> QED
      BY <3>1, <3>2
  <2>4. result \in [total : Quantity, count : 0 .. n, defined : BOOLEAN]
    BY <2>1, <2>3 DEF ScanTyped, ResultType
  <2> QED
    BY <2>1, <2>2, <2>4 DEF TypeOK, ScanTyped
<1> QED
  BY <1>1, ScanInvariance, PTL


(* Between two iterations, of either loop and in every build, the lanes    *)
(* (then the result) hold the sum and the number of the crossable levels   *)
(* among those scanned so far: for snapshots of any length, any prices and *)
(* quantities and any width, the three scans agree (price_scan.cpp:23-24). *)
THEOREM ScansAgree == Spec => []PrefixScanned
<1>1. ScanInv => PrefixScanned
  <2> SUFFICES ASSUME ScanInv PROVE PrefixScanned
    OBVIOUS
  <2>1. ScanTyped /\ n \in Nat /\ VecEnd <= n /\ VecEnd \in Nat /\ i \in Nat /\ i <= n
    BY FullVectors DEF ScanInv, ScanTyped, IndexInv
  <2>2. Total(i) \in Int /\ Total(i) = QuantityOf(Crossable(i)) /\ Number(i) = Cardinality(Crossable(i))
    BY <2>1, TotalTyped DEF ScanTyped, Total, Number
  <2>3. CASE pc = "vector"
    <3>1. isa \in {"neon", "avx2"} /\ Same(LaneTotal(sum_vec), Total(i)) /\ LaneTotal(count_vec) = Number(i)
      BY <2>1, <2>3 DEF ScanTyped, ScanInv, LanesStand
    <3>2. IsLaneVector(sum_vec) /\ IsLaneVector(count_vec)
      BY <2>1, QuantityAssumption DEF ScanTyped, IsLaneVector, Quantity
    <3>3. LaneSum(sum_vec) = LaneTotal(sum_vec) /\ LaneSum(count_vec) = LaneTotal(count_vec)
      BY <3>1, <3>2, LanesAdded DEF LaneTotal, LaneCount
    <3>4. LaneTotal(sum_vec) \in Int
      <4>1. /\ isa = "neon" => Lanes = {0, 1}
            /\ isa = "avx2" => Lanes = {0, 1, 2, 3}
        BY DEF Lanes, LaneCount
      <4> QED
        BY <3>1, <3>2, <4>1 DEF LaneTotal, IsLaneVector
    <3>5. Wrap(LaneTotal(sum_vec)) = Wrap(Total(i))
      BY <2>2, <3>1, <3>4, WrapOfSame
    <3> QED
      BY <2>2, <2>3, <3>1, <3>3, <3>5 DEF PrefixScanned
  <2>4. CASE pc # "vector"
    <3>1. PICK t : t = result.total
      OBVIOUS
    <3>2. t \in Quantity /\ t \in Int /\ Same(t, Total(i)) /\ result.count = Number(i)
      BY <2>1, <2>4, <3>1, QuantityAssumption DEF ScanTyped, ScanInv, ResultStands, ResultType, Quantity
    <3>3. t = Wrap(t)
      <4>1. Wrap(t) \in Quantity /\ Same(Wrap(t), t)
        BY <3>2, WrapIsSame
      <4> QED
        BY <3>2, <4>1, SameInWidth
    <3>4. Wrap(t) = Wrap(Total(i))
      BY <2>2, <3>2, WrapOfSame
    <3> QED
      BY <2>2, <2>4, <3>1, <3>2, <3>3, <3>4 DEF PrefixScanned
  <2> QED
    BY <2>3, <2>4
<1> QED
  BY <1>1, ScanInvariance, PTL


--------------------------------------------------------------------------------
(* A total that fits is never exceeded on the way.                         *)
NoNegative == \A m \in 1 .. n : levels[m].quantity >= 0
Fits == NoNegative /\ Total(n) <= MaxQuantity

LanesExact ==
    pc = "vector" => (\A j \in Lanes : sum_vec[j] >= 0) /\ LaneTotal(sum_vec) = Total(i)
FitsInv == Fits => result.defined /\ LanesExact

LEMMA TotalGrows ==
    ASSUME ArgumentsTyped, NoNegative, NEW m \in 0 .. n, NEW k \in 0 .. m
    PROVE  Total(k) <= Total(m)
<1>0. n \in Nat
  BY DEF ArgumentsTyped, n
<1> DEFINE Fails == {d \in 0 .. m : ~ (Total(m - d) <= Total(m))}
<1>1. Fails = {}
  <2> SUFFICES ASSUME Fails # {} PROVE FALSE
    OBVIOUS
  <2>0. Fails \subseteq Nat
    BY <1>0
  <2>1. PICK d \in Fails : \A e \in Fails : d <= e
    BY <2>0, LeastNatural
  <2>2. d \in 0 .. m /\ ~ (Total(m - d) <= Total(m))
    BY <2>1
  <2>3. Total(m) \in Int
    BY TotalTyped
  <2>4. d # 0
    <3>1. CASE d = 0
      <4>1. m - d = m
        BY <1>0, <3>1
      <4> QED
        BY <2>2, <2>3, <4>1
    <3> QED
      BY <3>1
  <2>5. d - 1 \in 0 .. m /\ d - 1 \notin Fails
    BY <1>0, <2>0, <2>1, <2>2, <2>4
  <2>6. Total(m - (d - 1)) <= Total(m)
    BY <2>5
  <2> HIDE DEF Fails
  <2>7. PICK a : a = m - d
    OBVIOUS
  <2>8. a \in Nat /\ a < n /\ a + 1 = m - (d - 1) /\ a + 1 \in 1 .. n
    BY <1>0, <2>2, <2>4, <2>7
  <2>9. Total(a) \in Int /\ Total(a + 1) = Total(a) + Added(a + 1)
    BY <2>8, ScannedMore
  <2>10. Added(a + 1) \in Int /\ Added(a + 1) >= 0
    BY <2>8, LevelTyped DEF NoNegative, Added
  <2>11. Total(a) <= Total(m)
    BY <2>3, <2>6, <2>8, <2>9, <2>10
  <2> QED
    BY <2>2, <2>7, <2>11
<1>2. m - k \in 0 .. m /\ m - (m - k) = k
  BY <1>0
<1> QED
  BY <1>1, <1>2

LEMMA TotalFits ==
    ASSUME ArgumentsTyped, Fits, NEW k \in 0 .. n
    PROVE  Total(k) \in Int /\ 0 <= Total(k) /\ Total(k) <= MaxQuantity /\ Total(k) \in Quantity
<1>0. n \in Nat /\ 0 \in 0 .. k /\ n \in 0 .. n
  BY DEF ArgumentsTyped, n
<1>1. Total(0) <= Total(k) /\ Total(k) <= Total(n) /\ Total(0) = 0
  BY <1>0, TotalGrows, ScannedNone DEF Fits
<1>2. Total(k) \in Int /\ Total(n) \in Int
  BY <1>0, TotalTyped
<1> QED
  BY <1>1, <1>2, QuantityAssumption DEF Fits, Quantity

LEMMA WrapExact ==
    ASSUME NEW a \in Quantity
    PROVE  Wrap(a) = a
<1>1. a \in Int
  BY QuantityAssumption DEF Quantity
<1>2. Wrap(a) \in Quantity /\ Same(Wrap(a), a)
  BY <1>1, WrapIsSame
<1> QED
  BY <1>2, SameInWidth

LEMMA StepExact ==
    ASSUME ScanTyped, NEW r \in ResultType, NEW j \in Lanes, r.defined, r.total + sum_vec[j] \in Quantity
    PROVE  /\ Step(r, j) \in ResultType /\ Step(r, j).defined
           /\ Step(r, j).total = r.total + sum_vec[j]
<1>1. n \in Nat
  BY FullVectors DEF ScanTyped, IndexInv
<1>2. sum_vec[j] \in Quantity /\ count_vec[j] \in Nat
  BY <1>1 DEF ScanTyped
<1>3. /\ Step(r, j) \in ResultType
      /\ Step(r, j).total = Wrap(r.total + sum_vec[j])
      /\ Step(r, j).defined <=> r.defined /\ r.total + sum_vec[j] \in Quantity
  BY <1>2, StepTyped DEF ResultType
<1> QED
  BY <1>3, WrapExact

LEMMA ReduceExact ==
    ASSUME Reduce, ScanInv, Fits, FitsInv
    PROVE  result'.defined
<1>1. ScanTyped /\ isa \in {"neon", "avx2"} /\ pc = "vector" /\ result.defined /\ LanesExact
  BY DEF Reduce, ScanInv, ScanTyped, FitsInv
<1>2. PICK s : s = sum_vec
  OBVIOUS
<1>3. \A j \in Lanes : s[j] \in Int /\ s[j] >= 0
  BY <1>1, <1>2, QuantityAssumption DEF ScanTyped, LanesExact, Quantity
<1>4. LaneTotal(s) \in Quantity
  <2>1. i \in 0 .. n /\ ArgumentsTyped
    BY <1>1, FullVectors DEF ScanTyped, IndexInv
  <2> QED
    BY <1>1, <1>2, <2>1, TotalFits DEF LanesExact
<1>5. PICK f, g : f = FirstLane /\ g = Step(f, 1)
  OBVIOUS
<1>6. f \in ResultType /\ f.total = s[0] /\ f.defined
  BY <1>1, <1>2, <1>5, FirstLaneTyped
<1>7. 0 \in Lanes /\ 1 \in Lanes
  BY <1>1 DEF Lanes, LaneCount
<1>8. CASE isa = "neon"
  <2>1. s[0] + s[1] \in Quantity
    BY <1>4, <1>8 DEF LaneTotal
  <2>2. g.defined
    BY <1>1, <1>2, <1>5, <1>6, <1>7, <2>1, StepExact
  <2> QED
    BY <1>1, <1>5, <1>8, <2>2, ReducedLanes
<1>9. CASE isa = "avx2"
  <2>1. 2 \in Lanes /\ 3 \in Lanes
    BY <1>9 DEF Lanes, LaneCount
  <2>2. s[0] + s[1] + s[2] + s[3] \in Quantity
    BY <1>4, <1>9 DEF LaneTotal
  <2>3. s[0] + s[1] \in Quantity /\ s[0] + s[1] + s[2] \in Quantity
    BY <1>3, <1>7, <2>1, <2>2, QuantityAssumption DEF Quantity
  <2>4. PICK h, k : h = Step(g, 2) /\ k = Step(h, 3)
    OBVIOUS
  <2>5. g \in ResultType /\ g.defined /\ g.total = s[0] + s[1]
    BY <1>1, <1>2, <1>5, <1>6, <1>7, <2>3, StepExact
  <2>6. h \in ResultType /\ h.defined /\ h.total = s[0] + s[1] + s[2]
    BY <1>1, <1>2, <2>1, <2>3, <2>4, <2>5, StepExact
  <2>7. k.defined
    BY <1>1, <1>2, <2>1, <2>2, <2>4, <2>6, StepExact
  <2> QED
    BY <1>1, <1>5, <1>9, <2>4, <2>7, ReducedLanes
<1> QED
  BY <1>1, <1>8, <1>9

LEMMA TailExact ==
    ASSUME TailStep, ScanInv, Fits, FitsInv
    PROVE  result'.defined
<1>1. /\ ArgumentsTyped /\ i \in Nat /\ n \in Nat /\ i + 1 \in 1 .. n /\ i \in 0 .. n /\ i + 1 \in 0 .. n /\ i < n
      /\ result \in ResultType /\ Same(result.total, Total(i)) /\ result.defined
  BY FullVectors DEF TailStep, ScanInv, ScanTyped, IndexInv, ResultStands, FitsInv
<1>2. PICK m, q, t : m = i + 1 /\ q = levels[m].quantity /\ t = result.total
  OBVIOUS
<1>3. t \in Quantity /\ q \in Int
  BY <1>1, <1>2, LevelTyped DEF ResultType
<1>4. t = Total(i)
  BY <1>1, <1>2, <1>3, TotalFits, SameInWidth
<1>5. CASE AtOrBetter(levels[m].price)
  <2>1. Total(m) = t + q
    BY <1>1, <1>2, <1>4, <1>5, ScannedMore DEF Added
  <2>2. t + q \in Quantity
    BY <1>1, <1>2, <2>1, TotalFits
  <2>3. PICK r : r = Add(result, q)
    OBVIOUS
  <2>4. r.defined = (result.defined /\ t + q \in Quantity) /\ "count" \in DOMAIN r
    BY <1>1, <1>2, <2>3 DEF Add, ResultType
  <2>5. result' = [r EXCEPT !.count = @ + 1]
    BY <1>2, <1>5, <2>3 DEF TailStep
  <2>6. result'.defined = r.defined
    BY <1>1, <1>2, <2>3, <2>5 DEF Add, ResultType
  <2> QED
    BY <1>1, <2>2, <2>4, <2>6
<1>6. CASE ~AtOrBetter(levels[m].price)
  BY <1>1, <1>2, <1>6 DEF TailStep
<1> QED
  BY <1>5, <1>6


VectorExact == (\A j \in Lanes : sum_vec'[j] >= 0) /\ LaneTotal(sum_vec') = Total(i')

LEMMA AddedFits ==
    ASSUME ArgumentsTyped, Fits, NEW m \in 1 .. n
    PROVE  Added(m) \in Int /\ Added(m) >= 0
BY LevelTyped DEF Fits, NoNegative, Added

LEMMA NeonExact ==
    ASSUME VectorStep, ScanInv, Fits, FitsInv, isa = "neon"
    PROVE  VectorExact
<1>1. /\ ArgumentsTyped /\ i \in Nat /\ n \in Nat /\ i + 2 <= n /\ i' = i + 2
      /\ i + 1 \in 1 .. n /\ i + 2 \in 1 .. n /\ i \in 0 .. n /\ i + 2 \in 0 .. n
  BY NeonVector, FullVectors DEF ScanInv, ScanTyped, IndexInv
<1>2. Lanes = {0, 1}
  BY DEF Lanes, LaneCount
<1>3. PICK s, t, a, b : /\ s = sum_vec[0] /\ t = sum_vec[1]
                        /\ a = Added(i + 1) /\ b = Added(i + 2)
  OBVIOUS
<1>4. s \in Int /\ t \in Int
  BY <1>2, <1>3, QuantityAssumption DEF ScanInv, ScanTyped, Quantity
<1>5. pc = "vector" /\ s >= 0 /\ t >= 0 /\ s + t = Total(i)
  BY <1>2, <1>3 DEF VectorStep, FitsInv, LanesExact, LaneTotal
<1>6. a \in Int /\ b \in Int /\ a >= 0 /\ b >= 0
  BY <1>1, <1>3, AddedFits
<1>7. Total(i + 2) = Total(i) + a + b /\ Total(i) \in Int /\ Total(i + 2) \in Quantity
  BY <1>1, <1>3, ScannedVector, TotalFits
<1>8. s + a \in Quantity /\ t + b \in Quantity
  BY <1>4, <1>5, <1>6, <1>7, QuantityAssumption DEF Quantity
<1>9. sum_vec' = [j \in Lanes |-> IF j = 0 THEN Wrap(s + a) ELSE Wrap(t + b)]
  BY <1>3, NeonVector
<1>10. sum_vec'[0] = s + a /\ sum_vec'[1] = t + b
  BY <1>2, <1>8, <1>9, WrapExact
<1>11. LaneTotal(sum_vec') = (s + a) + (t + b)
  BY <1>10 DEF LaneTotal
<1>12. (s + a) + (t + b) = Total(i + 2) /\ s + a >= 0 /\ t + b >= 0
  BY <1>4, <1>5, <1>6, <1>7
<1> QED
  BY <1>1, <1>2, <1>10, <1>11, <1>12 DEF VectorExact

LEMMA Avx2Exact ==
    ASSUME VectorStep, ScanInv, Fits, FitsInv, isa = "avx2"
    PROVE  VectorExact
<1>1. /\ ArgumentsTyped /\ i \in Nat /\ n \in Nat /\ i + 4 <= n /\ i' = i + 4
      /\ i + 1 \in 1 .. n /\ i + 2 \in 1 .. n /\ i + 3 \in 1 .. n /\ i + 4 \in 1 .. n
      /\ i \in 0 .. n /\ i + 4 \in 0 .. n
  BY Avx2Vector, FullVectors DEF ScanInv, ScanTyped, IndexInv
<1>2. Lanes = {0, 1, 2, 3}
  BY DEF Lanes, LaneCount
<1>3. PICK s0, s1, s2, s3, a1, a2, a3, a4 :
         /\ s0 = sum_vec[0] /\ s1 = sum_vec[1] /\ s2 = sum_vec[2] /\ s3 = sum_vec[3]
         /\ a1 = Added(i + 1) /\ a2 = Added(i + 2) /\ a3 = Added(i + 3) /\ a4 = Added(i + 4)
  OBVIOUS
<1>4. s0 \in Int /\ s1 \in Int /\ s2 \in Int /\ s3 \in Int
  BY <1>2, <1>3, QuantityAssumption DEF ScanInv, ScanTyped, Quantity
<1>5. /\ pc = "vector" /\ s0 >= 0 /\ s1 >= 0 /\ s2 >= 0 /\ s3 >= 0
      /\ s0 + s1 + s2 + s3 = Total(i)
  BY <1>2, <1>3 DEF VectorStep, FitsInv, LanesExact, LaneTotal
<1>6. /\ a1 \in Int /\ a2 \in Int /\ a3 \in Int /\ a4 \in Int
      /\ a1 >= 0 /\ a2 >= 0 /\ a3 >= 0 /\ a4 >= 0
  BY <1>1, <1>3, AddedFits
<1>7. Total(i + 4) = Total(i) + a1 + a2 + a3 + a4 /\ Total(i) \in Int /\ Total(i + 4) \in Quantity
  BY <1>1, <1>3, ScannedVector, TotalFits
<1>8. s0 + a1 \in Quantity /\ s1 + a3 \in Quantity /\ s2 + a2 \in Quantity /\ s3 + a4 \in Quantity
  BY <1>4, <1>5, <1>6, <1>7, QuantityAssumption DEF Quantity
<1>9. sum_vec' = [j \in Lanes |-> IF j = 0 THEN Wrap(s0 + a1) ELSE IF j = 1 THEN Wrap(s1 + a3)
                                  ELSE IF j = 2 THEN Wrap(s2 + a2) ELSE Wrap(s3 + a4)]
  BY <1>3, Avx2Vector
<1>10. /\ sum_vec'[0] = s0 + a1 /\ sum_vec'[1] = s1 + a3
       /\ sum_vec'[2] = s2 + a2 /\ sum_vec'[3] = s3 + a4
  BY <1>2, <1>8, <1>9, WrapExact
<1>11. LaneTotal(sum_vec') = (s0 + a1) + (s1 + a3) + (s2 + a2) + (s3 + a4)
  BY <1>10 DEF LaneTotal
<1>12. /\ (s0 + a1) + (s1 + a3) + (s2 + a2) + (s3 + a4) = Total(i + 4)
       /\ s0 + a1 >= 0 /\ s1 + a3 >= 0 /\ s2 + a2 >= 0 /\ s3 + a4 >= 0
  BY <1>4, <1>5, <1>6, <1>7
<1> QED
  BY <1>1, <1>2, <1>10, <1>11, <1>12 DEF VectorExact

LEMMA FitsInitially == Init => FitsInv
<1> SUFFICES ASSUME Init PROVE FitsInv
  OBVIOUS
<1>1. ScanInv
  BY ScanInitially
<1>2. /\ i = 0 /\ result.defined /\ sum_vec = [j \in Lanes |-> 0]
      /\ pc = "vector" => isa \in {"neon", "avx2"}
  BY <1>1 DEF Init, ScanInv, ScanTyped
<1>3. /\ isa = "neon" => Lanes = {0, 1}
      /\ isa = "avx2" => Lanes = {0, 1, 2, 3}
  BY DEF Lanes, LaneCount
<1>4. pc = "vector" => LaneTotal(sum_vec) = 0
  BY <1>2, <1>3 DEF LaneTotal
<1> QED
  BY <1>2, <1>4, ScannedNone DEF FitsInv, LanesExact

LEMMA FitsStep ==
    ASSUME ScanInv, FitsInv, [Next]_vars
    PROVE  FitsInv'
<1>0. Next \/ UNCHANGED vars
  OBVIOUS
<1>1. levels' = levels /\ isa' = isa /\ n' = n /\ Lanes' = Lanes
  BY <1>0, ArgumentsStay
<1>2. \A k : Total(k)' = Total(k)
  BY <1>0, TotalStays
<1>3. Total(i)' = Total(i')
  <2>1. PICK k : k = i'
    OBVIOUS
  <2>2. Total(i)' = Total(k)'
    BY <2>1 DEF Total, Crossable
  <2> QED
    BY <1>2, <2>1, <2>2
<1>4. Fits' <=> Fits
  <2>1. PICK k : k = n
    OBVIOUS
  <2>2. Total(n)' = Total(k)'
    BY <1>1, <2>1 DEF Total, Crossable
  <2>3. Total(n)' = Total(n)
    BY <1>2, <2>1, <2>2
  <2>4. NoNegative' <=> NoNegative
    BY <1>1 DEF NoNegative
  <2> QED
    BY <2>3, <2>4 DEF Fits
<1>5. LaneTotal(sum_vec)' = LaneTotal(sum_vec')
  BY <1>1 DEF LaneTotal
<1>6. LanesExact' <=> (pc' = "vector" => (\A j \in Lanes : sum_vec'[j] >= 0) /\ LaneTotal(sum_vec') = Total(i'))
  BY <1>1, <1>3, <1>5 DEF LanesExact
<1> SUFFICES ASSUME Fits PROVE result'.defined /\ LanesExact'
  BY <1>4 DEF FitsInv
<1>7. result.defined /\ LanesExact
  BY DEF FitsInv
<1>8. CASE VectorStep
  <2>1. isa \in {"neon", "avx2"} /\ result' = result
    BY <1>8 DEF VectorStep, ScanInv, ScanTyped
  <2>2. VectorExact
    BY <1>8, <2>1, NeonExact, Avx2Exact
  <2> QED
    BY <1>6, <1>7, <2>1, <2>2 DEF VectorExact
<1>9. CASE Reduce
  <2>1. result'.defined /\ pc' = "tail"
    BY <1>9, ReduceExact DEF Reduce
  <2> QED
    BY <1>6, <2>1
<1>10. CASE TailStep
  <2>1. result'.defined /\ pc' = "tail"
    BY <1>10, TailExact DEF TailStep
  <2> QED
    BY <1>6, <2>1
<1>11. CASE Return
  BY <1>6, <1>7, <1>11 DEF Return
<1>12. CASE UNCHANGED vars
  BY <1>6, <1>7, <1>12 DEF vars, LanesExact
<1> QED
  BY <1>0, <1>8, <1>9, <1>10, <1>11, <1>12 DEF Next

(* No scan overflows on a book whose crossable quantity a Quantity can     *)
(* hold, in whatever order it adds (price_scan.cpp:20-42, 81-93, 160-178). *)
THEOREM NoOverflowWhenItFits == Spec => []DefinedWhenItFits
<1>1. FitsInv => DefinedWhenItFits
  BY DEF FitsInv, Fits, NoNegative, Total, DefinedWhenItFits
<1> QED
  BY <1>1, FitsInitially, FitsStep, ScanInvariance, PTL DEF Spec
================================================================================
