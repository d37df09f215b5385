------------------------------- MODULE PriceScan -------------------------------
(***************************************************************************)
(* The three price scans of src/price_scan.cpp: how much quantity, over    *)
(* how many levels, is at or better than a limit.  They differ in how they *)
(* walk the array: NEON takes two levels at a time, AVX2 four, in lanes    *)
(* that are added up at the end, and a scalar loop takes what is left; the *)
(* scalar scan is that loop alone.  One step is one iteration.             *)
(*                                                                         *)
(* Quantities are signed integers of a fixed width.  Lane additions wrap;  *)
(* a scalar addition that overflows is undefined behaviour, which is       *)
(* recorded (its outcome on the machines in question is the wrapped sum).  *)
(***************************************************************************)
EXTENDS Integers, Sequences, FiniteSetsExt

CONSTANTS LevelChoices,    \* [price, quantity] of a level of the snapshot
          MaxLevels,       \* bound: the longest snapshot
          Limits,          \* limit prices callers pass
          MaxQuantity      \* the largest Quantity, 2^63 - 1 in the code

ASSUME LevelsAssumption == LevelChoices \subseteq [price : Int, quantity : Int]
ASSUME LimitsAssumption == Limits \subseteq Int /\ MaxLevels \in Nat
ASSUME QuantityAssumption ==
    /\ MaxQuantity \in Nat
    /\ \A c \in LevelChoices : c.quantity \in -MaxQuantity - 1 .. MaxQuantity

VARIABLES levels, limit_price, side,    \* the arguments
          isa,                          \* which scan the build dispatches to
          pc, i,                        \* which loop is running, and its index
          sum_vec, count_vec,           \* one number per lane
          result                        \* total, count, and whether it is defined

vars == <<levels, limit_price, side, isa, pc, i, sum_vec, count_vec, result>>
arguments == <<levels, limit_price, side, isa>>

--------------------------------------------------------------------------------
Sides == {"Buy", "Sell"}
n == Len(levels)
LaneCount == [scalar |-> 1, neon |-> 2, avx2 |-> 4]
Lanes == 0 .. LaneCount[isa] - 1

Quantity == -MaxQuantity - 1 .. MaxQuantity
NoWrap(q) == q                                   \* variant: wider lanes
Wrap(q) == ((q + MaxQuantity + 1) % (2 * (MaxQuantity + 1))) - MaxQuantity - 1

(* Whether a price is at or better than the limit: the scalar test, which  *)
(* NEON has as an instruction, and what AVX2 builds from its only          *)
(* comparison, greater-than, and a complement.                             *)
AtOrBetter(price) == IF side = "Buy" THEN price <= limit_price ELSE price >= limit_price
NotWorse(price) == ~(IF side = "Buy" THEN price > limit_price ELSE limit_price > price)
NoMask(price) == TRUE                            \* variant: the mask is not applied
Mask(price) == IF isa = "avx2" THEN NotWorse(price) ELSE AtOrBetter(price)

(* Memory as the vector loads see it: price and quantity alternate.        *)
Word(w) == IF w % 2 = 0 THEN levels[w \div 2 + 1].price ELSE levels[w \div 2 + 1].quantity

(* What lane j of the two vectors holds: vld2q_s64 splits four words by    *)
(* parity; the unpacks take from two four-word loads the even (odd) words  *)
(* of each half, lo and hi in turn.                                        *)
UnpackedFrom(j, half) == 4 * (j % 2) + 2 * (j \div 2) + half
LanePrice(j) == Word(2 * i + (IF isa = "avx2" THEN UnpackedFrom(j, 0) ELSE 2 * j))
LaneQuantityInOrder(j) == Word(2 * i + 2 * j + 1)  \* variant: quantities not shuffled
LaneQuantity(j) == Word(2 * i + (IF isa = "avx2" THEN UnpackedFrom(j, 1) ELSE 2 * j + 1))

VecEndRoundedUp == n + LaneCount[isa] - 1 - ((n + LaneCount[isa] - 1) % LaneCount[isa])  \* variant
VecEnd == n - (n % LaneCount[isa])

(* total += q, in scalar code.                                             *)
Add(r, q) == [r EXCEPT !.total = Wrap(@ + q), !.defined = (@ /\ r.total + q \in Quantity)]

Init ==
    /\ levels \in UNION {[1 .. len -> LevelChoices] : len \in 0 .. MaxLevels}
    /\ limit_price \in Limits /\ side \in Sides
    /\ isa \in DOMAIN LaneCount
    /\ pc = IF isa = "scalar" THEN "tail" ELSE "vector"
    /\ i = 0
    /\ sum_vec = [j \in Lanes |-> 0] /\ count_vec = [j \in Lanes |-> 0]
    /\ result = [total |-> 0, count |-> 0, defined |-> TRUE]

(* Lines 62-79, 121-158: a vector of levels, masked, is added lane by lane.*)
VectorStep ==
    /\ pc = "vector" /\ i < VecEnd
    /\ sum_vec' = [j \in Lanes |-> Wrap(sum_vec[j] + (IF Mask(LanePrice(j)) THEN LaneQuantity(j) ELSE 0))]
    /\ count_vec' = [j \in Lanes |-> count_vec[j] + (IF Mask(LanePrice(j)) THEN 1 ELSE 0)]
    /\ i' = i + LaneCount[isa]
    /\ UNCHANGED <<pc, result, arguments>>

(* Lines 81-83, 160-167: the lanes are added up in scalar code, from the   *)
(* first to the last.                                                      *)
Reduce ==
    /\ pc = "vector" /\ i >= VecEnd
    /\ LET upTo[j \in Lanes] == IF j = 0 THEN [result EXCEPT !.total = sum_vec[0], !.count = count_vec[0]]
                                ELSE [Add(upTo[j - 1], sum_vec[j]) EXCEPT !.count = @ + count_vec[j]]
       IN result' = upTo[LaneCount[isa] - 1]
    /\ pc' = "tail"
    /\ UNCHANGED <<i, sum_vec, count_vec, arguments>>

(* Lines 24-42, 86-93, 171-178.                                            *)
TailStep ==
    /\ pc = "tail" /\ i < n
    /\ LET level == levels[i + 1]
       IN result' = IF AtOrBetter(level.price) THEN [Add(result, level.quantity) EXCEPT !.count = @ + 1]
                    ELSE result
    /\ i' = i + 1
    /\ UNCHANGED <<pc, sum_vec, count_vec, arguments>>

Return ==
    /\ pc = "tail" /\ i >= n
    /\ pc' = "done"
    /\ UNCHANGED <<i, sum_vec, count_vec, result, arguments>>

Next == VectorStep \/ Reduce \/ TailStep \/ Return
Spec == Init /\ [][Next]_vars

--------------------------------------------------------------------------------
(* The levels the scan is to report, among the first k: what the header    *)
(* says of a level "at or better" (price_scan.hpp:39-45).                  *)
Crossable(k) ==
    {m \in 1 .. k : \/ side = "Buy" /\ levels[m].price <= limit_price
                    \/ side = "Sell" /\ levels[m].price >= limit_price}
QuantityOf(indices) == MapThenSumSet(LAMBDA m : levels[m].quantity, indices)
LaneSum(v) == MapThenSumSet(LAMBDA j : v[j], Lanes)

(* Every variable has its type; a lane never leaves the width of a         *)
(* Quantity.                                                               *)
TypeOK ==
    /\ pc \in {"vector", "tail", "done"} /\ i \in 0 .. n
    /\ sum_vec \in [Lanes -> Quantity] /\ count_vec \in [Lanes -> 0 .. n]
    /\ result \in [total : Quantity, count : 0 .. n, defined : BOOLEAN]

(* Between two iterations, of either loop and in every build, the lanes    *)
(* (then the result) hold the sum and the number of the crossable levels   *)
(* among those scanned so far, the sum modulo the width: no lane pairs a   *)
(* price with another level's quantity, no level is skipped or counted     *)
(* twice where the loops meet, an equal price counts, and the three scans  *)
(* agree bit for bit (price_scan.cpp:23-24).                               *)
PrefixScanned ==
    LET scanned == Crossable(i)
    IN IF pc = "vector"
       THEN /\ Wrap(LaneSum(sum_vec)) = Wrap(QuantityOf(scanned))
            /\ LaneSum(count_vec) = Cardinality(scanned)
       ELSE /\ result.total = Wrap(QuantityOf(scanned))
            /\ result.count = Cardinality(scanned)

(* A vector load never reads past the end of the snapshot                  *)
(* (price_scan.cpp:61, 120).                                               *)
LoadsInBounds == pc = "vector" /\ i < VecEnd => i + LaneCount[isa] <= n

(* No scan overflows on a book whose crossable quantity a Quantity can     *)
(* hold, in whatever order it adds: with no negative quantity, a lane or a *)
(* partial sum is never more than the total.                               *)
DefinedWhenItFits ==
    (\A m \in 1 .. n : levels[m].quantity >= 0) /\ QuantityOf(Crossable(n)) <= MaxQuantity
        => result.defined
================================================================================
