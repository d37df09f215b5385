---------------------------- MODULE BenchMain_proofs ----------------------------
(***************************************************************************)
(* The report on pinning is true on any machine, and each call of each     *)
(* workload does the work its row names: for any number of iterations,     *)
(* cores, slots and clock readings.                                        *)
(***************************************************************************)
EXTENDS BenchMain, FiniteSetTheorems, TLAPS

--------------------------------------------------------------------------------
(* What the driver has done with the thread, and what the scheduler may    *)
(* still do: before the attempt nothing, after it what it reported.        *)
PinInv ==
    /\ running \in affinity
    /\ pc = "pin" => affinity = usable /\ pin = NoCore /\ shown_core = NoCore
    /\ pc # "pin" =>
          IF pin.outcome = "Pinned"
          THEN platform = "linux" /\ affinity = {CoreId} /\ shown_core \in {CoreId, NoCore}
          ELSE affinity = usable /\ (platform # "linux" => shown_core = NoCore)

(* The attempt, on each platform.                                          *)
LEMMA ReportPinStep ==
    ASSUME PinInv, ReportPin
    PROVE  PinInv'
<1>1. running \in affinity /\ affinity = usable /\ shown_core' = NoCore /\ pc' = "core"
  BY DEF PinInv, ReportPin
<1>2. Affinity!PinLinux(CoreId) \/ Affinity!PinApple(CoreId) \/ Affinity!PinOther(CoreId)
  BY DEF ReportPin, Affinity!pin_current_thread_to_core
<1>3. CASE Affinity!PinLinux(CoreId)
  <2>1. Affinity!CpuSet(CoreId) = {CoreId}
    BY DEF Affinity!CpuSet, Affinity!CPU_SETSIZE, CoreId
  <2>2. CASE Affinity!SetAffinity(Affinity!CpuSet(CoreId)) /\ pin' = Affinity!PinResult("Pinned", 0)
    BY <1>1, <1>3, <2>1, <2>2
    DEF PinInv, Affinity!SetAffinity, Affinity!PinResult, Affinity!PinLinux
  <2>3. CASE /\ \E rc \in Affinity!Refusals(CoreId) : pin' = Affinity!PinResult("Unsupported", rc)
             /\ UNCHANGED <<affinity, running>>
    BY <1>1, <1>3, <2>3 DEF PinInv, Affinity!PinResult, Affinity!PinLinux
  <2> QED
    BY <1>3, <2>2, <2>3 DEF Affinity!PinLinux
<1>4. CASE Affinity!PinApple(CoreId)
  BY <1>1, <1>4 DEF PinInv, Affinity!PinApple, Affinity!PinResult
<1>5. CASE Affinity!PinOther(CoreId)
  BY <1>1, <1>5 DEF PinInv, Affinity!PinOther, Affinity!PinResult
<1> QED
  BY <1>2, <1>3, <1>4, <1>5

(* Any other step of the driver leaves the thread's affinity alone.        *)
LEMMA DriverKeepsAffinity ==
    ASSUME PinInv, Driver, ~ReportPin
    PROVE  UNCHANGED affinity_vars /\ pc # "pin" /\ pc' # "pin" /\ (shown_core' = shown_core \/ ReportCore)
<1> USE DEF driver_vars
<1>1. CASE ReportCore
  BY <1>1 DEF ReportCore
<1>2. CASE Begin \/ Seed \/ SeedDone \/ Insert
  BY <1>2 DEF Begin, Seed, SeedDone, Insert, Submit
<1>3. CASE \E d \in Durations : Call(d)
  BY <1>3 DEF Call
<1>4. CASE InsertWorkload \/ CancelWorkload \/ PushWorkload \/ PopWorkload \/ ScanWorkload
  BY <1>4 DEF InsertWorkload, CancelWorkload, PushWorkload, PopWorkload, ScanWorkload, Submit
<1>5. CASE Reduce \/ PrintRow
  BY <1>5 DEF Reduce, PrintRow
<1> QED
  BY <1>1, <1>2, <1>3, <1>4, <1>5 DEF Driver

(* The strengthening is inductive.                                         *)
THEOREM PinInvariance == Spec => []PinInv
<1>1. Init => PinInv
  BY DEF Init, Affinity!Init, PinInv
<1>2. ASSUME PinInv, [Next]_vars
      PROVE  PinInv'
  <2>1. CASE ReportPin
    BY <1>2, <2>1, ReportPinStep
  <2>2. CASE Driver /\ ~ReportPin
    <3>1. UNCHANGED <<platform, usable, affinity, running, pin>> /\ pc # "pin" /\ pc' # "pin"
      BY <1>2, <2>2, DriverKeepsAffinity DEF affinity_vars
    <3>2. CASE shown_core' = shown_core
      BY <1>2, <3>1, <3>2 DEF PinInv
    <3>3. CASE ReportCore
      <4>1. shown_core' \in IF platform = "linux" THEN {running, NoCore} ELSE {NoCore}
        BY <3>3 DEF ReportCore, Affinity!current_core_id
      <4> QED
        BY <1>2, <3>1, <4>1 DEF PinInv
    <3> QED
      BY <1>2, <2>2, <3>2, <3>3, DriverKeepsAffinity
  <2>3. CASE Scheduler
    BY <1>2, <2>3 DEF PinInv, Scheduler, Affinity!Migrate, driver_vars
  <2>4. CASE UNCHANGED vars
    BY <1>2, <2>4 DEF PinInv, vars, affinity_vars, driver_vars
  <2> QED
    BY <1>2, <2>1, <2>2, <2>3, <2>4 DEF Next
<1> QED
  BY <1>1, <1>2, PTL DEF Spec

(* A printed Pinned is true from then on, whatever the scheduler does; any *)
(* other outcome has left the thread as it was (report_pin_attempt).       *)
THEOREM PinReportIsTrue == Spec => []PinReportHolds
<1>1. PinInv => PinReportHolds
  BY DEF PinInv, PinReportHolds
<1> QED
  BY <1>1, PinInvariance, PTL

--------------------------------------------------------------------------------
(* The book a workload runs on, in full: the orders from lo to hi that     *)
(* were added first, in the order of their ids.                            *)
At(i, side) ==
    [id |-> i, side |-> side, price |-> kFixedPrice, quantity |-> 1, sequence |-> i - 1]
Orders(lo, hi, side) == {At(i, side) : i \in lo .. hi}
SeedSide == IF workload = "crossing" THEN "Sell" ELSE "Buy"

(* Calls are counted by the harness: never more than there are seeds.      *)
CallsInv ==
    /\ measured_iters = kMeasuredIters
    /\ calls \in Seq(Durations) /\ samples_ns \in Seq(Durations)
    /\ Len(samples_ns) <= kMeasuredIters
    /\ IF Len(calls) < kWarmupIters THEN Len(samples_ns) = 0
       ELSE Len(calls) = kWarmupIters + Len(samples_ns)

(* Where a workload stands after j calls.                                  *)
After(j) ==
    /\ workload = "resting" =>
          /\ incoming = NoOrder /\ resting = Orders(1, j, "Buy") /\ trades = <<>>
          /\ next = j + 1 /\ next_sequence = j
    /\ workload = "crossing" =>
          /\ incoming = NoOrder /\ resting = Orders(j + 1, total_iters, "Sell")
          /\ j > 0 => Len(trades) = 1 /\ trades[1].resting = j
          /\ next = FirstBuyId + j /\ next_sequence = total_iters + j
    /\ workload = "cancel" =>
          /\ incoming = NoOrder /\ resting = Orders(j + 1, total_iters, "Buy")
          /\ j > 0 => outcome = "cancelled"
          /\ next = j + 1
    /\ workload = "round_trip" =>
          /\ queue = <<>> /\ next = j
          /\ j > 0 => sink.round_trip = j - 1
    /\ workload \in DOMAIN Depth =>
          (j > 0 => sink.scan = 10 * (Depth[workload] \div 2 + 1))

(* The call number j is in add_limit_order: before its trade, if there is  *)
(* one to come, or after it.                                               *)
Inserting(j) ==
    \/ /\ workload = "resting" /\ next = j + 1 /\ next_sequence = j - 1
       /\ incoming = Order(j, "Buy")
       /\ resting = Orders(1, j - 1, "Buy") /\ trades = <<>>
    \/ /\ workload = "crossing" /\ next = FirstBuyId + j /\ next_sequence = total_iters + j - 1
       /\ incoming = Order(FirstBuyId + j - 1, "Buy")
       /\ resting = Orders(j, total_iters, "Sell") /\ trades = <<>>
    \/ /\ workload = "crossing" /\ next = FirstBuyId + j /\ next_sequence = total_iters + j
       /\ incoming = [Order(FirstBuyId + j - 1, "Buy") EXCEPT !.quantity = 0]
       /\ resting = Orders(j + 1, total_iters, "Sell")
       /\ Len(trades) = 1 /\ trades[1].resting = j

SeedingInv ==
    /\ pc \in {"seed", "seeding"} => workload \in Seeded /\ calls = <<>>
    /\ pc = "seed" =>
          /\ next \in 1 .. total_iters + 1 /\ next_sequence = next - 1
          /\ incoming = NoOrder /\ resting = Orders(1, next - 1, SeedSide)
    /\ pc = "seeding" =>
          /\ next \in 2 .. total_iters + 1 /\ next_sequence = next - 2
          /\ incoming = Order(next - 1, SeedSide) /\ resting = Orders(1, next - 2, SeedSide)

WorkloadInv ==
    LET k == Len(calls)
    IN /\ pc = "measure" => After(k)
       /\ pc = "call" => k \in 1 .. total_iters /\ After(k - 1)
       /\ pc = "inserting" => k \in 1 .. total_iters /\ Inserting(k)
       /\ pc = "pop" => workload = "round_trip" /\ k > 0 /\ next = k /\ queue = <<k - 1>>

WorkInv == CallsInv /\ SeedingInv /\ WorkloadInv /\ pc # "terminated"

SinksInv == DOMAIN sink = {"round_trip", "scan"}

--------------------------------------------------------------------------------
(* The numbers involved.                                                   *)
LEMMA Numbers ==
    /\ total_iters \in Nat /\ total_iters > 0 /\ Seeds = total_iters
    /\ FirstBuyId \in Nat /\ FirstBuyId > total_iters
BY IterationsAssumption, IdsAssumption DEF total_iters, Seeds, FirstBuyId

(* No order is mistaken for the absence of one.                            *)
LEMMA OrderIsSome ==
    ASSUME NEW id \in Nat, NEW side \in {"Buy", "Sell"}
    PROVE  /\ Order(id, side) # NoOrder
           /\ [Order(id, side) EXCEPT !.quantity = 0] # NoOrder
<1>1. kFixedPrice \in Int
  BY DEF kFixedPrice
<1>2. Order(id, side) \in [id : Nat, side : {"Buy", "Sell"}, price : Int, quantity : Int]
  BY <1>1 DEF Order
<1>3. [Order(id, side) EXCEPT !.quantity = 0]
         \in [id : Nat, side : {"Buy", "Sell"}, price : Int, quantity : Int]
  BY <1>1 DEF Order
<1> QED
  BY <1>2, <1>3, NoOrderAssumption

(* An id rests exactly if it is in the interval.                           *)
LEMMA RestingIds ==
    ASSUME NEW lo \in Int, NEW hi \in Int, NEW side, resting = Orders(lo, hi, side)
    PROVE  /\ {r.id : r \in resting} = lo .. hi
           /\ \A id : Book!IsResting(id) <=> id \in lo .. hi
<1>1. \A i \in lo .. hi : At(i, side) \in resting /\ At(i, side).id = i
  BY DEF Orders, At
<1>2. \A r \in resting : r.id \in lo .. hi
  BY DEF Orders, At
<1> QED
  BY <1>1, <1>2 DEF Book!IsResting

(* Nothing crosses an order of the side that rests; any order of the other *)
(* side is crossed by all of them, since there is one price.               *)
LEMMA SameSideNeverCrosses ==
    ASSUME NEW lo \in Int, NEW hi \in Int, NEW side, resting = Orders(lo, hi, side),
           incoming.side = side
    PROVE  Book!Crossing = {}
BY DEF Orders, At, Book!Crossing, Book!Crosses

LEMMA EveryAskCrosses ==
    ASSUME NEW lo \in Int, NEW hi \in Int, resting = Orders(lo, hi, "Sell"),
           incoming.side = "Buy", incoming.price = kFixedPrice
    PROVE  Book!Crossing = resting
<1>1. \A r \in resting : r.side = "Sell" /\ r.price = kFixedPrice
  BY DEF Orders, At
<1>2. kFixedPrice <= kFixedPrice
  BY DEF kFixedPrice
<1> QED
  BY <1>1, <1>2 DEF Book!Crossing, Book!Crosses

(* One order more, and one less at either end.                             *)
LEMMA OneMore ==
    ASSUME NEW lo \in Int, NEW hi \in Int, NEW side, lo <= hi + 1
    PROVE  Orders(lo, hi + 1, side) = Orders(lo, hi, side) \cup {At(hi + 1, side)}
<1>1. lo .. hi + 1 = (lo .. hi) \cup {hi + 1}
  OBVIOUS
<1> QED
  BY <1>1 DEF Orders

LEMMA OldestGone ==
    ASSUME NEW lo \in Int, NEW hi \in Int, NEW side, lo <= hi
    PROVE  /\ Orders(lo + 1, hi, side) = Orders(lo, hi, side) \ {At(lo, side)}
           /\ Orders(lo + 1, hi, side) = {r \in Orders(lo, hi, side) : r.id # lo}
<1>1. lo .. hi = (lo + 1 .. hi) \cup {lo} /\ lo \notin lo + 1 .. hi
  OBVIOUS
<1>2. \A i \in lo .. hi : At(i, side).id = i
  BY DEF At
<1> QED
  BY <1>1, <1>2 DEF Orders

--------------------------------------------------------------------------------
(* Every bench_ function starts with nothing called and an empty book.     *)
LEMMA BeginStep ==
    ASSUME WorkInv, Begin
    PROVE  WorkInv'
<1>1. /\ calls' = <<>> /\ samples_ns' = <<>> /\ measured_iters' = kMeasuredIters
      /\ incoming' = NoOrder /\ resting' = {} /\ trades' = <<>> /\ next_sequence' = 0
      /\ queue' = <<>>
      /\ pc' = IF workload' \in Seeded THEN "seed" ELSE "measure"
      /\ next' = IF workload' = "round_trip" THEN 0 ELSE 1
  BY DEF Begin, NewComponents
<1>2. Len(calls') = 0 /\ Len(samples_ns') = 0 /\ kMeasuredIters \in Nat /\ kWarmupIters \in Nat
  BY <1>1, IterationsAssumption
<1>3. CallsInv'
  BY <1>1, <1>2 DEF CallsInv
<1>4. \A side : Orders(1, 0, side) = {}
  BY DEF Orders
<1>5. SeedingInv'
  BY <1>1, <1>4, Numbers DEF SeedingInv, Seeded
<1>6. pc' = "measure" => After(0)'
  BY <1>1, <1>4 DEF After, Seeded, Depth
<1>7. WorkloadInv'
  BY <1>1, <1>2, <1>6 DEF WorkloadInv, After
<1> QED
  BY <1>1, <1>3, <1>5, <1>7 DEF WorkInv

(* A seed is accepted, since its id is new.                                *)
LEMMA SeedStep ==
    ASSUME WorkInv, Seed
    PROVE  WorkInv'
<1>1. /\ pc = "seed" /\ next \in 1 .. total_iters /\ next_sequence = next - 1
      /\ incoming = NoOrder /\ resting = Orders(1, next - 1, SeedSide)
      /\ workload \in Seeded /\ calls = <<>>
  BY Numbers DEF Seed, WorkInv, SeedingInv
<1>2. ~Book!IsResting(next)
  BY <1>1, RestingIds, Numbers
<1>3. Submit(Order(next, SeedSide))
  BY <1>1 DEF Seed, SeedSide
<1>4. ~Book!Refuse(Order(next, SeedSide))
  BY <1>2 DEF Book!Refuse, Order
<1>5. /\ pc' = "seeding" /\ incoming' = Order(next, SeedSide)
      /\ resting' = resting /\ next_sequence' = next_sequence
  BY <1>1, <1>3, <1>4 DEF Submit, Book!Submit
<1>6. UNCHANGED <<harness_vars, workload>> /\ next' = next + 1
  BY DEF Seed
<1>7. CallsInv' /\ calls' = calls /\ SeedSide' = SeedSide
  BY <1>6 DEF WorkInv, CallsInv, harness_vars, SeedSide
<1>8. next' \in 2 .. total_iters + 1 /\ next' - 1 = next /\ next' - 2 = next - 1
  BY <1>1, <1>6, Numbers
<1>9. SeedingInv'
  BY <1>1, <1>5, <1>6, <1>7, <1>8 DEF SeedingInv
<1> QED
  BY <1>5, <1>7, <1>9 DEF WorkInv, WorkloadInv

(* All seeds are there: no call has been made.                             *)
LEMMA SeedDoneStep ==
    ASSUME WorkInv, SeedDone
    PROVE  WorkInv'
<1>1. /\ next = total_iters + 1 /\ next_sequence = total_iters
      /\ incoming = NoOrder /\ resting = Orders(1, total_iters, SeedSide)
      /\ workload \in Seeded /\ calls = <<>>
  BY Numbers DEF SeedDone, WorkInv, SeedingInv
<1>2. /\ UNCHANGED <<book_vars, harness_vars, workload>> /\ pc' = "measure"
      /\ next' = IF workload = "crossing" THEN FirstBuyId ELSE 1
  BY DEF SeedDone
<1>3. CallsInv' /\ SeedingInv' /\ Len(calls') = 0
  BY <1>1, <1>2 DEF WorkInv, CallsInv, SeedingInv, harness_vars
<1>4. After(0)'
  BY <1>1, <1>2, Numbers DEF After, Seeded, SeedSide, Depth, book_vars
<1>5. WorkloadInv'
  BY <1>2, <1>3, <1>4 DEF WorkloadInv, After
<1> QED
  BY <1>2, <1>3, <1>5 DEF WorkInv

--------------------------------------------------------------------------------
(* The harness makes one call more, and there are never more than seeds.   *)
LEMMA CallStep ==
    ASSUME WorkInv, NEW d \in Durations, Call(d)
    PROVE  WorkInv'
<1>1. /\ pc = "measure" /\ pc' = "call"
      /\ UNCHANGED <<book_vars, ring_vars, workload, next, sink>>
  BY DEF Call
<1>2. CallsInv /\ After(Len(calls)) /\ kWarmupIters \in Nat /\ kMeasuredIters \in Nat
  BY <1>1, IterationsAssumption DEF WorkInv, WorkloadInv
<1>3. /\ CallsInv'
      /\ Len(calls') = Len(calls) + 1 /\ Len(calls') \in 1 .. total_iters
  <2>1. /\ Len(Append(calls, d)) = Len(calls) + 1 /\ Append(calls, d) \in Seq(Durations)
        /\ Len(Append(samples_ns, d)) = Len(samples_ns) + 1
        /\ Append(samples_ns, d) \in Seq(Durations)
        /\ Len(calls) \in Nat /\ Len(samples_ns) \in Nat
    BY <1>2 DEF CallsInv
  <2>2. /\ UNCHANGED measured_iters /\ calls' \in Seq(Durations)
        /\ Len(calls') = Len(calls) + 1
    BY <2>1 DEF Call, Harness!Warmup, Harness!Measure
  <2>3. CASE Harness!Warmup(d)
    <3>1. Len(calls) < kWarmupIters /\ samples_ns' = samples_ns
      BY <2>3 DEF Harness!Warmup
    <3> QED
      BY <1>2, <2>1, <2>2, <3>1 DEF CallsInv, total_iters
  <2>4. CASE Harness!Measure(d)
    <3>1. /\ Len(calls) >= kWarmupIters /\ Len(samples_ns) < measured_iters
          /\ samples_ns' = Append(samples_ns, d)
      BY <2>4 DEF Harness!Measure
    <3> QED
      BY <1>2, <2>1, <2>2, <3>1 DEF CallsInv, total_iters
  <2> QED
    BY <2>3, <2>4 DEF Call
<1>4. PICK j \in Nat : j = Len(calls)
  BY <1>2 DEF CallsInv
<1>5. After(j)'
  BY <1>1, <1>2, <1>4 DEF After, book_vars, ring_vars
<1>6. Len(calls') = j + 1 /\ Len(calls') \in 1 .. total_iters /\ j + 1 - 1 = j
  BY <1>3, <1>4
<1>7. WorkloadInv'
  BY <1>1, <1>5, <1>6 DEF WorkloadInv, After
<1> QED
  BY <1>1, <1>3, <1>7 DEF WorkInv, SeedingInv

(* The workload submits a buy of an id that does not rest.                 *)
LEMMA InsertWorkloadStep ==
    ASSUME WorkInv, InsertWorkload
    PROVE  WorkInv'
<1>1. /\ pc = "call" /\ workload \in {"resting", "crossing"} /\ next' = next + 1
      /\ UNCHANGED <<harness_vars, workload>> /\ Submit(Order(next, "Buy"))
  BY DEF InsertWorkload
<1>2. PICK j \in 1 .. total_iters : j = Len(calls)
  BY <1>1 DEF WorkInv, WorkloadInv
<1>3. /\ After(j - 1) /\ j \in Nat /\ j - 1 \in Nat
      /\ j - 1 + 1 = j
  BY <1>1, <1>2, Numbers DEF WorkInv, WorkloadInv
<1>4. ~Book!IsResting(next)
  <2>1. CASE workload = "resting"
    <3>1. next = j /\ resting = Orders(1, j - 1, "Buy")
      BY <1>3, <2>1 DEF After
    <3> QED
      BY <1>3, <3>1, RestingIds
  <2>2. CASE workload = "crossing"
    <3>1. next = FirstBuyId + (j - 1) /\ resting = Orders(j, total_iters, "Sell")
      BY <1>3, <2>2 DEF After
    <3>2. next \notin j .. total_iters
      BY <1>3, <3>1, Numbers
    <3> QED
      BY <1>3, <3>1, <3>2, RestingIds, Numbers
  <2> QED
    BY <1>1, <2>1, <2>2
<1>5. ~Book!Refuse(Order(next, "Buy"))
  BY <1>4 DEF Book!Refuse, Order
<1>6. /\ pc' = "inserting" /\ incoming' = Order(next, "Buy") /\ trades' = <<>>
      /\ resting' = resting /\ next_sequence' = next_sequence
  BY <1>1, <1>5 DEF Submit, Book!Submit
<1>7. Inserting(j)'
  <2>1. CASE workload = "resting"
    <3>1. /\ next = j /\ resting = Orders(1, j - 1, "Buy") /\ next_sequence = j - 1
      BY <1>3, <2>1 DEF After
    <3> QED
      BY <1>1, <1>3, <1>6, <2>1, <3>1 DEF Inserting
  <2>2. CASE workload = "crossing"
    <3>1. /\ next = FirstBuyId + (j - 1) /\ resting = Orders(j, total_iters, "Sell")
          /\ next_sequence = total_iters + (j - 1)
      BY <1>3, <2>2 DEF After
    <3>2. /\ next = FirstBuyId + j - 1 /\ next + 1 = FirstBuyId + j
          /\ next_sequence = total_iters + j - 1
      BY <1>3, <3>1, Numbers
    <3> QED
      BY <1>1, <1>6, <2>2, <3>1, <3>2 DEF Inserting
  <2> QED
    BY <1>1, <2>1, <2>2
<1>8. CallsInv' /\ Len(calls') = j
  BY <1>1, <1>2 DEF WorkInv, CallsInv, harness_vars
<1>9. WorkloadInv'
  BY <1>2, <1>6, <1>7, <1>8 DEF WorkloadInv, Inserting
<1> QED
  BY <1>6, <1>8, <1>9 DEF WorkInv, SeedingInv

(* A seed joins the orders seeded before.                                  *)
LEMMA SeedRests ==
    ASSUME WorkInv, Insert, pc = "seeding"
    PROVE  WorkInv'
<1>1. /\ workload \in Seeded /\ calls = <<>>
      /\ next \in 2 .. total_iters + 1 /\ next_sequence = next - 2
      /\ incoming = Order(next - 1, SeedSide) /\ resting = Orders(1, next - 2, SeedSide)
  BY DEF WorkInv, SeedingInv
<1>2. UNCHANGED <<harness_vars, workload, next>>
  BY DEF Insert
<1>3. /\ incoming.side = SeedSide /\ incoming.quantity = 1 /\ incoming.id = next - 1
      /\ incoming.price = kFixedPrice
  BY <1>1 DEF Order
<1>4. Book!Crossing = {}
  BY <1>1, <1>3, SameSideNeverCrosses, Numbers
<1>5. Book!Rest
  BY <1>3, <1>4 DEF Insert, Book!Match, Book!Return
<1>6. /\ resting' = resting \cup {At(next - 1, SeedSide)}
      /\ next_sequence' = next - 1 /\ incoming' = NoOrder
  BY <1>1, <1>3, <1>5, Numbers DEF Book!Rest, At
<1>7. resting' = Orders(1, next - 1, SeedSide)
  <2>1. next - 2 \in Int /\ next - 2 + 1 = next - 1 /\ 1 <= next - 2 + 1
    BY <1>1, Numbers
  <2> QED
    BY <1>1, <1>6, <2>1, OneMore
<1>8. pc' = "seed"
  BY <1>6 DEF Insert
<1>9. CallsInv' /\ SeedSide' = SeedSide
  BY <1>2 DEF WorkInv, CallsInv, harness_vars, SeedSide
<1>10. SeedingInv'
  BY <1>1, <1>2, <1>6, <1>7, <1>8, <1>9, Numbers DEF SeedingInv, harness_vars
<1> QED
  BY <1>8, <1>9, <1>10 DEF WorkInv, WorkloadInv

(* Of the asks that are left, the oldest is ahead of all others.           *)
LEMMA OldestIsAhead ==
    ASSUME NEW lo \in Int, NEW hi \in Int, resting = Orders(lo, hi, "Sell"), lo <= hi
    PROVE  /\ At(lo, "Sell") \in resting
           /\ \A r \in resting :
                 (\A s \in resting : s = r \/ Book!Ahead(r, s)) => r = At(lo, "Sell")
<1>1. At(lo, "Sell") \in resting
  BY DEF Orders
<1>2. ASSUME NEW r \in resting, Book!Ahead(r, At(lo, "Sell"))
      PROVE  FALSE
  <2>1. PICK i \in lo .. hi : r = At(i, "Sell")
    BY DEF Orders
  <2>2. i - 1 < lo - 1
    BY <1>2, <2>1 DEF At, Book!Ahead, Book!BetterPrice, kFixedPrice
  <2> QED
    BY <2>1, <2>2
<1> QED
  BY <1>1, <1>2

(* A call of the workload trades with the oldest ask, or rests, or returns. *)
LEMMA InsertionStep ==
    ASSUME WorkInv, Insert, pc = "inserting"
    PROVE  WorkInv'
<1>1. PICK j \in 1 .. total_iters : j = Len(calls)
  BY DEF WorkInv, WorkloadInv
<1>2. Inserting(j) /\ j \in Nat /\ j - 1 \in Nat /\ j - 1 + 1 = j
  BY <1>1, Numbers DEF WorkInv, WorkloadInv
<1>3. /\ UNCHANGED <<harness_vars, workload, next>>
      /\ pc' = IF incoming' # NoOrder THEN "inserting" ELSE "measure"
      /\ Book!Match \/ Book!Return \/ Book!Rest
  BY DEF Insert
<1>4. CallsInv' /\ Len(calls') = j
  BY <1>1, <1>3 DEF WorkInv, CallsInv, harness_vars
<1>5. SUFFICES \/ pc' = "measure" /\ After(j)'
               \/ pc' = "inserting" /\ Inserting(j)'
  BY <1>1, <1>3, <1>4 DEF WorkInv, WorkloadInv, SeedingInv, After, Inserting
<1>6. CASE workload = "resting"
  <2>1. /\ next = j + 1 /\ next_sequence = j - 1 /\ incoming = Order(j, "Buy")
        /\ resting = Orders(1, j - 1, "Buy") /\ trades = <<>>
    BY <1>2, <1>6 DEF Inserting
  <2>2. /\ incoming.side = "Buy" /\ incoming.quantity = 1 /\ incoming.id = j
        /\ incoming.price = kFixedPrice
    BY <2>1 DEF Order
  <2>3. Book!Crossing = {}
    BY <1>2, <2>1, <2>2, SameSideNeverCrosses
  <2>4. Book!Rest
    BY <1>3, <2>2, <2>3 DEF Book!Match, Book!Return
  <2>5. /\ resting' = resting \cup {At(j, "Buy")}
        /\ next_sequence' = j /\ incoming' = NoOrder /\ trades' = <<>>
    BY <1>2, <2>1, <2>2, <2>4 DEF Book!Rest, At
  <2>6. resting' = Orders(1, j, "Buy")
    BY <1>2, <2>1, <2>5, OneMore
  <2> QED
    BY <1>3, <1>6, <2>1, <2>5, <2>6 DEF After, Depth
<1>7. CASE workload = "crossing" /\ next_sequence = total_iters + j - 1
  <2>1. /\ next = FirstBuyId + j /\ incoming = Order(FirstBuyId + j - 1, "Buy")
        /\ resting = Orders(j, total_iters, "Sell") /\ trades = <<>>
    BY <1>2, <1>7, Numbers DEF Inserting
  <2>2. /\ incoming.side = "Buy" /\ incoming.quantity = 1 /\ incoming.price = kFixedPrice
    BY <2>1 DEF Order
  <2>3. Book!Crossing = resting
    BY <1>2, <2>1, <2>2, EveryAskCrosses, Numbers
  <2>4. /\ At(j, "Sell") \in resting
        /\ \A r \in resting :
              (\A s \in resting : s = r \/ Book!Ahead(r, s)) => r = At(j, "Sell")
    BY <1>2, <2>1, OldestIsAhead, Numbers
  <2>5. Book!Trade(At(j, "Sell"))
    BY <1>3, <2>2, <2>3, <2>4 DEF Book!Match, Book!Return, Book!Rest
  <2>6. /\ resting' = resting \ {At(j, "Sell")}
        /\ incoming' = [incoming EXCEPT !.quantity = 0]
        /\ Len(trades') = 1 /\ trades'[1].resting = j
        /\ next_sequence' = total_iters + j
    BY <1>2, <1>7, <2>1, <2>2, <2>5, Numbers DEF Book!Trade, At
  <2>7. resting' = Orders(j + 1, total_iters, "Sell")
    BY <1>2, <2>1, <2>6, OldestGone, Numbers
  <2>8. FirstBuyId + j - 1 \in Nat
    BY <1>2, Numbers
  <2>9. incoming' # NoOrder
    BY <2>1, <2>6, <2>8, OrderIsSome
  <2> QED
    BY <1>3, <1>7, <2>1, <2>6, <2>7, <2>9 DEF Inserting
<1>8. CASE workload = "crossing" /\ next_sequence # total_iters + j - 1
  <2>1. /\ next = FirstBuyId + j /\ next_sequence = total_iters + j
        /\ incoming = [Order(FirstBuyId + j - 1, "Buy") EXCEPT !.quantity = 0]
        /\ resting = Orders(j + 1, total_iters, "Sell")
        /\ Len(trades) = 1 /\ trades[1].resting = j
    BY <1>2, <1>8 DEF Inserting
  <2>2. incoming.quantity = 0
    BY <2>1 DEF Order
  <2>3. Book!Return
    BY <1>3, <2>2 DEF Book!Match, Book!Rest
  <2> QED
    BY <1>3, <1>8, <2>1, <2>3 DEF Book!Return, After, Depth
<1> QED
  BY <1>2, <1>6, <1>7, <1>8 DEF Inserting

--------------------------------------------------------------------------------
(* The order to cancel is the oldest, and it rests.                        *)
LEMMA CancelStep ==
    ASSUME WorkInv, CancelWorkload
    PROVE  WorkInv'
<1>1. /\ pc = "call" /\ workload = "cancel" /\ pc' = "measure" /\ next' = next + 1
      /\ UNCHANGED <<harness_vars, workload>>
      /\ Book!Cancel(ids[next]) \/ Book!CancelUnknown(ids[next])
  BY DEF CancelWorkload
<1>2. PICK j \in 1 .. total_iters : j = Len(calls)
  BY <1>1 DEF WorkInv, WorkloadInv
<1>3. /\ j \in Nat /\ j - 1 \in Nat /\ j - 1 + 1 = j
      /\ After(j - 1)
  BY <1>1, <1>2, Numbers DEF WorkInv, WorkloadInv
<1>4. next = j /\ incoming = NoOrder /\ resting = Orders(j, total_iters, "Buy")
  BY <1>1, <1>3 DEF After
<1>5. ids[next] = j
  BY <1>2, <1>4, Numbers DEF ids
<1>6. Book!IsResting(j)
  <2>1. j \in j .. total_iters
    BY <1>2, <1>3, Numbers
  <2> QED
    BY <1>3, <1>4, <2>1, RestingIds, Numbers
<1>7. /\ resting' = {r \in resting : r.id # j} /\ incoming' = NoOrder
      /\ outcome' = "cancelled"
  BY <1>1, <1>4, <1>5, <1>6 DEF Book!Cancel, Book!CancelUnknown
<1>8. resting' = Orders(j + 1, total_iters, "Buy")
  BY <1>2, <1>3, <1>4, <1>7, OldestGone, Numbers
<1>9. After(j)'
  BY <1>1, <1>4, <1>7, <1>8 DEF After, Depth
<1>10. CallsInv' /\ Len(calls') = j
  BY <1>1, <1>2 DEF WorkInv, CallsInv, harness_vars
<1>11. WorkloadInv'
  BY <1>1, <1>9, <1>10 DEF WorkloadInv, After
<1> QED
  BY <1>1, <1>10, <1>11 DEF WorkInv, SeedingInv

(* There is room for one item, and it is the next to come out.             *)
LEMMA PushStep ==
    ASSUME WorkInv, PushWorkload
    PROVE  WorkInv'
<1>1. /\ pc = "call" /\ workload = "round_trip" /\ pc' = "pop" /\ next' = next + 1
      /\ UNCHANGED <<harness_vars, workload>>
      /\ IF Len(queue) < RingCapacity THEN Ring!Push(next) ELSE UNCHANGED ring_vars
  BY DEF PushWorkload
<1>2. PICK j \in 1 .. total_iters : j = Len(calls)
  BY <1>1 DEF WorkInv, WorkloadInv
<1>3. queue = <<>> /\ next = j - 1 /\ j \in Nat /\ j > 0
  BY <1>1, <1>2, Numbers DEF WorkInv, WorkloadInv, After
<1>4. queue' = <<j - 1>> /\ next' = j
  BY <1>1, <1>3, CapacityAssumption DEF Ring!Push
<1>5. CallsInv' /\ Len(calls') = j
  BY <1>1, <1>2 DEF WorkInv, CallsInv, harness_vars
<1>6. WorkloadInv'
  BY <1>1, <1>3, <1>4, <1>5 DEF WorkloadInv
<1> QED
  BY <1>1, <1>5, <1>6 DEF WorkInv, SeedingInv

LEMMA PopStep ==
    ASSUME WorkInv, SinksInv, PopWorkload
    PROVE  WorkInv' /\ SinksInv'
<1>1. /\ pc = "pop" /\ pc' = "measure"
      /\ UNCHANGED <<harness_vars, workload, next>>
      /\ IF queue # <<>> THEN Ring!Pop ELSE UNCHANGED ring_vars
      /\ sink' = [sink EXCEPT !.round_trip = IF queue # <<>> THEN last' ELSE 0]
  BY DEF PopWorkload
<1>2. CallsInv /\ workload = "round_trip" /\ Len(calls) > 0 /\ next = Len(calls)
      /\ queue = <<Len(calls) - 1>>
  BY <1>1 DEF WorkInv, WorkloadInv
<1>3. PICK j \in Nat : j = Len(calls)
  BY <1>2 DEF CallsInv
<1>4. queue' = <<>> /\ last' = j - 1
  BY <1>1, <1>2, <1>3 DEF Ring!Pop
<1>5. SinksInv' /\ sink'.round_trip = j - 1
  BY <1>1, <1>2, <1>4 DEF SinksInv
<1>6. After(j)'
  BY <1>1, <1>2, <1>3, <1>4, <1>5 DEF After, Depth
<1>7. CallsInv' /\ Len(calls') = j
  BY <1>1, <1>2, <1>3 DEF CallsInv, harness_vars
<1>8. WorkloadInv'
  BY <1>1, <1>6, <1>7 DEF WorkloadInv, After
<1> QED
  BY <1>1, <1>5, <1>7, <1>8 DEF WorkInv, SeedingInv

(* How many numbers an interval has.                                       *)
LEMMA IntervalSize ==
    ASSUME NEW a \in Int, NEW b \in Int, a <= b
    PROVE  IsFiniteSet(a .. b) /\ Cardinality(a .. b) = b - a + 1
BY FS_Interval

(* Half of the levels, and the one at the limit, are at or below it.       *)
LEMMA ScanIsToTheLimit ==
    ASSUME NEW depth \in Nat, depth > 0
    PROVE  ScanTotal(depth) = 10 * (depth \div 2 + 1)
<1> DEFINE half == depth \div 2
<1>1. half \in Nat /\ half <= depth - 1
  OBVIOUS
<1>2. {p \in {kFixedPrice + i : i \in 0 .. depth - 1} : p <= kFixedPrice + half}
         = kFixedPrice .. kFixedPrice + half
  <2> HIDE DEF half
  <2>1. ASSUME NEW p \in kFixedPrice .. kFixedPrice + half
        PROVE  p \in {kFixedPrice + i : i \in 0 .. depth - 1}
    <3>1. p - kFixedPrice \in 0 .. depth - 1 /\ p = kFixedPrice + (p - kFixedPrice)
      BY <1>1 DEF kFixedPrice
    <3> QED
      BY <3>1
  <2>2. ASSUME NEW i \in 0 .. depth - 1, kFixedPrice + i <= kFixedPrice + half
        PROVE  kFixedPrice + i \in kFixedPrice .. kFixedPrice + half
    BY <1>1, <2>2 DEF kFixedPrice
  <2>3. \A p \in kFixedPrice .. kFixedPrice + half : p <= kFixedPrice + half
    BY <1>1 DEF kFixedPrice
  <2> QED
    BY <2>1, <2>2, <2>3
<1>3. Cardinality(kFixedPrice .. kFixedPrice + half) = half + 1
  <2> HIDE DEF half
  <2>1. (kFixedPrice + half) - kFixedPrice + 1 = half + 1 /\ kFixedPrice <= kFixedPrice + half
        /\ kFixedPrice \in Int /\ kFixedPrice + half \in Int
    BY <1>1 DEF kFixedPrice
  <2>2. Cardinality(kFixedPrice .. kFixedPrice + half) = (kFixedPrice + half) - kFixedPrice + 1
    BY <2>1, IntervalSize, Zenon
  <2> QED
    BY <2>1, <2>2
<1> QED
  BY <1>2, <1>3 DEF ScanTotal

LEMMA ScanStep ==
    ASSUME WorkInv, SinksInv, ScanWorkload
    PROVE  WorkInv' /\ SinksInv'
<1>1. /\ pc = "call" /\ workload \in DOMAIN Depth /\ pc' = "measure"
      /\ UNCHANGED <<harness_vars, workload>>
      /\ sink' = [sink EXCEPT !.scan = ScanTotal(Depth[workload])]
  BY DEF ScanWorkload
<1>2. CallsInv
  BY DEF WorkInv
<1>3. PICK j \in Nat : j = Len(calls)
  BY <1>2 DEF CallsInv
<1>4. Depth[workload] \in Nat /\ Depth[workload] > 0
  BY <1>1 DEF Depth
<1>5. SinksInv' /\ sink'.scan = 10 * (Depth[workload] \div 2 + 1)
  BY <1>1, <1>4, ScanIsToTheLimit DEF SinksInv
<1>6. After(j)'
  BY <1>1, <1>5 DEF After, Depth
<1>7. CallsInv' /\ Len(calls') = j
  BY <1>1, <1>2, <1>3 DEF CallsInv, harness_vars
<1>8. WorkloadInv'
  BY <1>1, <1>6, <1>7 DEF WorkloadInv, After
<1> QED
  BY <1>1, <1>5, <1>7, <1>8 DEF WorkInv, SeedingInv

(* Reports, and the scheduler, touch neither the book nor the ring.        *)
LEMMA OtherStep ==
    ASSUME WorkInv,
           ReportPin \/ ReportCore \/ Reduce \/ PrintRow \/ Scheduler \/ UNCHANGED vars
    PROVE  WorkInv'
<1>1. CASE ReportPin \/ ReportCore \/ PrintRow
  <2>1. /\ UNCHANGED harness_vars /\ pc' \in {"core", "begin", "done"}
    BY <1>1 DEF ReportPin, ReportCore, PrintRow
  <2> QED
    BY <2>1 DEF WorkInv, CallsInv, SeedingInv, WorkloadInv, harness_vars
<1>2. CASE Reduce
  <2>1. UNCHANGED <<measured_iters, calls, samples_ns>> /\ pc' = "print"
    BY <1>2 DEF Reduce, Harness!Reduce
  <2> QED
    BY <2>1 DEF WorkInv, CallsInv, SeedingInv, WorkloadInv
<1>3. CASE Scheduler \/ UNCHANGED vars
  <2>1. UNCHANGED <<book_vars, ring_vars, harness_vars, driver_vars>>
    BY <1>3 DEF Scheduler, vars
  <2>2. CallsInv' /\ SeedingInv' /\ pc' # "terminated"
    BY <2>1 DEF WorkInv, CallsInv, SeedingInv, SeedSide, book_vars, harness_vars, driver_vars
  <2>3. WorkloadInv'
    BY <2>1 DEF WorkInv, WorkloadInv, After, Inserting, book_vars, ring_vars, harness_vars, driver_vars
  <2> QED
    BY <2>2, <2>3 DEF WorkInv
<1> QED
  BY <1>1, <1>2, <1>3

(* All steps together.                                                     *)
LEMMA WorkStep ==
    ASSUME WorkInv, SinksInv, [Next]_vars
    PROVE  WorkInv' /\ SinksInv'
<1>1. CASE PopWorkload
  BY <1>1, PopStep
<1>2. CASE ScanWorkload
  BY <1>2, ScanStep
<1>3. CASE sink' = sink
  <2>1. SinksInv'
    BY <1>3 DEF SinksInv
  <2>2. CASE Insert
    <3>1. pc \in {"seeding", "inserting"}
      BY <2>2 DEF Insert
    <3> QED
      BY <2>1, <2>2, <3>1, SeedRests, InsertionStep
  <2>3. CASE Begin \/ Seed \/ SeedDone \/ \E d \in Durations : Call(d)
    BY <2>1, <2>3, BeginStep, SeedStep, SeedDoneStep, CallStep
  <2>4. CASE InsertWorkload \/ CancelWorkload \/ PushWorkload
    BY <2>1, <2>4, InsertWorkloadStep, CancelStep, PushStep
  <2>5. CASE ReportPin \/ ReportCore \/ Reduce \/ PrintRow \/ Scheduler \/ UNCHANGED vars
    BY <2>1, <2>5, OtherStep
  <2> QED
    BY <1>1, <1>2, <2>2, <2>3, <2>4, <2>5 DEF Next, Driver
<1>4. PopWorkload \/ ScanWorkload \/ sink' = sink
  <2>1. CASE ReportPin \/ ReportCore \/ Begin \/ Seed \/ SeedDone \/ Insert
    BY <2>1 DEF ReportPin, ReportCore, Begin, Seed, SeedDone, Insert
  <2>2. CASE \E d \in Durations : Call(d)
    BY <2>2 DEF Call
  <2>3. CASE InsertWorkload \/ CancelWorkload \/ PushWorkload \/ Reduce \/ PrintRow
    BY <2>3 DEF InsertWorkload, CancelWorkload, PushWorkload, Reduce, PrintRow
  <2>4. CASE Scheduler \/ UNCHANGED vars
    BY <2>4 DEF Scheduler, vars, driver_vars
  <2> QED
    BY <2>1, <2>2, <2>3, <2>4 DEF Next, Driver
<1> QED
  BY <1>1, <1>2, <1>3, <1>4

(* The invariant of the workloads, for any number of iterations below the  *)
(* first buy id: in particular no submission is refused, so nothing throws.*)
THEOREM WorkInvariance == Spec => [](WorkInv /\ SinksInv)
<1>1. Init => WorkInv /\ SinksInv
  <2> SUFFICES ASSUME Init PROVE WorkInv /\ SinksInv
    OBVIOUS
  <2>1. calls = <<>> /\ samples_ns = <<>> /\ measured_iters = kMeasuredIters /\ pc = "pin"
    BY DEF Init, Harness!Init
  <2>2. CallsInv
    BY <2>1, IterationsAssumption DEF CallsInv
  <2>3. SinksInv
    BY DEF Init, SinksInv
  <2> QED
    BY <2>1, <2>2, <2>3 DEF WorkInv, SeedingInv, WorkloadInv
<1> QED
  BY <1>1, WorkStep, PTL DEF Spec

(* What is timed is the work that each row names, in the warm-up and in    *)
(* all measured calls (bench_resting_insert to bench_price_scan).          *)
THEOREM WorkIsDone == Spec => []EachCallDoesItsWork
<1>1. WorkInv => EachCallDoesItsWork
  <2> SUFFICES ASSUME WorkInv, pc = "measure" PROVE EachCallDoesItsWork
    BY DEF EachCallDoesItsWork
  <2>1. CallsInv /\ After(Len(calls))
    BY DEF WorkInv, WorkloadInv
  <2>2. PICK k \in Nat : k = Len(calls)
    BY <2>1 DEF CallsInv
  <2>3. workload = "resting" => {r.id : r \in resting} = 1 .. k
    BY <2>1, <2>2, RestingIds DEF After
  <2>4. workload \in {"crossing", "cancel"} => {r.id : r \in resting} = k + 1 .. total_iters
    BY <2>1, <2>2, RestingIds, Numbers DEF After
  <2> QED
    BY <2>1, <2>2, <2>3, <2>4 DEF EachCallDoesItsWork, After
<1> QED
  BY <1>1, WorkInvariance, PTL

--------------------------------------------------------------------------------
(* The rows printed so far are the expected ones.                          *)
InWorkload == {"seed", "seeding", "measure", "call", "inserting", "pop", "print"}
Rows == [count : {kMeasuredIters}, shown : Int]

RowsInv ==
    /\ report \in Seq(Rows) /\ Len(report) <= 6
    /\ \A i \in 1 .. Len(report) : report[i] = ExpectedReport[i]
    /\ pc \in InWorkload => Len(report) < 6 /\ workload = Workloads[Len(report) + 1]
    /\ pc = "print" => stats.count = kMeasuredIters /\ After(total_iters)
    /\ pc = "done" => Len(report) = 6

(* How many orders rest when none, or all, of those added are left.        *)
LEMMA OrdersCount ==
    ASSUME NEW m \in Nat, m > 0, NEW side
    PROVE  Cardinality(Orders(1, m, side)) = m /\ Cardinality(Orders(m + 1, m, side)) = 0
<1>1. Cardinality(1 .. m) = m /\ IsFiniteSet(1 .. m)
  BY IntervalSize
<1>2. ExistsBijection(1 .. m, Orders(1, m, side))
  <2> DEFINE f == [i \in 1 .. m |-> At(i, side)]
  <2>1. f \in [1 .. m -> Orders(1, m, side)]
    BY DEF Orders
  <2>2. \A i, j \in 1 .. m : f[i] = f[j] => i = j
    BY DEF At
  <2>3. \A r \in Orders(1, m, side) : \E i \in 1 .. m : f[i] = r
    BY DEF Orders
  <2> QED
    BY <2>1, <2>2, <2>3 DEF ExistsBijection, Bijection, Injection, Surjection, IsInjective
<1>3. Orders(m + 1, m, side) = {}
  BY DEF Orders
<1> QED
  BY <1>1, <1>2, <1>3, FS_Bijection, FS_EmptySet

(* The statistics are complete only after the last call.                   *)
LEMMA ReduceCompletes ==
    ASSUME WorkInv, RowsInv, Reduce
    PROVE  RowsInv'
<1>1. /\ pc = "measure" /\ pc' = "print" /\ Harness!Reduce
      /\ UNCHANGED <<book_vars, ring_vars, workload, next, sink, report>>
  BY DEF Reduce
<1>2. /\ CallsInv /\ After(Len(calls)) /\ Len(calls) >= kWarmupIters
      /\ Len(samples_ns) = kMeasuredIters
  BY <1>1 DEF WorkInv, WorkloadInv, CallsInv, Harness!Reduce
<1>3. Len(calls) = total_iters
  BY <1>2, IterationsAssumption DEF CallsInv, total_iters
<1>4. stats'.count = kMeasuredIters
  BY <1>1, <1>2 DEF Harness!Reduce, Harness!compute_latency_stats
<1>5. After(total_iters)'
  BY <1>1, <1>2, <1>3 DEF After, book_vars, ring_vars, total_iters
<1> QED
  BY <1>1, <1>4, <1>5 DEF RowsInv, InWorkload

(* The row of each workload.                                               *)
LEMMA PrintedAsExpected ==
    ASSUME RowsInv, PrintRow
    PROVE  RowsInv'
<1> DEFINE row == [count |-> stats.count, shown |-> Shown]
<1>1. /\ pc = "print" /\ report' = Append(report, row)
      /\ pc' = IF Len(report') = 6 THEN "done" ELSE "begin"
  BY DEF PrintRow, Workloads
<1>2. /\ report \in Seq(Rows) /\ Len(report) \in Nat /\ Len(report) < 6
      /\ stats.count = kMeasuredIters /\ After(total_iters)
  BY <1>1 DEF RowsInv, InWorkload
<1>3. PICK n \in Nat : n = Len(report) /\ n < 6 /\ workload = Workloads[n + 1]
  BY <1>1, <1>2 DEF RowsInv, InWorkload
<1>4. Shown = <<total_iters, 0, 0, total_iters - 1, 90, 330>>[n + 1]
  <2>1. CASE n = 0
    <3>1. workload = "resting"
      BY <1>3, <2>1 DEF Workloads
    <3>2. Shown = total_iters
      BY <1>2, <3>1, OrdersCount, Numbers DEF Shown, order_count, After, Depth
    <3> QED
      BY <2>1, <3>2
  <2>2. CASE n = 1 \/ n = 2
    <3>1. workload = "crossing" \/ workload = "cancel"
      <4>1. CASE n = 1
        BY <1>3, <4>1 DEF Workloads
      <4>2. CASE n = 2
        BY <1>3, <4>2 DEF Workloads
      <4> QED
        BY <2>2, <4>1, <4>2
    <3>2. Shown = 0
      BY <1>2, <3>1, OrdersCount, Numbers DEF Shown, order_count, After, Depth
    <3> QED
      BY <2>2, <3>2
  <2>3. CASE n = 3
    <3>1. workload = "round_trip"
      BY <1>3, <2>3 DEF Workloads
    <3>2. Shown = sink.round_trip
      BY <3>1 DEF Shown, Depth
    <3>3. sink.round_trip = total_iters - 1
      BY <1>2, <3>1, Numbers DEF After
    <3> QED
      BY <2>3, <3>2, <3>3
  <2>4. CASE n = 4 \/ n = 5
    <3>1. (n = 4 /\ workload = "scan_16") \/ (n = 5 /\ workload = "scan_64")
      BY <1>3, <2>4 DEF Workloads
    <3>2. (n = 4 /\ Shown = 90) \/ (n = 5 /\ Shown = 330)
      BY <1>2, <3>1, Numbers DEF Shown, After, Depth
    <3> QED
      BY <3>2
  <2> QED
    BY <1>3, <2>1, <2>2, <2>3, <2>4, SMTT(60)
<1>5. row = ExpectedReport[n + 1] /\ row \in Rows
  <2>1. n + 1 \in 1 .. 6 /\ Shown \in Int
    BY <1>3, <1>4, Numbers
  <2> QED
    BY <1>2, <1>4, <2>1 DEF ExpectedReport, Workloads, Rows
<1> HIDE DEF row
<1>6. /\ report' \in Seq(Rows) /\ Len(report') = n + 1
      /\ \A i \in 1 .. n : report'[i] = report[i]
      /\ report'[n + 1] = row
  BY <1>1, <1>2, <1>3, <1>5
<1>7. \A i \in 1 .. Len(report') : report'[i] = ExpectedReport[i]
  BY <1>3, <1>5, <1>6 DEF RowsInv
<1> QED
  BY <1>1, <1>3, <1>6, <1>7 DEF RowsInv, InWorkload

(* Any other step prints nothing and stays in its workload.                *)
LEMMA RowsStep ==
    ASSUME WorkInv, RowsInv, [Next]_vars
    PROVE  RowsInv'
<1>1. CASE Reduce
  BY <1>1, ReduceCompletes
<1>2. CASE PrintRow
  BY <1>2, PrintedAsExpected
<1>3. CASE Begin
  <2>1. /\ report' = report /\ Len(report) < 6 /\ workload' = Workloads[Len(report) + 1]
        /\ pc' \in {"seed", "measure"}
    BY <1>3 DEF Begin, Workloads
  <2> QED
    BY <2>1 DEF RowsInv
<1>4. CASE ReportPin \/ ReportCore
  <2>1. report' = report /\ pc' \in {"core", "begin"}
    BY <1>4 DEF ReportPin, ReportCore
  <2> QED
    BY <2>1 DEF RowsInv, InWorkload
<1>5. CASE Scheduler \/ UNCHANGED vars
  <2>1. UNCHANGED <<book_vars, ring_vars, harness_vars, driver_vars>>
    BY <1>5 DEF Scheduler, vars
  <2> QED
    BY <2>1 DEF RowsInv, After, book_vars, ring_vars, harness_vars, driver_vars
<1>6. CASE \/ Seed \/ SeedDone \/ Insert \/ InsertWorkload \/ CancelWorkload
           \/ PushWorkload \/ PopWorkload \/ ScanWorkload \/ \E d \in Durations : Call(d)
  <2>1. UNCHANGED <<report, workload>> /\ pc \in InWorkload
        /\ pc' \in {"seed", "seeding", "measure", "call", "inserting", "pop", "terminated"}
    BY <1>6 DEF Seed, SeedDone, Insert, InsertWorkload, CancelWorkload, PushWorkload,
                PopWorkload, ScanWorkload, Call, Submit, InWorkload
  <2> QED
    BY <2>1 DEF RowsInv
<1> QED
  BY <1>1, <1>2, <1>3, <1>4, <1>5, <1>6 DEF Next, Driver

(* A driver that ends has printed what it announces: a row for each        *)
(* workload, all samples, and the final counts.  (That it ends is          *)
(* RunsToTheEnd, which is model-checked.)                                  *)
THEOREM ReportIsAsExpected == Spec => [](pc = "done" => report = ExpectedReport)
<1>1. Init => RowsInv
  BY DEF Init, RowsInv, InWorkload
<1>2. WorkInv /\ RowsInv /\ [Next]_vars => RowsInv'
  BY RowsStep
<1>3. RowsInv => (pc = "done" => report = ExpectedReport)
  <2> SUFFICES ASSUME RowsInv, pc = "done" PROVE report = ExpectedReport
    OBVIOUS
  <2>1. report \in Seq(Rows) /\ Len(report) = 6
        /\ \A i \in 1 .. 6 : report[i] = ExpectedReport[i]
    BY DEF RowsInv
  <2> QED
    BY <2>1 DEF ExpectedReport, Workloads
<1> QED
  BY <1>1, <1>2, <1>3, WorkInvariance, PTL DEF Spec
================================================================================
