-------------------------------- MODULE BenchMain --------------------------------
(***************************************************************************)
(* The driver src/bench_main.cpp, which composes the components: it tries  *)
(* to pin its thread and then measures six workloads, one after the other, *)
(* each a closure that measure_latency_ns calls over and over.             *)
(*                                                                         *)
(* The book and the ring are their abstract specifications, which OrderBook*)
(* and SpscRingBuffer are shown to implement; the harness and the pinning  *)
(* are the modules that model them.  The scheduler may move the thread     *)
(* between any two steps.                                                  *)
(***************************************************************************)
EXTENDS Integers, Sequences, FiniteSets

CONSTANTS kWarmupIters, kMeasuredIters,
          RingCapacity,         \* 1024 in the code
          Durations,            \* what the clock may show for one call
          Cores, NoCore,
          NoOrder, NoItem

ASSUME IterationsAssumption == kWarmupIters \in Nat /\ kMeasuredIters \in Nat \ {0}
ASSUME CapacityAssumption == RingCapacity \in Nat \ {0}

VARIABLES platform, usable, affinity, running, pin,             \* CoreAffinity
          resting, incoming, trades, next_sequence, outcome,    \* book
          queue, last,                                          \* ring
          measured_iters, calls, samples_ns, stats, answer,     \* measure_latency_ns
          pc, workload,         \* where the driver is, and in which workload
          next,                 \* next_id, next_ask_id, next_buy_id, next_index, next_value
          sink,                 \* the two static sinks
          shown_core,           \* what current_core_id() was shown as
          report                \* the rows printed: [count, shown]

affinity_vars == <<platform, usable, affinity, running, pin>>
book_vars == <<resting, incoming, trades, next_sequence, outcome>>
ring_vars == <<queue, last>>
harness_vars == <<measured_iters, calls, samples_ns, stats, answer>>
driver_vars == <<pc, workload, next, sink, shown_core, report>>
vars == <<affinity_vars, book_vars, ring_vars, harness_vars, driver_vars>>

--------------------------------------------------------------------------------
Workloads == <<"resting", "crossing", "cancel", "round_trip", "scan_16", "scan_64">>
Depth == [scan_16 |-> 16, scan_64 |-> 64]

total_iters == kWarmupIters + kMeasuredIters
kFixedPrice == 100
CoreId == 0

(* 52,000 in the code: the ids given to asks stay below those of the buys. *)
ASSUME IdsAssumption == total_iters < 1000000000
ASSUME NoOrderAssumption ==
    NoOrder \notin [id : Nat, side : {"Buy", "Sell"}, price : Int, quantity : Int]

Affinity == INSTANCE CoreAffinity
Harness == INSTANCE LatencyHarness WITH
               WarmupIters <- kWarmupIters, MaxMeasured <- kMeasuredIters,
               Percentages <- {}, Fine <- 1
Ring == INSTANCE SpscQueue WITH Items <- Nat, Capacity <- RingCapacity
Book == INSTANCE PriceTimeBook WITH
            OrderIds <- Nat, Prices <- {kFixedPrice}, Quantities <- {1},
            None <- NoOrder, MaxSequence <- 3 * total_iters + 1

Order(id, side) == [id |-> id, side |-> side, price |-> kFixedPrice, quantity |-> 1]

(* Each bench_ function starts with a new book (ring) and harness.         *)
NewComponents ==
    /\ resting' = {} /\ incoming' = NoOrder
    /\ trades' = <<>> /\ next_sequence' = 0 /\ outcome' = "none"
    /\ queue' = <<>> /\ last' = NoItem
    /\ measured_iters' = kMeasuredIters
    /\ calls' = <<>> /\ samples_ns' = <<>> /\ stats' = <<>> /\ answer' = <<>>

Init ==
    /\ Affinity!Init /\ Book!Init /\ Ring!Init
    /\ Harness!Init /\ measured_iters = kMeasuredIters
    /\ pc = "pin" /\ workload = "none" /\ next = 0
    /\ sink = [round_trip |-> 0, scan |-> 0]
    /\ shown_core = NoCore /\ report = <<>>

--------------------------------------------------------------------------------
(* report_pin_attempt, lines 122-132.                                      *)
ReportPin ==
    /\ pc = "pin"
    /\ Affinity!pin_current_thread_to_core(CoreId)
    /\ pc' = "core"
    /\ UNCHANGED <<book_vars, ring_vars, harness_vars, workload, next, sink, shown_core, report>>

ReportCore ==
    /\ pc = "core"
    /\ shown_core' \in Affinity!current_core_id
    /\ pc' = "begin"
    /\ UNCHANGED <<affinity_vars, book_vars, ring_vars, harness_vars, workload, next, sink, report>>

(* Lines 281-288: the next bench_ function, as far as its declarations.    *)
Seeded == {"crossing", "cancel"}

Begin ==
    /\ pc = "begin" /\ Len(report) < Len(Workloads)
    /\ workload' = Workloads[Len(report) + 1]
    /\ pc' = IF workload' \in Seeded THEN "seed" ELSE "measure"
    /\ next' = IF workload' = "round_trip" THEN 0 ELSE 1
    /\ NewComponents
    /\ UNCHANGED <<affinity_vars, sink, shown_core, report>>

(* add_limit_order runs to its end, wherever it was called from; a refusal *)
(* is an exception that nobody catches, and ends the program.              *)
Submit(order) ==
    \/ /\ Book!Submit(order)
       /\ pc' = IF pc = "seed" THEN "seeding" ELSE "inserting"
    \/ /\ Book!Refuse(order)
       /\ pc' = "terminated"

Insert ==
    /\ pc \in {"seeding", "inserting"}
    /\ Book!Match \/ Book!Return \/ Book!Rest
    /\ pc' = IF incoming' # NoOrder THEN pc ELSE IF pc = "seeding" THEN "seed" ELSE "measure"
    /\ UNCHANGED <<affinity_vars, ring_vars, harness_vars, workload, next, sink, shown_core, report>>

(* Lines 166-169, 192-198: one resting order for every call to come.       *)
SeedsForMeasured == kMeasuredIters         \* variant: the warm-up is forgotten
Seeds == total_iters
FirstBuyIdLow == 1                         \* variant: ids of buys and asks meet
FirstBuyId == 1000000000

Seed ==
    /\ pc = "seed" /\ next <= Seeds
    /\ Submit(Order(next, IF workload = "crossing" THEN "Sell" ELSE "Buy"))
    /\ next' = next + 1
    /\ UNCHANGED <<affinity_vars, ring_vars, harness_vars, workload, sink, shown_core, report>>

SeedDone ==
    /\ pc = "seed" /\ next > Seeds
    /\ next' = IF workload = "crossing" THEN FirstBuyId ELSE 1
    /\ pc' = "measure"
    /\ UNCHANGED <<affinity_vars, book_vars, ring_vars, harness_vars, workload, sink, shown_core, report>>

--------------------------------------------------------------------------------
(* measure_latency_ns calls the workload; how long the call takes is       *)
(* chosen when it begins.                                                  *)
Call(d) ==
    /\ pc = "measure"
    /\ Harness!Warmup(d) \/ Harness!Measure(d)
    /\ pc' = "call"
    /\ UNCHANGED <<affinity_vars, book_vars, ring_vars, workload, next, sink, shown_core, report>>

(* Lines 142-146, 172-174: a buy order of one unit.                        *)
InsertWorkload ==
    /\ pc = "call" /\ workload \in {"resting", "crossing"}
    /\ Submit(Order(next, "Buy"))
    /\ next' = next + 1
    /\ UNCHANGED <<affinity_vars, ring_vars, harness_vars, workload, sink, shown_core, report>>

(* Lines 201-204: ids[next_index++], which were numbered from 1.           *)
ids == [i \in 1 .. Seeds |-> i]

CancelWorkload ==
    /\ pc = "call" /\ workload = "cancel"
    /\ Book!Cancel(ids[next]) \/ Book!CancelUnknown(ids[next])
    /\ next' = next + 1
    /\ pc' = "measure"
    /\ UNCHANGED <<affinity_vars, ring_vars, harness_vars, workload, sink, shown_core, report>>

(* Lines 225-232: a push, which may be refused, and a pop, which may find  *)
(* nothing and then leaves out at 0.                                       *)
PushWorkload ==
    /\ pc = "call" /\ workload = "round_trip"
    /\ IF Len(queue) < RingCapacity THEN Ring!Push(next) ELSE UNCHANGED ring_vars
    /\ next' = next + 1
    /\ pc' = "pop"
    /\ UNCHANGED <<affinity_vars, book_vars, harness_vars, workload, sink, shown_core, report>>

PopWorkload ==
    /\ pc = "pop"
    /\ IF queue # <<>> THEN Ring!Pop ELSE UNCHANGED ring_vars
    /\ sink' = [sink EXCEPT !.round_trip = IF queue # <<>> THEN last' ELSE 0]
    /\ pc' = "measure"
    /\ UNCHANGED <<affinity_vars, book_vars, harness_vars, workload, next, shown_core, report>>

(* Lines 245-259: every level at or below the limit has a quantity of 10.  *)
ScanTotal(depth) ==
    LET prices == {kFixedPrice + i : i \in 0 .. depth - 1}
        limit_price == kFixedPrice + depth \div 2
    IN 10 * Cardinality({p \in prices : p <= limit_price})

ScanWorkload ==
    /\ pc = "call" /\ workload \in DOMAIN Depth
    /\ sink' = [sink EXCEPT !.scan = ScanTotal(Depth[workload])]
    /\ pc' = "measure"
    /\ UNCHANGED <<affinity_vars, book_vars, ring_vars, harness_vars, workload, next, shown_core, report>>

(* The statistics are complete, and a row is printed.                      *)
Reduce ==
    /\ pc = "measure"
    /\ Harness!Reduce
    /\ pc' = "print"
    /\ UNCHANGED <<affinity_vars, book_vars, ring_vars, workload, next, sink, shown_core, report>>

(* Lines 149-151, 177-179, 207-209, 235-238, 262-264.                      *)
order_count == Cardinality(resting)
Shown ==
    CASE workload = "round_trip"      -> sink.round_trip
      [] workload \in DOMAIN Depth    -> sink.scan
      [] OTHER                        -> order_count

PrintRow ==
    /\ pc = "print"
    /\ report' = Append(report, [count |-> stats.count, shown |-> Shown])
    /\ pc' = IF Len(report') = Len(Workloads) THEN "done" ELSE "begin"
    /\ UNCHANGED <<affinity_vars, book_vars, ring_vars, harness_vars, workload, next, sink, shown_core>>

--------------------------------------------------------------------------------
Driver ==
    \/ ReportPin \/ ReportCore \/ Begin \/ Seed \/ SeedDone \/ Insert
    \/ \E d \in Durations : Call(d)
    \/ InsertWorkload \/ CancelWorkload \/ PushWorkload \/ PopWorkload \/ ScanWorkload
    \/ Reduce \/ PrintRow

Scheduler ==
    /\ pc # "done" /\ Affinity!Migrate
    /\ UNCHANGED <<book_vars, ring_vars, harness_vars, driver_vars>>

Next == Driver \/ Scheduler

Spec == Init /\ [][Next]_vars

(* The thread is given a core, on whichever it is: the driver goes on.     *)
FairSpec == Spec /\ WF_vars(Driver)

--------------------------------------------------------------------------------
(* What is timed is the work that the row names (bench_main.cpp:44-79),    *)
(* from the first warm-up call to the last measured one: after k calls     *)
(* each of them has added one order that nothing crossed; has consumed     *)
(* exactly the k-th of the asks and left nothing; has cancelled the oldest *)
(* order; has popped what it pushed; has scanned to the limit.             *)
EachCallDoesItsWork ==
    LET k == Len(calls)
        left == {r.id : r \in resting}
    IN pc = "measure" =>
          /\ workload = "resting" => left = 1 .. k /\ trades = <<>>
          /\ workload = "crossing" =>
                /\ left = k + 1 .. total_iters
                /\ k > 0 => Len(trades) = 1 /\ trades[1].resting = k
          /\ workload = "cancel" =>
                /\ left = k + 1 .. total_iters
                /\ k > 0 => outcome = "cancelled"
          /\ workload = "round_trip" => queue = <<>> /\ (k > 0 => sink.round_trip = k - 1)
          /\ workload \in DOMAIN Depth /\ k > 0 => sink.scan = 10 * (Depth[workload] \div 2 + 1)

(* The measurements ran on a pinned core if and only if the driver said so *)
(* (bench_main.cpp:84-90, core_affinity.hpp:40-69): from a printed Pinned  *)
(* to the end the thread is on that core and no other was shown; any other *)
(* outcome has left the thread to the scheduler as it was.                 *)
PinReportHolds ==
    pin # NoCore =>
       IF pin.outcome = "Pinned"
       THEN platform = "linux" /\ running = CoreId /\ shown_core \in {CoreId, NoCore}
       ELSE affinity = usable /\ (platform # "linux" => shown_core = NoCore)

(* Nothing is thrown and no loop hangs: the driver prints all six rows, of *)
(* as many samples as it announced, with the final counts it says are      *)
(* expected (lines 150, 178, 208: all orders, none, none).                 *)
ExpectedReport ==
    [i \in DOMAIN Workloads |->
        [count |-> kMeasuredIters,
         shown |-> <<total_iters, 0, 0, total_iters - 1, 90, 330>>[i]]]
RunsToTheEnd == <>(pc = "done" /\ report = ExpectedReport)
================================================================================
