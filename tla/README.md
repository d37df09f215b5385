# A TLA+ verification of lowlatency-exec-core

`src/` is a C++20 library of the parts of an order-execution core: a lock-free
ring buffer between two threads, a slab allocator, a limit order book built on
it, a vectorised price scan, and a harness that measures latencies. This
directory holds TLA+ modules translated from that code, TLC configurations that
check them on small instances, and proofs, checked by TLAPS, of theorems that
hold for every value of the constants.

## 1. The system

| Component | State it keeps | Operations | Interacts with |
|---|---|---|---|
| `SpscRingBuffer` (`include/exec_core/ring_buffer.hpp`) | atomic counters `tail` and `head`, a cached copy of the other side's counter on each side, an array of slots | `try_push` (three overloads over `emplace_impl`), `try_pop` (two), `empty_approx`, `size_approx` | two threads through shared memory: release stores, acquire loads, plain slot accesses |
| `SlabAllocator` (`slab_allocator.hpp`) | `chunks_`, an intrusive free list, counters | construct, `allocate`, `deallocate`, destroy; `in_use`, `total_capacity`, `growth_events` | `::operator new`; an owner that may only return what it owns |
| `OrderBook` (`order_book.hpp`, `src/order_book.cpp`) | two maps from price to an intrusive list of orders, `locations_`, `node_pool_`, `next_sequence_` | `add_limit_order`, `cancel_order`, destroy; `best_bid`, `best_ask`, `quantity_at`, `order_count`, `bid_levels`, `ask_levels`, `orders_at` | owns a `SlabAllocator`; one thread; `std::bad_alloc` may leave it in the middle of a call |
| `price_scan` | none | scalar, NEON and AVX2 scans of a price array | pure; not wired into the book |
| `latency_harness` | the samples of one measurement | `nearest_rank_percentile`, `compute_latency_stats`, `measure_latency_ns` | reads a clock, calls its argument |
| `core_affinity` (`src/core_affinity.cpp`) | none (the operating system's: where the thread may run) | `pin_current_thread_to_core`, `current_core_id` | one system call per platform, each with its own promise |
| `bench_main` (`src/bench_main.cpp`) | counters and sinks of six workloads | `report_pin_attempt`, six `bench_...` functions | composes all of the above: pins itself, then has the harness call a workload on a new book or ring |
| pipeline | (ring buffer and book together) | a decoder thread feeds the matching thread | described by the headers (`order_book.hpp:125-137`); no code composes them |
| `main` | none | prints one session of the book | `OrderBook` |
| `types`, `cache_line` | none | aliases, a constant | - |

What is hard, and what makes each component correct:

* **Ring buffer** - two threads without a lock. Each decides from a cached copy
  of the other's counter, which may be arbitrarily old; the counters run freely
  and wrap; slots are plain memory that only the release/acquire pairs protect.
  Correct means: no data race on a slot, no overwrite of an unread item, first
  in first out, a failure only when the queue is full (empty), and no item left
  behind for ever.
* **Slab allocator** - the free list lives inside the blocks it links, and the
  owner keeps pointers across growth. A block handed out twice or lost inside a
  chunk is invisible to a sanitizer (`slab_allocator.hpp:91-103`). Correct
  means: owned blocks are disjoint and never written to, the free list is
  exactly the rest, growth only when nothing is free, counters exact, chunks
  given back once.
* **Order book** - three structures that name the same orders (levels,
  locations, pool), raw pointers between them, and four places in one call where
  an allocation may throw with nothing undone. Correct means price-time
  priority, a book that is never crossed, one order per id, no dangling
  pointer, no lost node, a matching loop that ends, and queries that tell the
  same story although each reads another structure.
* **Price scan** - three implementations of one sum, one of which never runs on
  the development machine. Correct means: they agree, read nothing past the end,
  and do not overflow on a total that fits.
* **Latency harness** - percentages are doubles that miss their decimal by a
  hair. Correct means: the nearest rank, of the timed calls only.
* **Core affinity** - the request may be refused, or mean nothing, and the
  scheduler moves threads at any moment. Correct means: "Pinned" is only said of
  a thread that stays.
* **Benchmark driver** - a workload that is to consume one seeded order per call
  measures something else as soon as the seeding and the calls do not match, and
  an id used twice is an exception nobody catches. Correct means: each timed
  call does the work its row names, and the program ends.

The complete list of what is hard to test, each at its line and with the
properties that cover it, is `hazards` in `PROJECT.json`.

## 2. Modules

| Module | What it is |
|---|---|
| `SpscQueue` | what the ring buffer promises: a bounded FIFO queue |
| `SpscRingBuffer` | `ring_buffer.hpp`, one step per access to shared memory |
| `SpscRingBuffer_proofs` | theorems about `SpscRingBuffer` |
| `SlabPool` | the allocator's operations as operators on a pool record |
| `SlabAllocator` | those operations, the two ways growth fails, and an owner that keeps the contract |
| `SlabPool_proofs` | lemmas about the pool, for any owner; used for the allocator and for the book |
| `SlabAllocator_proofs` | theorems about `SlabAllocator` |
| `PriceTimeBook` | what the book promises: a set of orders in price-time priority |
| `PriceTimeBook_proofs` | theorems about `PriceTimeBook` |
| `OrderBook` | `order_book.cpp`: levels, lists, locations and a `SlabPool` |
| `OrderBook_proofs` | theorems about `OrderBook`, among them that it implements `PriceTimeBook` |
| `PriceScan` | `price_scan.cpp`: the scalar, NEON and AVX2 scans, one step per loop iteration |
| `PriceScan_proofs` | theorems about `PriceScan` |
| `LatencyHarness` | the measuring loop and the percentiles of `latency_harness` |
| `LatencyHarness_proofs` | theorems about `LatencyHarness` |
| `CoreAffinity` | `core_affinity.cpp` on its three platforms, the kernel and its scheduler as the external part |
| `BenchMain` | `bench_main.cpp`: the composition of `CoreAffinity`, `LatencyHarness`, `PriceTimeBook` and `SpscQueue` |
| `BenchMain_proofs` | theorems about `BenchMain` |
| `MC...` | the model values and symmetry TLC needs |

Some definitions are followed or preceded by *variants*, marked so in a
comment: what the code would be with a plausible bug. No specification uses
them. For each property one variant, listed under `mutants` in `PROJECT.json`,
makes the property fail.

### Ring buffer

`SpscRingBuffer` does not assume that a load returns the latest value. Each
counter is its modification order, a sequence of messages; a load of the other
thread's counter returns any message not older than the one it read before. A
message also carries how many slot accesses happened before its store, and an
acquire load adds them to what the loading thread knows (`pKnows`, `cKnows`).
An access to a slot whose last access by the other thread is not known is a data
race, and a racing read yields any item. This is the release/acquire fragment
of the C++ model; one location is written by one thread only, so nothing weaker
can be seen.

| Step | Code |
|---|---|
| `PushCall`, `PushRefresh(m)`, `PushWrite`, `PushPublish` | `emplace_impl`, lines 195-213: test the cached head; reload it; write the slot; store tail |
| `PopCall`, `PopRefresh(m)`, `PopRead`, `PopPublish` | `try_pop(T&)`, lines 140-162 |

`tail`/`head` are a thread's own relaxed load. `pushed` and `popped` are the
history the properties compare. The move overloads differ in how an item is
copied, not in their steps. `Modulus` stands for 2^64.

`size_approx` and `empty_approx` change nothing; they are operators on what the
calling thread may load, and `DiagnosticsBounded` says what the answer is worth:
the producer sees no fewer items than there are and no more than the capacity,
the consumer no more than there are; the producer's "empty" and the consumer's
"not empty" are true. A third thread has no such bound: it may load a `head`
that is ahead of the `tail` it loaded before, and the unsigned difference then
is close to 2^64.

### Slab allocator

A pool is a record with the allocator's fields. Blocks are numbered as they are
reserved; `block[b]` is the owner's object or a `FreeNode`, since in the code
they share the memory. `add_chunk` threads a new chunk in the source's order.
`allocate` and `deallocate` are functions from pool to pool, so that the order
book reuses them. In `SlabAllocator`, `AllocateThrows` and `TrackingThrows` are
the failures of the two allocations of `add_chunk` (lines 214 and 215).

### Order book

A `PriceLevel` is a head and a tail; an `OrderNode` is the content of a block.
`push_back`, `pop_front` and `erase` are the functions of lines 27-64, each
return of a block through the pool's `deallocate`.

| Action | Code |
|---|---|
| `Submit` | `add_limit_order` up to the loop, with its two refusals (lines 82-92) |
| `Consume`, `ConsumePart`, `DropEmptyLevel` | one iteration of the matching loop, either side (93-143) |
| `Return`, `Rest` | the end of the call (145-158) |
| `TradeThrows`, `LevelThrows`, `NodeThrows`, `LocationThrows`, `SubmitThrows` | `std::bad_alloc` at each allocation, in the state the call is in by then |
| `Cancel`, `CancelUnknown` | `cancel_order` (161-183) |
| `Destroy` | `~OrderBook` (9-25) |

The buy and the sell branch are one action with `side` as its parameter; where
the two differ (comparators, order of the maps) the action does.

The queries change nothing: `best_bid`, `best_ask`, `quantity_at`, `bid_levels`,
`ask_levels`, `orders_at` and `order_count` are operators, each on the structure
the code reads. `QueriesDescribeOrders` compares their answers with the set of
resting orders, and so with each other.

`ImplementsBook` maps the lists to a set of orders (`BookOrders`) and the locals
of the call to the incoming order; `PriceTimeBook!FairSpec` then is a property
of `OrderBook`. The abstract book trades with *the* order ahead of all others
that cross, so the mapping checks the matching order, quantities, sequence
numbers, every refusal and every result.

### Price scan

The three scans are one machine: `isa` is the one the build chose, `LaneCount` its
width. `VectorStep` and `Reduce` are the vector loop and the addition of the
lanes; `TailStep` is the scalar loop, which for `scalar` is all there is. The
parts where the two vector scans differ are operators: `LanePrice` and
`LaneQuantity` index the words of memory as `vld2q_s64` and the two unpacks do;
`Mask` is a comparison, or for AVX2 the complement of the opposite one. Vector
additions wrap, scalar ones that overflow are recorded as undefined. The
properties compare the lanes with the set of crossable levels, not with one of
the scans.

### Latency harness

`Warmup`, `Measure`, `Reduce` are the two loops and the reduction of
`measure_latency_ns`; `Ask` is a caller of `nearest_rank_percentile`. A
percentage has `Fine` steps per hundredth of a percent, so that `Rounded` (the
`llround`) has something to do. The properties define a percentile without ranks:
the least observed value that enough of the calls do not exceed.

### Core affinity and the benchmark driver

`CoreAffinity` has one action per branch of the `#if`. What the kernel answers
and where the scheduler puts the thread is not this code: `usable`, `affinity`
and `running` are external state, and the one promise assumed of them is Linux's,
that a thread whose affinity call returned 0 runs on the cores it named until
somebody changes that. Another process that changes it, and cores that are
unplugged, are left out.

`BenchMain` composes the parts: it instantiates `CoreAffinity` and
`LatencyHarness` as they are, and the book and the ring by their abstract
specifications, which `OrderBook` and `SpscRingBuffer` implement.

| Action | Code |
|---|---|
| `ReportPin`, `ReportCore` | `report_pin_attempt` (122-132) |
| `Begin`, `Seed`, `SeedDone` | the start of each `bench_` function and its seeding loop |
| `Call` | `measure_latency_ns` calls the workload, to warm up or to measure |
| `InsertWorkload`, `CancelWorkload`, `PushWorkload`, `PopWorkload`, `ScanWorkload` | the six closures |
| `Insert` | the iterations of `add_limit_order`, whoever called it |
| `Reduce`, `PrintRow` | the statistics and the row |
| `Scheduler` | the thread is moved, between any two steps |

How long a call takes is chosen when it begins; nothing but the samples depends
on it. An order refused by the book is an exception that ends the program
(`terminated`).

## 3. What is checked

| Run | Instance | What it shows |
|---|---|---|
| `ring_safety` | 4 slots, counters modulo 8, 10 pushes, 2 items | race freedom, no overwrite, FIFO, failures genuine, the diagnostics within their bounds |
| `ring_liveness` | 2 slots, modulo 4, 7 pushes | every item arrives, the producer is not stuck, the buffer implements `SpscQueue` |
| `slab` | 3 blocks, grows to 6, both failures of growth | owned blocks intact, free list exact, counters, chunks, growth only when full |
| `slab_leak` | the same | **fails**: a chunk whose tracking throws is never freed |
| `price_time` | 3 ids, 3 prices, quantities 0, 1, 2, 5 sequence numbers | the abstract book is uncrossed, without duplicate ids or ties, trades best first |
| `book_safety` | 3 ids, 2 prices, quantities 0, 1, 2, pool of 2 that grows, allocations throw | lists, pool, locations, time priority, never crossed, best first |
| `book_refines` | the same, no failures | `locations_` exact; the queries describe the resting orders; the book implements `PriceTimeBook` |
| `book_progress` | 2 ids, pool of 1 that grows, failures | each call returns, also past empty levels |
| `book_untracked` | 3 ids, failures | **fails**: an order rests that `order_count()` does not count |
| `price_scan` | all snapshots of up to 9 levels out of 3, limits equal to either price, 4-bit quantities | every scan reports the crossable levels, stays in bounds, and adds a total that fits without overflow |
| `latency` | a warm-up call, up to 6 timed calls of 3 durations, 47 percentages | the summary is of the timed calls; percentiles are nearest ranks |
| `bench` | 2 warm-up and 3 measured calls, a ring of 2, cores 0 and 1 of which either or both are granted, all three platforms | every call does the work of its row, a reported pin is true, all rows are printed with the counts announced |

**Bounds.** The ring's counters go all the way round and past it (10 pushes with
modulus 8, 7 with modulus 4), so every slot is reused and both counters wrap
with the queue full and empty; stale loads reach back to the oldest message
coherence allows. Three blocks and a second chunk give every relative order
of head, middle and last free block and a free list that spans two chunks.
Three orders are the fewest with a first, a middle and a last list node; two prices
with a crossing and a non-crossing limit give calls that sweep two levels; quantity
2 against 1 gives partial fills both ways, 0 an invalid one. A pool of two blocks
has to grow while nodes are linked. Nine levels are two full AVX2 vectors and a
tail, four NEON vectors and a tail; lengths from zero up include every remainder.
Three durations in every order tell any rank from its neighbours; the percentages
are those at which a rank of one to six samples is exact, with a value just below
and just above each. The driver's loops differ only in their counters: two warm-up
calls and three measured ones tell seeding for all calls from seeding for the
measured ones, and an id that is off by one from one that is not. `MaxSequence` ends
a behaviour: a submission may start only below it. The sequence number of the last
submission's trades may pass it. `MaxPushes`, `MaxCapacity`, `MaxSequence`,
`MaxLevels` and `MaxMeasured` are the only bounds. A book or a pool that was
destroyed and a scan or a measurement that returned have no step left, so those runs
do not look for deadlock; the ring's do.

**Symmetry** is used in safety runs only, on order ids, which the code compares
only for equality.

**Fairness.** In the ring, each thread keeps taking steps (the retry and poll
loops of `tests/test_ring_buffer.cpp:152-180`), and each thread that loads a
counter again and again reads the newest message infinitely often if it can
(strong fairness): the C++ standard's promise that a store becomes visible in
finite time. In the book, `WF(Continue)`: a call that has begun runs on in its
thread. Nothing obliges a caller to submit, cancel or destroy. In the driver,
`WF(Driver)`: the thread is given a core, whichever it is.

**Findings.**

* `slab_allocator.hpp:58-59` says the pool never leaks. If `chunks_.push_back`
  throws (line 215), the chunk reserved in line 214 belongs to nobody
  (`slab_leak`). The pool itself stays as it was: `slab` passes with this failure
  possible.
* `order_book.hpp:114` says `order_count()` is the number of resting orders. If
  `locations_.emplace` throws (`order_book.cpp:150`, `154`), the node stays
  linked: it trades, but is not counted and cannot be cancelled
  (`book_untracked`). `book_safety` shows what survives this: no dangling
  pointer, no lost node, never crossed, and time priority.

## 4. What is proved

For every value of the constants that meets the `ASSUME`s (a positive ring capacity, a
counter modulus that is a larger multiple of it; any initial pool capacity; any
sets of ids, integer prices and quantities; any width of `Quantity`; any number of
iterations below the first buy id); the bounds are arbitrary naturals or not mentioned
in the proofs at all. Every invariant of the passing runs is a theorem, and so are the
action properties and the safety halves of the refinements.

**`SpscRingBuffer_proofs`**: `TypeCorrect`, `DataRaceFree`, `NoOverwrite`, `Fifo`,
`FailuresAreGenuine`, `DiagnosticsAreBounded`, and `Refinement` (`Spec => Queue!Spec`).
None of the properties is inductive. The invariant speaks of *positions*, which do not
wrap: message `k` of a counter holds `k - 1` wrapped and publishes `k - 1` accesses
(`HistoryInv`); the caches are the messages last read (`CacheInv`); the four
positions "head as the producer knows it, head, tail as the consumer knows it,
tail" stay in order within `Capacity`, strictly so once a call has seen room or an
item (`WindowInv`); the n-th access is to slot n - 1 (`AccessInv`); an item is
in its slot from write to read (`ContentsInv`). `FullTest` and `EmptyTest` show,
from lemmas on `%`, that the code's comparison of wrapped counters decides the
question about positions. It is there that the modulus has to be a *larger*
multiple of the capacity.

**`SlabPool_proofs`, `SlabAllocator_proofs`**: `TypeCorrect`, `OwnedIntact`,
`FreeListComplete`, `ExactCounters`, `AllChunksAccounted`, `GrowthOnlyWhenFull`. The
strengthening is that there is an enumeration of the free blocks, each once, that the
links follow from `free_list` to `Null`. `ChainPop`, `ChainPush` and the growth of a
chain turn one enumeration into another; that the head of the list is therefore a free
block and not an owned one gives the rest. The walk that `FreeListIsTheRest` takes
along the list is a recursive function: it is shown to visit the enumeration by
exhibiting the function the recursion defines.

**`PriceTimeBook_proofs`**: `TypeCorrect`, `NeverCrossed`, `UniqueIds`,
`UniqueArrivals`, `BestPriceFirst`, `PriorityIsTotal`. The strengthening is
`TradesOfTheCall`: while a call runs, the recorded trades are its own, numbered
below `next_sequence`, and at prices within its limit.

**`OrderBook_proofs`**: `TypeCorrect`, `ListsStayLinked`, `NoNodeIsLost`,
`LocationsAreValid`, `TimePriorityKept`, `NeverCrossed`, `BestPriceFirst`, all with
allocations that may fail; `LocationsAreExact` without. Each property needs the others:
`erase` is only right on a list that is linked, `cancel_order` only if the location is
valid, and both only if a block is not used twice. The invariant, `Sound(own)`, says that
there is a set of nodes for each side such that the nodes of one price are linked both ways
in the order of their sequence numbers (`LevelOf`), the pool's used blocks are exactly
these nodes (`PoolOf`), each location points into them (`Located`), and, if nothing
fails, each node has a location and no level is empty (`Found`, `NoEmptyLevel`). A step
adds a node to a set or takes one out; `WalkInOrder` turns the sets back into the
sequences that the properties and the code walk along.
`BookImplementsSpec` proves, if allocations do not fail, that every step of the
detailed book is a step of `PriceTimeBook` or leaves it as it is, so that the theorems about
the abstract book are theorems about this one.
`NoNodeIsLost` includes the destroyed book: `~OrderBook` is a fold over the levels, each
of them a fold over its list (`NodesReturned`, `LevelsReturned`), and every node it meets is
a used block that it has not returned yet (`GivenBack`, `LevelsGivenBack`).
`QueriesAreTrue` compares each query with the set of resting orders, if allocations do not
fail: the sum that `quantity_at` takes along a list is the sum over the set, in any order
(`SumInAnyOrder`, `SumAlong`), and `orders_at`, which walks the list, and the orders sorted
by age are the same sequence because a set has one ascending list (`OneAscendingList`).

**`PriceScan_proofs`**: `TypeCorrect`, `LoadsStayInBounds`, `EveryLevelIsScanned`,
`ScansAgree`, `NoOverflowWhenItFits`. The sum over a set in the properties is a fold in
an arbitrary order; the first part proves that the order does not matter (`AnyOrder`)
and how a sum grows by one element. The invariant (`ScanInv`) is that the lanes, added
up, differ from the total of the levels scanned by a multiple of the width; one iteration adds
exactly the next levels, each with its own quantity, whatever the unpacks do
with their order (`LanesOfNeon`, `LanesOfAvx2`). If no quantity is negative and the
total fits, the difference is none and a lane never exceeds the total (`FitsInv`).

**`LatencyHarness_proofs`**: `NearestRank` (the integer arithmetic of the rank gives the
least sample that enough samples do not exceed, for any samples), `AnswersAreRanks`,
`StatsAreRanks`. Sorting is described by how many samples precede one: that this is a
bijection (`SortingIsABijection`) is all a rank needs.

**`BenchMain_proofs`**: `PinReportIsTrue`, `WorkIsDone`, `ReportIsAsExpected`. The
invariant gives the book in full at each call: the resting orders are those with ids in
one interval, which the loop counters bound; so no id is refused, each cancel finds
its order and each crossing insert finds one ask.

**Only model-checked**: everything under fairness (`EveryPushIsPopped`,
`ProducerIsNotStuck`, `CallsReturn`, `RunsToTheEnd`, and the fairness halves of
`ImplementsQueue` and `ImplementsBook`), which the prover does not treat.

**Recursion.** The prover has no induction over data. Where a theorem needs what a
recursive function computes, a solution of the recursion is exhibited or a least
counterexample refuted. The folds (`FoldSeq` and the sums over sets are all
`MapThenFoldSet`) choose a function on the subsets of a set: `FoldExists` refutes a
smallest subset up to which there is none, and `FoldsAlong` turns the fold into one
value for each prefix of the sequence. A lemma cannot take the folded operation as a
parameter; `Made` names the operations that the book folds with, and the lemmas
hold for each of them.

## 5. Not modelled, and why

* The pipeline of a decoder and a matching thread: the headers describe it, no code
  composes ring and book, so there is nothing to translate.
* `size_approx` from a third thread: it is bounded by nothing, as said above.
* Widths in the book: `sum_quantity` adds `int64` and `next_sequence_` is a `uint64`. The
  code limits neither and no document promises a limit, so there is no statement to check;
  prices and quantities are integers without width.
* After a failed call an empty level may stay, and `best_bid` then answers its price.
  The header (`order_book.hpp:105`) speaks of resting orders; what holds after such
  a failure is in `book_safety` and `book_progress`.
* The mean of the latency samples (floating point), labels and printing.
* An item of the ring whose copy throws: the ring is meant for trivially movable
  payloads (`ring_buffer.hpp:113-114`). `OrderNode` is plain data.
* An owner or a caller that breaks the documented contract (returning a block
  twice, two producers).
* `main` and the tests: an example session, and expectations the models were read against.

## 6. Plan

Done: all components that keep state or compute, their abstract specifications, their
composition in the driver, and the theorems above. Left:

1. The pipeline, once code composes the ring and the book: `SpscQueue` feeding
   `PriceTimeBook`, both of which the implementations are proved to satisfy.
