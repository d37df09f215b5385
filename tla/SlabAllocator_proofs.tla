-------------------------- MODULE SlabAllocator_proofs --------------------------
(***************************************************************************)
(* The allocator never writes into a block its owner holds, never loses a  *)
(* block or hands one out twice, and grows only when every block is in     *)
(* use, for every initial capacity and any number of growths.  What each   *)
(* operation does to the blocks is in SlabPool_proofs.                     *)
(***************************************************************************)
EXTENDS SlabAllocator, SlabPool_proofs

(* The pool is that of the blocks the owner holds.                         *)
PoolInv ==
    /\ PoolOf(Objects, pool, DOMAIN owned)
    /\ \A b \in DOMAIN owned : owned[b] \in Objects
    /\ OwnedObjectsIntact

ChunksInv == untracked \in Nat /\ alive \in BOOLEAN /\ ChunksAccounted

IInv == PoolInv /\ ChunksInv

LEMMA AllocateStep ==
    ASSUME PoolInv, NEW x \in Objects, Allocate(x)
    PROVE  /\ PoolInv'
           /\ pool'.chunks = pool.chunks + (IF Exhausted(pool) THEN 1 ELSE 0)
           /\ pool'.total_capacity # pool.total_capacity => FreeBlocks = {}
<1>0. PICK b, q : b = NextBlock(pool) /\ q = WrittenTo(allocate(pool), b, x)
  OBVIOUS
<1> DEFINE used == DOMAIN owned
<1>1. PoolOf(Objects, pool, used)
  BY DEF PoolInv
<1>2. /\ b \in Nat /\ b \notin used /\ PoolOf(Objects, q, used \cup {b}) /\ q.block[b] = x
      /\ \A c \in used : q.block[c] = pool.block[c]
      /\ q.chunks = pool.chunks + (IF Exhausted(pool) THEN 1 ELSE 0)
      /\ q.total_capacity # pool.total_capacity => used = 0 .. pool.total_capacity - 1
  BY <1>0, <1>1, AllocatedPool
<1>3. pool' = q /\ owned' = [c \in used \cup {b} |-> IF c = b THEN x ELSE owned[c]]
  BY <1>0 DEF Allocate, WrittenTo
<1>4. DOMAIN pool.block = 0 .. pool.total_capacity - 1
  BY <1>1, PoolOfFacts
<1>5. \A c \in used : pool.block[c] = owned[c] /\ owned[c] \in Objects
  BY DEF PoolInv, OwnedObjectsIntact
<1>6. DOMAIN owned' = used \cup {b} /\ owned'[b] = x /\ \A c \in used : owned'[c] = owned[c]
  BY <1>2, <1>3
<1> QED
  BY <1>2, <1>3, <1>4, <1>5, <1>6 DEF PoolInv, OwnedObjectsIntact, FreeBlocks, Blocks

(* The owner writes to a block of its own: no link is there.               *)
LEMMA AssignStep ==
    ASSUME PoolInv, NEW b \in DOMAIN owned, NEW x \in Objects, Assign(b, x)
    PROVE  PoolInv' /\ pool'.chunks = pool.chunks /\ pool'.total_capacity = pool.total_capacity
<1>0. PICK q : q = WrittenTo(pool, b, x)
  OBVIOUS
<1>1. /\ PoolOf(Objects, q, DOMAIN owned) /\ q.block[b] = x
      /\ \A c \in DOMAIN owned : c # b => q.block[c] = pool.block[c]
      /\ q.chunks = pool.chunks /\ q.total_capacity = pool.total_capacity
  <2>1. PoolOf(Objects, pool, DOMAIN owned)
    BY DEF PoolInv
  <2> QED
    BY <1>0, <2>1, WrittenPool
<1>2. pool' = q /\ DOMAIN owned' = DOMAIN owned /\ owned'[b] = x
      /\ \A c \in DOMAIN owned : c # b => owned'[c] = owned[c]
  BY <1>0 DEF Assign, WrittenTo
<1> QED
  BY <1>1, <1>2 DEF PoolInv, OwnedObjectsIntact

LEMMA DeallocateStep ==
    ASSUME PoolInv, NEW b \in DOMAIN owned, Deallocate(b)
    PROVE  PoolInv' /\ pool'.chunks = pool.chunks /\ pool'.total_capacity = pool.total_capacity
<1>0. PICK q : q = deallocate(pool, b)
  OBVIOUS
<1>1. /\ PoolOf(Objects, q, DOMAIN owned \ {b})
      /\ \A c \in DOMAIN owned \ {b} : q.block[c] = pool.block[c]
      /\ q.chunks = pool.chunks /\ q.total_capacity = pool.total_capacity
  BY <1>0, DeallocatedPool DEF PoolInv
<1>2. pool' = q /\ DOMAIN owned' = DOMAIN owned \ {b} /\ \A c \in DOMAIN owned' : owned'[c] = owned[c]
  BY <1>0 DEF Deallocate
<1> QED
  BY <1>1, <1>2 DEF PoolInv, OwnedObjectsIntact

(* It holds initially, chunks and all.                                     *)
LEMMA InitHolds == Init => IInv
<1> SUFFICES ASSUME Init PROVE IInv
  OBVIOUS
<1>1. PoolOf(Objects, pool, {}) /\ pool.chunks = 1
  BY NewPoolIsFree, InitialCapacityAssumption DEF Init
<1>2. owned = <<>> /\ DOMAIN owned = {} /\ heap = 1 /\ untracked = 0 /\ alive = TRUE
  BY DEF Init
<1> QED
  BY <1>1, <1>2 DEF IInv, PoolInv, OwnedObjectsIntact, ChunksInv, ChunksAccounted

(* Every step preserves the invariant.                                     *)
LEMMA NextHolds == IInv /\ [Next]_vars => IInv'
<1> SUFFICES ASSUME IInv, [Next]_vars PROVE IInv'
  OBVIOUS
<1>1. PoolInv /\ pool.chunks \in Nat
  BY PoolOfFacts, PoolRecord DEF IInv, PoolInv
<1>2. untracked \in Nat /\ alive \in BOOLEAN
      /\ heap = untracked + (IF alive THEN pool.chunks ELSE 0)
  BY DEF IInv, ChunksInv, ChunksAccounted
<1>3. ASSUME NEW x \in Objects, Allocate(x) PROVE IInv'
  <2>1. PoolInv' /\ pool'.chunks = pool.chunks + (IF Exhausted(pool) THEN 1 ELSE 0)
    BY <1>1, <1>3, AllocateStep
  <2>2. /\ heap' = heap + (IF Exhausted(pool) THEN 1 ELSE 0)
        /\ alive /\ untracked' = untracked /\ alive' = alive
    BY <1>3 DEF Allocate
  <2>3. heap' = untracked' + (IF alive' THEN pool'.chunks ELSE 0)
    BY <2>1, <2>2, <1>1, <1>2
  <2> QED
    BY <2>1, <2>2, <2>3, <1>2 DEF IInv, ChunksInv, ChunksAccounted
<1>4. ASSUME NEW b \in DOMAIN owned, NEW x \in Objects, Assign(b, x) PROVE IInv'
  <2>1. PoolInv' /\ pool'.chunks = pool.chunks
    BY <1>1, <1>4, AssignStep
  <2> QED
    BY <2>1, <1>2, <1>4 DEF IInv, ChunksInv, ChunksAccounted, Assign
<1>5. ASSUME NEW b \in DOMAIN owned, Deallocate(b) PROVE IInv'
  <2>1. PoolInv' /\ pool'.chunks = pool.chunks
    BY <1>1, <1>5, DeallocateStep
  <2> QED
    BY <2>1, <1>2, <1>5 DEF IInv, ChunksInv, ChunksAccounted, Deallocate
<1>6. ASSUME UNCHANGED <<pool, owned>> PROVE PoolInv'
  BY <1>1, <1>6 DEF PoolInv, OwnedObjectsIntact
<1>7. CASE TrackingThrows
  <2>1. PoolInv' /\ pool' = pool /\ alive' = alive /\ alive
    BY <1>6, <1>7 DEF TrackingThrows
  <2>2. heap' = heap + 1 /\ untracked' = untracked + 1
    BY <1>7 DEF TrackingThrows
  <2>3. heap' = untracked' + (IF alive' THEN pool'.chunks ELSE 0) /\ untracked' \in Nat
    BY <2>1, <2>2, <1>1, <1>2
  <2> QED
    BY <2>1, <2>3, <1>2 DEF IInv, ChunksInv, ChunksAccounted
<1>8. CASE Destroy
  <2>1. PoolInv' /\ pool' = pool /\ alive /\ ~alive' /\ alive' \in BOOLEAN
    BY <1>6, <1>8 DEF Destroy
  <2>2. heap' = heap - pool.chunks /\ untracked' = untracked
    BY <1>8 DEF Destroy
  <2>3. heap' = untracked' + (IF alive' THEN pool'.chunks ELSE 0)
    BY <2>1, <2>2, <1>1, <1>2
  <2> QED
    BY <2>1, <2>2, <2>3, <1>2 DEF IInv, ChunksInv, ChunksAccounted
<1>9. CASE UNCHANGED vars
  BY <1>2, <1>6, <1>9 DEF vars, IInv, ChunksInv, ChunksAccounted
<1> QED
  BY <1>3, <1>4, <1>5, <1>7, <1>8, <1>9 DEF Next, AllocateThrows

(* The inductive invariant holds in every reachable state.                 *)
THEOREM Invariance == Spec => []IInv
BY InitHolds, NextHolds, PTL DEF Spec

(* Every field of the pool has its type.                                   *)
THEOREM TypeCorrect == Spec => []TypeOK
<1>1. IInv => TypeOK
  <2> SUFFICES ASSUME IInv PROVE TypeOK
    OBVIOUS
  <2>1. PICK n \in Nat : n = pool.total_capacity
    BY DEF IInv, PoolInv, PoolOf
  <2>2. /\ pool \in Pools(Objects, n) /\ Blocks = 0 .. n - 1 /\ DOMAIN owned \subseteq Blocks
        /\ Chained(pool.block, pool.free_list, (0 .. n - 1) \ DOMAIN owned)
    BY <2>1, PoolOfFacts DEF IInv, PoolInv, PoolOf, Blocks
  <2>3. pool.free_list \in Blocks \cup {Null}
    <3>1. CASE pool.free_list # Null
      <4>1. Null \notin (0 .. n - 1) \ DOMAIN owned
        BY NullAssumption
      <4>2. pool.free_list \in (0 .. n - 1) \ DOMAIN owned
        BY <2>2, <3>1, <4>1, ChainPop
      <4> QED
        BY <2>2, <4>2
    <3> QED
      BY <3>1
  <2>4. /\ pool.chunk_size \in Nat \ {0} /\ pool.in_use \in Nat /\ pool.growth_events \in Nat
        /\ pool.total_capacity = n
    BY <2>2, PoolRecord
  <2> QED
    BY <2>2, <2>3, <2>4 DEF IInv, PoolInv, ChunksInv, TypeOK
<1> QED
  BY <1>1, Invariance, PTL

(* The owner's objects are where it put them, for any capacity and any     *)
(* order of allocations and returns.                                       *)
THEOREM OwnedIntact == Spec => []OwnedObjectsIntact
BY Invariance, PTL DEF IInv, PoolInv

(* No block is ever lost and none can be handed out twice: the free list   *)
(* visits every block the owner does not hold, and then ends.              *)
THEOREM FreeListComplete == Spec => []FreeListIsTheRest
<1>1. IInv => FreeListIsTheRest
  <2> SUFFICES ASSUME IInv PROVE FreeListIsTheRest
    OBVIOUS
  <2>1. PoolOf(Objects, pool, DOMAIN owned)
    BY DEF IInv, PoolInv
  <2>2. FreeBlocks = (0 .. pool.total_capacity - 1) \ DOMAIN owned
    BY <2>1, PoolOfFacts DEF FreeBlocks, Blocks
  <2> QED
    BY <2>1, <2>2, FreeListVisits DEF FreeListIsTheRest
<1> QED
  BY <1>1, Invariance, PTL

(* in_use() counts the blocks handed out and capacity() the chunks.        *)
THEOREM ExactCounters == Spec => []CountersExact
<1>1. IInv => CountersExact
  BY DEF IInv, PoolInv, PoolOf, CountersExact
<1> QED
  BY <1>1, Invariance, PTL

(* Every chunk is accounted for, before and after the destructor.          *)
THEOREM AllChunksAccounted == Spec => []ChunksAccounted
BY Invariance, PTL DEF IInv, ChunksInv

(* The general-purpose allocator is called only when no block is free.     *)
THEOREM GrowthOnlyWhenFull == Spec => GrowsOnlyWhenFull
<1> DEFINE A == pool'.total_capacity # pool.total_capacity => FreeBlocks = {}
<1>1. IInv /\ [Next]_vars => [A]_vars
  <2> SUFFICES ASSUME IInv, Next PROVE A
    OBVIOUS
  <2>1. ASSUME NEW x \in Objects, Allocate(x) PROVE A
    BY <2>1, AllocateStep DEF IInv
  <2>2. ASSUME NEW b \in DOMAIN owned, NEW x \in Objects, Assign(b, x) PROVE A
    BY <2>2, AssignStep DEF IInv
  <2>3. ASSUME NEW b \in DOMAIN owned, Deallocate(b) PROVE A
    BY <2>3, DeallocateStep DEF IInv
  <2> QED
    BY <2>1, <2>2, <2>3 DEF Next, AllocateThrows, TrackingThrows, Destroy, vars
<1> QED
  BY <1>1, Invariance, PTL DEF Spec, GrowsOnlyWhenFull
================================================================================
