----------------------------- MODULE SlabAllocator -----------------------------
(***************************************************************************)
(* The slab allocator and an owner that keeps its side of the contract     *)
(* (slab_allocator.hpp:23-31): it constructs an object in every block it   *)
(* gets, may overwrite the object while it owns the block, and gives back  *)
(* only blocks it owns, in any order.                                      *)
(***************************************************************************)
EXTENDS SlabPool, FiniteSets

CONSTANTS InitialCapacity,   \* the constructor's argument
          Objects,           \* what the owner stores in a block
          TrackingFails,     \* whether the growth of chunks_ may throw
          MaxCapacity        \* bound: the pool grows while it has fewer blocks

ASSUME InitialCapacityAssumption == InitialCapacity \in Nat
ASSUME TrackingAssumption == TrackingFails \in BOOLEAN
ASSUME MaxCapacityAssumption == MaxCapacity \in Nat
ASSUME ObjectsAssumption == \A x \in Objects : x \notin [next : Nat \cup {Null}]

VARIABLES pool,      \* the allocator
          owned,     \* the owner's blocks and the object each of them holds
          heap,      \* chunks got from ::operator new and not given back
          untracked, \* how many of them chunks_ was not told of
          alive      \* the allocator has not been destroyed

vars == <<pool, owned, heap, untracked, alive>>

Init ==
    /\ pool = NewPool(InitialCapacity)
    /\ owned = <<>> /\ heap = 1 /\ untracked = 0 /\ alive = TRUE

(* allocate(), then placement new of an object in the block.               *)
Allocate(x) ==
    /\ alive
    /\ Exhausted(pool) => pool.total_capacity < MaxCapacity
    /\ LET b == NextBlock(pool)
       IN /\ pool' = [allocate(pool) EXCEPT !.block[b] = x]
          /\ owned' = [c \in DOMAIN owned \cup {b} |-> IF c = b THEN x ELSE owned[c]]
    /\ heap' = heap + (IF Exhausted(pool) THEN 1 ELSE 0)
    /\ UNCHANGED <<untracked, alive>>

(* allocate() of an exhausted pool when ::operator new throws (line 214):  *)
(* nothing has changed yet.                                                *)
AllocateThrows ==
    /\ alive /\ Exhausted(pool)
    /\ UNCHANGED vars

(* The same when chunks_.push_back throws (line 215): the chunk is there,  *)
(* and nothing points to it.                                               *)
TrackingThrows ==
    /\ TrackingFails
    /\ alive /\ Exhausted(pool)
    /\ untracked < MaxCapacity                          \* bound
    /\ heap' = heap + 1 /\ untracked' = untracked + 1
    /\ UNCHANGED <<pool, owned, alive>>

(* The owner assigns to its object.                                        *)
Assign(b, x) ==
    /\ alive /\ b \in DOMAIN owned
    /\ pool' = [pool EXCEPT !.block[b] = x]
    /\ owned' = [owned EXCEPT ![b] = x]
    /\ UNCHANGED <<heap, untracked, alive>>

(* The owner destroys its object and calls deallocate().                   *)
Deallocate(b) ==
    /\ alive /\ b \in DOMAIN owned
    /\ pool' = deallocate(pool, b)
    /\ owned' = [c \in DOMAIN owned \ {b} |-> owned[c]]
    /\ UNCHANGED <<heap, untracked, alive>>

(* ~SlabAllocator (lines 127-131): every chunk of chunks_ is given back.   *)
(* An owner that keeps its side has returned its blocks before.            *)
Destroy ==
    /\ alive /\ DOMAIN owned = {}
    /\ heap' = heap - pool.chunks
    /\ alive' = FALSE
    /\ UNCHANGED <<pool, owned, untracked>>

Next ==
    \/ \E x \in Objects : Allocate(x)
    \/ AllocateThrows \/ TrackingThrows \/ Destroy
    \/ \E b \in DOMAIN owned, x \in Objects : Assign(b, x)
    \/ \E b \in DOMAIN owned : Deallocate(b)

Spec == Init /\ [][Next]_vars

--------------------------------------------------------------------------------
Blocks == DOMAIN pool.block
FreeBlocks == Blocks \ DOMAIN owned

(* Every field of the pool has its type.                                   *)
TypeOK ==
    /\ Blocks = 0 .. pool.total_capacity - 1
    /\ pool.chunk_size \in Nat \ {0}
    /\ pool.total_capacity \in Nat /\ pool.in_use \in Nat /\ pool.growth_events \in Nat
    /\ pool.free_list \in Blocks \cup {Null}
    /\ DOMAIN owned \subseteq Blocks
    /\ \A b \in DOMAIN owned : owned[b] \in Objects
    /\ alive \in BOOLEAN

(* The owner's objects are where it put them: no allocation, no growth and *)
(* no return of another block writes into a block that is owned (a sanitizer  *)
(* would not see it, slab_allocator.hpp:94-97).                            *)
OwnedObjectsIntact == \A b \in DOMAIN owned : pool.block[b] = owned[b]

(* The free list ends, and on it is every reserved block that nobody owns, *)
(* and no other: no block is lost, none can be handed out twice.           *)
FreeListIsTheRest == FreeListIs(pool, FreeBlocks)

(* The diagnostics say what they promise (slab_allocator.hpp:170-183): the *)
(* blocks handed out, and a capacity that is the initial one plus one more *)
(* chunk per growth event.                                                 *)
CountersExact ==
    /\ pool.in_use = Cardinality(DOMAIN owned)
    /\ pool.total_capacity = pool.chunk_size * (pool.growth_events + 1)

(* The general-purpose allocator is called only when every block is in use *)
(* (slab_allocator.hpp:16-22, 36-40): with a free block, no growth.        *)
GrowsOnlyWhenFull ==
    [][pool'.total_capacity # pool.total_capacity => FreeBlocks = {}]_vars

(* Every chunk the general-purpose allocator gave is one of chunks_, and   *)
(* goes back to it when the pool is destroyed, but for those whose         *)
(* tracking failed: none is lost in growing, none given back twice         *)
(* (slab_allocator.hpp:127-131, 213-224).                                  *)
ChunksAccounted == heap = untracked + (IF alive THEN pool.chunks ELSE 0)

(* "Every chunk this pool allocates is freed in ~SlabAllocator(); the pool *)
(* never leaks" (slab_allocator.hpp:58-59).  It does when chunks_ cannot   *)
(* grow: the new chunk is nobody's.                                        *)
NeverLeaks == ~alive => heap = 0
================================================================================
