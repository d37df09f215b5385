-------------------------------- MODULE SlabPool --------------------------------
(***************************************************************************)
(* The operations of SlabAllocator (include/exec_core/slab_allocator.hpp)  *)
(* as operators on the allocator's state, so that the allocator alone      *)
(* (SlabAllocator) and the order book that owns one (OrderBook) are built  *)
(* from the same definitions.                                              *)
(*                                                                         *)
(* A pool is a record.  Blocks are numbered in the order their memory was  *)
(* reserved; a block never moves.  The free list is threaded through the   *)
(* blocks themselves: block[b] is either what the owner put there or a     *)
(* FreeNode, which is only the number of the next free block.  Of chunks_, *)
(* which the destructor alone reads, the model keeps the length.           *)
(***************************************************************************)
EXTENDS Naturals

CONSTANT Null                        \* nullptr

ASSUME NullAssumption == Null \notin Nat

FreeNode(link) == [next |-> link]

(* Lines 213-224.  Every new block is pushed on the free list, so the list *)
(* runs from the last new block down to the first and on to the old list.  *)
Link(pool, b) == FreeNode(IF b = pool.total_capacity THEN pool.free_list ELSE b - 1)

(* Variant: the loop also threads the block before the chunk.              *)
ThreadedOneLow(pool, count) ==
    LET last == pool.total_capacity + count - 1
    IN [pool EXCEPT
          !.block = [b \in 0 .. last |-> IF b + 1 < pool.total_capacity THEN pool.block[b] ELSE Link(pool, b)],
          !.free_list = last]

Threaded(pool, count) ==
    LET last == pool.total_capacity + count - 1
    IN [pool EXCEPT
          !.block = [b \in 0 .. last |-> IF b < pool.total_capacity THEN pool.block[b] ELSE Link(pool, b)],
          !.free_list = last]

(* Variants: the capacity is overwritten by the size of the new chunk;     *)
(* chunks_ is not told of the chunk.                                       *)
add_chunk_recounts(pool, count) ==
    [Threaded(pool, count) EXCEPT !.chunks = @ + 1, !.total_capacity = count]
add_chunk_untracked(pool, count) ==
    [Threaded(pool, count) EXCEPT !.total_capacity = @ + count]
add_chunk(pool, count) ==
    [Threaded(pool, count) EXCEPT !.chunks = @ + 1, !.total_capacity = @ + count]

EmptyPool(count) ==
    [block |-> <<>>, chunks |-> 0, free_list |-> Null, chunk_size |-> count,
     total_capacity |-> 0, in_use |-> 0, growth_events |-> 0]

(* Lines 122-125: a requested capacity of 0 becomes 1.                     *)
NewPool(initial_capacity) ==
    LET chunk_size == IF initial_capacity = 0 THEN 1 ELSE initial_capacity
    IN add_chunk(EmptyPool(chunk_size), chunk_size)

(* Lines 149-152: an exhausted pool grows by one chunk.                    *)
AlwaysExhausted(pool) == TRUE                    \* variant: grows on every call
Exhausted(pool) == pool.free_list = Null
Refilled(pool) ==
    IF Exhausted(pool)
    THEN [add_chunk(pool, pool.chunk_size) EXCEPT !.growth_events = @ + 1]
    ELSE pool

(* Lines 148-157: the block that allocate() returns and the pool it leaves.*)
(* The block's memory still holds the FreeNode: the caller constructs.     *)
NextBlock(pool) == Refilled(pool).free_list
allocate(pool) ==
    LET full == Refilled(pool)
    IN [full EXCEPT !.free_list = full.block[full.free_list].next, !.in_use = @ + 1]

(* Variants: the free list is lost; the counter is forgotten.              *)
deallocate_loses_list(pool, b) ==
    [pool EXCEPT !.block[b] = FreeNode(Null), !.free_list = b, !.in_use = @ - 1]
deallocate_uncounted(pool, b) ==
    [pool EXCEPT !.block[b] = FreeNode(pool.free_list), !.free_list = b]

(* Lines 163-168: the block becomes the head of the free list.             *)
deallocate(pool, b) ==
    [pool EXCEPT !.block[b] = FreeNode(pool.free_list), !.free_list = b, !.in_use = @ - 1]

(* The free list visits exactly the blocks of free and then ends.  Its     *)
(* k-th block is nth[k]; the walk stops where it leaves free.              *)
FreeListIs(pool, free) ==
    LET nth[k \in 0 .. pool.total_capacity] ==
            IF k = 0 THEN pool.free_list
            ELSE IF nth[k - 1] \in free THEN pool.block[nth[k - 1]].next
            ELSE nth[k - 1]
    IN /\ nth[pool.total_capacity] = Null
       /\ {nth[k] : k \in 0 .. pool.total_capacity} \ {Null} = free
================================================================================
