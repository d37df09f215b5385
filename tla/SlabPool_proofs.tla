---------------------------- MODULE SlabPool_proofs ----------------------------
(***************************************************************************)
(* What the operations of a pool do to its blocks, whoever owns it: no     *)
(* operation writes into a block that is in use or hands one out twice.    *)
(*                                                                         *)
(* The argument is about the free list as a whole: there is an enumeration *)
(* of the free blocks, without repetition, that the links follow.          *)
(***************************************************************************)
EXTENDS SlabPool, Integers, FiniteSetTheorems, WellFoundedInduction, TLAPS

(* f lists the blocks of free, each once, in the order of the links.       *)
Chain(block, head, free, f, n) ==
    /\ f \in [1 .. n -> free]
    /\ \A b \in free : \E i \in 1 .. n : f[i] = b
    /\ \A i, j \in 1 .. n : f[i] = f[j] => i = j
    /\ head = (IF n = 0 THEN Null ELSE f[1])
    /\ \A i \in 1 .. n : block[f[i]] = FreeNode(IF i = n THEN Null ELSE f[i + 1])

Chained(block, head, free) == \E n \in Nat : \E f \in [1 .. n -> free] : Chain(block, head, free, f, n)

(* What a block can hold, and the pools of n blocks.                       *)
Contents(objects) == objects \cup [next : Nat \cup {Null}]
Pools(objects, n) ==
    [block : [0 .. n - 1 -> Contents(objects)], chunks : Nat, free_list : Nat \cup {Null}, chunk_size : Nat \ {0},
     total_capacity : {n}, in_use : Nat, growth_events : Nat]

--------------------------------------------------------------------------------
(* Taking the first block off a chain.                                     *)
LEMMA ChainPop ==
    ASSUME NEW block, NEW head, NEW free, NEW block2,
           Chained(block, head, free), head # Null, Null \notin free,
           \A b \in free \ {head} : block2[b] = block[b]
    PROVE  /\ head \in free
           /\ block[head] \in [next : free \cup {Null}]
           /\ Chained(block2, block[head].next, free \ {head})
<1>0. PICK n \in Nat : \E f \in [1 .. n -> free] : Chain(block, head, free, f, n)
  BY DEF Chained
<1>1. PICK f \in [1 .. n -> free] : Chain(block, head, free, f, n)
  BY <1>0
<1>2. n > 0 /\ head = f[1] /\ 1 \in 1 .. n
  BY <1>1 DEF Chain
<1>3. block[head] = FreeNode(IF 1 = n THEN Null ELSE f[2])
  BY <1>1, <1>2 DEF Chain
<1>4. 1 # n => 2 \in 1 .. n
  BY <1>2
<1>5. head \in free /\ block[head] \in [next : free \cup {Null}]
  <2>1. head \in free /\ (1 # n => f[2] \in free)
    BY <1>2, <1>4
  <2> QED
    BY <2>1, <1>3 DEF FreeNode
<1> DEFINE g == [i \in 1 .. n - 1 |-> f[i + 1]]
<1>6. \A i \in 1 .. n - 1 : i + 1 \in 1 .. n /\ i \in 1 .. n
  BY <1>2
<1>7. \A i \in 1 .. n - 1 : f[i + 1] \in free \ {head}
  <2> SUFFICES ASSUME NEW i \in 1 .. n - 1 PROVE f[i + 1] \in free \ {head}
    OBVIOUS
  <2>1. i + 1 \in 1 .. n /\ i + 1 # 1
    BY <1>6
  <2>2. f[i + 1] \in free
    BY <1>1, <2>1 DEF Chain
  <2>3. f[i + 1] # f[1]
    BY <1>1, <1>2, <2>1 DEF Chain
  <2> QED
    BY <2>2, <2>3, <1>2
<1>8. n - 1 \in Nat /\ g \in [1 .. n - 1 -> free \ {head}]
  BY <1>2, <1>7
<1>9. Chain(block2, block[head].next, free \ {head}, g, n - 1)
  <2>1. \A b \in free \ {head} : \E i \in 1 .. n - 1 : g[i] = b
    <3> SUFFICES ASSUME NEW b \in free, b # head PROVE \E i \in 1 .. n - 1 : g[i] = b
      OBVIOUS
    <3>1. PICK j \in 1 .. n : f[j] = b
      BY <1>1 DEF Chain
    <3>2. j - 1 \in 1 .. n - 1 /\ (j - 1) + 1 = j
      BY <3>1, <1>2
    <3> QED
      BY <3>1, <3>2
  <2>2. \A i, j \in 1 .. n - 1 : g[i] = g[j] => i = j
    <3> SUFFICES ASSUME NEW i \in 1 .. n - 1, NEW j \in 1 .. n - 1, g[i] = g[j] PROVE i = j
      OBVIOUS
    <3>1. i + 1 \in 1 .. n /\ j + 1 \in 1 .. n /\ f[i + 1] = f[j + 1]
      BY <1>6
    <3>2. i + 1 = j + 1
      BY <1>1, <3>1 DEF Chain
    <3> QED
      BY <3>2
  <2>3. block[head].next = (IF n - 1 = 0 THEN Null ELSE g[1])
    BY <1>2, <1>3 DEF FreeNode
  <2>4. \A i \in 1 .. n - 1 : block2[g[i]] = FreeNode(IF i = n - 1 THEN Null ELSE g[i + 1])
    <3> SUFFICES ASSUME NEW i \in 1 .. n - 1
                 PROVE  block2[g[i]] = FreeNode(IF i = n - 1 THEN Null ELSE g[i + 1])
      OBVIOUS
    <3>1. g[i] = f[i + 1] /\ block2[f[i + 1]] = block[f[i + 1]]
      BY <1>7
    <3>2. i + 1 \in 1 .. n
      BY <1>6
    <3>3. block[f[i + 1]] = FreeNode(IF i + 1 = n THEN Null ELSE f[(i + 1) + 1])
      BY <1>1, <3>2 DEF Chain
    <3>4. CASE i = n - 1
      BY <3>1, <3>3, <3>4
    <3>5. CASE i # n - 1
      <4>1. i + 1 \in 1 .. n - 1 /\ i + 1 # n
        BY <3>5, <1>2
      <4> QED
        BY <3>1, <3>3, <3>5, <4>1
    <3> QED
      BY <3>4, <3>5
  <2> QED
    BY <2>1, <2>2, <2>3, <2>4, <1>8 DEF Chain
<1> QED
  <2>1. Chained(block2, block[head].next, free \ {head})
    <3> HIDE DEF g
    <3> QED
      BY <1>8, <1>9 DEF Chained
  <2> QED
    BY <2>1, <1>5

(* Putting a block in front of a chain.                                    *)
LEMMA ChainPush ==
    ASSUME NEW block, NEW head, NEW free, NEW block2, NEW new,
           Chained(block, head, free), new \notin free,
           block2[new] = FreeNode(head),
           \A b \in free : block2[b] = block[b]
    PROVE  Chained(block2, new, free \cup {new})
<1>0. PICK n \in Nat : \E f \in [1 .. n -> free] : Chain(block, head, free, f, n)
  BY DEF Chained
<1>1. PICK f \in [1 .. n -> free] : Chain(block, head, free, f, n)
  BY <1>0
<1> DEFINE g == [i \in 1 .. n + 1 |-> IF i = 1 THEN new ELSE f[i - 1]]
<1>2. \A i \in 1 .. n + 1 : i = 1 \/ i - 1 \in 1 .. n
  OBVIOUS
<1>3. \A i \in 1 .. n : i + 1 \in 1 .. n + 1 /\ (i + 1) - 1 = i /\ i + 1 # 1
  OBVIOUS
<1>4. n + 1 \in Nat /\ 1 \in 1 .. n + 1 /\ g[1] = new
  OBVIOUS
<1>5. \A i \in 1 .. n : g[i + 1] = f[i] /\ f[i] \in free
  BY <1>3
<1>6. g \in [1 .. n + 1 -> free \cup {new}]
  BY <1>2
<1>7. Chain(block2, new, free \cup {new}, g, n + 1)
  <2>1. \A b \in free \cup {new} : \E i \in 1 .. n + 1 : g[i] = b
    <3>1. \A b \in free : \E i \in 1 .. n : f[i] = b
      BY <1>1 DEF Chain
    <3> SUFFICES ASSUME NEW b \in free \cup {new} PROVE \E i \in 1 .. n + 1 : g[i] = b
      OBVIOUS
    <3> HIDE DEF g
    <3>2. CASE b = new
      BY <3>2, <1>4
    <3>3. CASE b # new
      <4>1. PICK i \in 1 .. n : f[i] = b
        BY <3>1, <3>3
      <4>2. i + 1 \in 1 .. n + 1 /\ g[i + 1] = b
        BY <4>1, <1>3, <1>5
      <4> QED
        BY <4>2
    <3> QED
      BY <3>2, <3>3
  <2>2. \A i, j \in 1 .. n + 1 : g[i] = g[j] => i = j
    <3> SUFFICES ASSUME NEW i \in 1 .. n + 1, NEW j \in 1 .. n + 1, g[i] = g[j] PROVE i = j
      OBVIOUS
    <3>1. CASE i = 1 /\ j = 1
      BY <3>1
    <3>2. CASE i = 1 /\ j # 1
      BY <3>2, <1>2
    <3>3. CASE i # 1 /\ j = 1
      BY <3>3, <1>2
    <3>4. CASE i # 1 /\ j # 1
      <4>1. i - 1 \in 1 .. n /\ j - 1 \in 1 .. n /\ f[i - 1] = f[j - 1]
        BY <3>4, <1>2
      <4>2. i - 1 = j - 1
        BY <1>1, <4>1 DEF Chain
      <4> QED
        BY <4>2
    <3> QED
      BY <3>1, <3>2, <3>3, <3>4
  <2>3. \A i \in 1 .. n + 1 : block2[g[i]] = FreeNode(IF i = n + 1 THEN Null ELSE g[i + 1])
    <3> SUFFICES ASSUME NEW i \in 1 .. n + 1
                 PROVE  block2[g[i]] = FreeNode(IF i = n + 1 THEN Null ELSE g[i + 1])
      OBVIOUS
    <3>1. CASE i = 1
      <4>1. head = (IF n = 0 THEN Null ELSE f[1])
        BY <1>1 DEF Chain
      <4>2. n # 0 => g[2] = f[1]
        OBVIOUS
      <4> HIDE DEF g
      <4> QED
        BY <3>1, <4>1, <4>2, <1>4
    <3>2. CASE i # 1
      <4>1. i - 1 \in 1 .. n /\ g[i] = f[i - 1] /\ (i - 1) + 1 = i
        BY <3>2, <1>2
      <4>2. block[f[i - 1]] = FreeNode(IF i - 1 = n THEN Null ELSE f[i])
        BY <1>1, <4>1 DEF Chain
      <4>3. block2[f[i - 1]] = block[f[i - 1]]
        BY <4>1, <1>5
      <4>4. i # n + 1 => i + 1 \in 1 .. n + 1 /\ g[i + 1] = f[i]
        BY <3>2
      <4>5. i - 1 = n <=> i = n + 1
        OBVIOUS
      <4> HIDE DEF g
      <4> QED
        BY <4>1, <4>2, <4>3, <4>4, <4>5
    <3> QED
      BY <3>1, <3>2
  <2>4. new = (IF n + 1 = 0 THEN Null ELSE g[1])
    BY <1>4
  <2> QED
    BY <2>1, <2>2, <2>3, <2>4, <1>6 DEF Chain
<1> QED
  BY <1>4, <1>6, <1>7 DEF Chained

(* An exhausted free list has no blocks.                                   *)
LEMMA ChainEmpty ==
    ASSUME NEW block, NEW free, Chained(block, Null, free), Null \notin free
    PROVE  free = {}
<1>0. PICK n \in Nat : \E f \in [1 .. n -> free] : Chain(block, Null, free, f, n)
  BY DEF Chained
<1>1. PICK f \in [1 .. n -> free] : Chain(block, Null, free, f, n)
  BY <1>0
<1>2. n = 0
  BY <1>1 DEF Chain
<1> QED
  BY <1>1, <1>2 DEF Chain

--------------------------------------------------------------------------------
(* Growing: a pool with no free block gets a chain of the new ones.        *)
LEMMA GrowChain ==
    ASSUME NEW objects, NEW n \in Nat, NEW pl \in Pools(objects, n), pl.free_list = Null,
           NEW count \in Nat \ {0}
    PROVE  LET q == add_chunk(pl, count)
           IN /\ q \in Pools(objects, n + count)
              /\ Chained(q.block, q.free_list, n .. n + count - 1)
              /\ \A b \in 0 .. n - 1 : q.block[b] = pl.block[b]
              /\ q.in_use = pl.in_use /\ q.chunk_size = pl.chunk_size /\ q.chunks = pl.chunks + 1
              /\ q.growth_events = pl.growth_events
              /\ q.free_list # Null
<1> DEFINE q == add_chunk(pl, count)
           link(b) == IF b = n THEN Null ELSE b - 1
           blocks == [b \in 0 .. n + count - 1 |-> IF b < n THEN pl.block[b] ELSE FreeNode(link(b))]
           f == [i \in 1 .. count |-> n + count - i]
<1>1. /\ pl.total_capacity = n /\ pl.block \in [0 .. n - 1 -> Contents(objects)]
      /\ n + count - 1 \in Nat /\ count \in Nat /\ count > 0
  BY DEF Pools
<1>2. /\ q.block = blocks /\ q.free_list = n + count - 1 /\ q.total_capacity = n + count
      /\ q.in_use = pl.in_use /\ q.chunk_size = pl.chunk_size /\ q.chunks = pl.chunks + 1
      /\ q.growth_events = pl.growth_events
      /\ q = [pl EXCEPT !.block = blocks, !.free_list = n + count - 1, !.chunks = @ + 1, !.total_capacity = n + count]
  BY <1>1 DEF add_chunk, Threaded, Link, Pools
<1>3. blocks \in [0 .. n + count - 1 -> Contents(objects)]
  <2> SUFFICES ASSUME NEW b \in 0 .. n + count - 1
               PROVE  (IF b < n THEN pl.block[b] ELSE FreeNode(link(b))) \in Contents(objects)
    OBVIOUS
  <2>1. CASE b < n
    BY <2>1, <1>1
  <2>2. CASE b >= n
    BY <2>2 DEF FreeNode, Contents
  <2> QED
    BY <2>1, <2>2
<1>4. q \in Pools(objects, n + count)
  <2>1. /\ pl.chunk_size \in Nat \ {0} /\ pl.chunks \in Nat /\ pl.in_use \in Nat /\ pl.growth_events \in Nat
        /\ pl \in [block : {pl.block}, chunks : Nat, free_list : {Null}, chunk_size : Nat \ {0},
                   total_capacity : {n}, in_use : Nat, growth_events : Nat]
    BY DEF Pools
  <2> HIDE DEF q, blocks
  <2>2. q = [block |-> blocks, chunks |-> pl.chunks + 1, free_list |-> n + count - 1, chunk_size |-> pl.chunk_size,
             total_capacity |-> n + count, in_use |-> pl.in_use,
             growth_events |-> pl.growth_events]
    BY <2>1, <1>2
  <2> QED
    BY <2>1, <2>2, <1>1, <1>3 DEF Pools
<1>5. \A i \in 1 .. count : n + count - i \in n .. n + count - 1
  BY <1>1
<1>6. f \in [1 .. count -> n .. n + count - 1]
  BY <1>5
<1>7. Chain(blocks, n + count - 1, n .. n + count - 1, f, count)
  <2>1. \A b \in n .. n + count - 1 : \E i \in 1 .. count : f[i] = b
    <3> SUFFICES ASSUME NEW b \in n .. n + count - 1 PROVE \E i \in 1 .. count : f[i] = b
      OBVIOUS
    <3>1. n + count - b \in 1 .. count /\ n + count - (n + count - b) = b
      BY <1>1
    <3> QED
      BY <3>1
  <2>2. \A i, j \in 1 .. count : f[i] = f[j] => i = j
    BY <1>1
  <2>3. n + count - 1 = (IF count = 0 THEN Null ELSE f[1])
    BY <1>1
  <2>4. \A i \in 1 .. count : blocks[f[i]] = FreeNode(IF i = count THEN Null ELSE f[i + 1])
    <3> SUFFICES ASSUME NEW i \in 1 .. count
                 PROVE  blocks[f[i]] = FreeNode(IF i = count THEN Null ELSE f[i + 1])
      OBVIOUS
    <3>1. f[i] = n + count - i /\ f[i] \in 0 .. n + count - 1 /\ ~(f[i] < n)
      BY <1>1
    <3>2. blocks[f[i]] = FreeNode(link(f[i]))
      BY <3>1
    <3>3. CASE i = count
      <4>1. f[i] = n
        BY <3>1, <3>3, <1>1
      <4> HIDE DEF blocks, f
      <4> QED
        BY <3>2, <3>3, <4>1
    <3>4. CASE i # count
      <4>1. i + 1 \in 1 .. count /\ f[i + 1] = f[i] - 1 /\ f[i] # n
        BY <3>1, <3>4, <1>1
      <4> HIDE DEF blocks, f
      <4> QED
        BY <3>2, <3>4, <4>1
    <3> QED
      BY <3>3, <3>4
  <2> QED
    BY <2>1, <2>2, <2>3, <2>4, <1>6 DEF Chain
<1>8. Chained(q.block, q.free_list, n .. n + count - 1)
  <2> HIDE DEF q, f, blocks
  <2> QED
    BY <1>1, <1>2, <1>6, <1>7 DEF Chained
<1>9. \A b \in 0 .. n - 1 : q.block[b] = pl.block[b]
  <2>1. \A b \in 0 .. n - 1 : b \in 0 .. n + count - 1 /\ b < n
    BY <1>1
  <2> HIDE DEF q
  <2> QED
    BY <2>1, <1>2
<1>10. q.free_list # Null
  BY <1>1, <1>2, NullAssumption
<1> QED
  BY <1>2, <1>4, <1>8, <1>9, <1>10

(* A pool is the record of its fields.                                     *)
LEMMA PoolRecord ==
    ASSUME NEW objects, NEW n \in Nat, NEW pl \in Pools(objects, n)
    PROVE  /\ pl.block \in [0 .. n - 1 -> Contents(objects)]
           /\ pl.free_list \in Nat \cup {Null} /\ pl.chunk_size \in Nat \ {0} /\ pl.chunks \in Nat
           /\ pl.total_capacity = n /\ pl.in_use \in Nat /\ pl.growth_events \in Nat
           /\ pl = [block |-> pl.block, chunks |-> pl.chunks, free_list |-> pl.free_list, chunk_size |-> pl.chunk_size,
                    total_capacity |-> n, in_use |-> pl.in_use,
                    growth_events |-> pl.growth_events]
BY DEF Pools

--------------------------------------------------------------------------------
(* The owner of block b puts x there; the owner writes to several blocks.  *)
WrittenTo(pl, b, x) == [pl EXCEPT !.block[b] = x]
Rewritten(pl, blocks) == [pl EXCEPT !.block = blocks]
OwnBlocks(objects, pl, used, blocks) ==
    /\ blocks \in [0 .. pl.total_capacity - 1 -> Contents(objects)]
    /\ \A c \in (0 .. pl.total_capacity - 1) \ used : blocks[c] = pl.block[c]

(* A pool of which the blocks of used are in use, and the others free.     *)
PoolOf(objects, pl, used) ==
    /\ pl.total_capacity \in Nat /\ pl \in Pools(objects, pl.total_capacity)
    /\ used \subseteq 0 .. pl.total_capacity - 1
    /\ Chained(pl.block, pl.free_list, (0 .. pl.total_capacity - 1) \ used)
    /\ pl.in_use = Cardinality(used)
    /\ pl.total_capacity = pl.chunk_size * (pl.growth_events + 1)

LEMMA PoolOfFacts ==
    ASSUME NEW objects, NEW pl, NEW used, PoolOf(objects, pl, used)
    PROVE  /\ pl.total_capacity \in Nat /\ pl \in Pools(objects, pl.total_capacity)
           /\ DOMAIN pl.block = 0 .. pl.total_capacity - 1
           /\ \A b \in DOMAIN pl.block : pl.block[b] \in Contents(objects)
           /\ used \subseteq DOMAIN pl.block /\ used \subseteq Nat /\ Null \notin used
           /\ IsFiniteSet(used) /\ pl.in_use = Cardinality(used) /\ pl.in_use \in Nat
           /\ Cardinality(used) <= pl.total_capacity
<1>1. PICK n \in Nat : n = pl.total_capacity
  BY DEF PoolOf
<1>2. pl \in Pools(objects, n) /\ used \subseteq 0 .. n - 1
  BY <1>1 DEF PoolOf
<1>3. pl.block \in [0 .. n - 1 -> Contents(objects)]
  BY <1>2, PoolRecord
<1>4. IsFiniteSet(0 .. n - 1) /\ Cardinality(0 .. n - 1) = n
  <2>1. 0 \in Int /\ n - 1 \in Int
    BY <1>1
  <2>2. Cardinality(0 .. n - 1) = IF 0 > n - 1 THEN 0 ELSE (n - 1) - 0 + 1
    BY <2>1, FS_Interval
  <2> QED
    BY <2>1, <2>2, FS_Interval
<1>5. IsFiniteSet(used) /\ Cardinality(used) <= n /\ Cardinality(used) \in Nat
  BY <1>2, <1>4, FS_Subset, FS_CardinalityType
<1>6. pl.in_use = Cardinality(used)
  BY DEF PoolOf
<1>7. Null \notin used
  <2>1. used \subseteq Nat
    BY <1>1, <1>2
  <2> QED
    BY <2>1, NullAssumption
<1> QED
  BY <1>1, <1>2, <1>3, <1>5, <1>6, <1>7

(* The constructor leaves every block of the first chunk free.             *)
LEMMA NewPoolIsFree ==
    ASSUME NEW objects, NEW capacity \in Nat
    PROVE  PoolOf(objects, NewPool(capacity), {}) /\ NewPool(capacity).chunks = 1
<1> DEFINE count == IF capacity = 0 THEN 1 ELSE capacity
           none == EmptyPool(count)
           pl == NewPool(capacity)
<1>1. count \in Nat \ {0}
  OBVIOUS
<1>2. none \in Pools(objects, 0) /\ none.free_list = Null /\ none.chunk_size = count /\ none.chunks = 0
      /\ none.in_use = 0 /\ none.growth_events = 0
  <2>1. <<>> \in [0 .. 0 - 1 -> Contents(objects)]
    OBVIOUS
  <2> QED
    BY <1>1, <2>1 DEF EmptyPool, Pools
<1>3. pl = add_chunk(none, count)
  BY DEF NewPool
<1> HIDE DEF none, count, pl
<1>4. /\ pl \in Pools(objects, count) /\ Chained(pl.block, pl.free_list, 0 .. count - 1)
      /\ pl.in_use = 0 /\ pl.chunks = 1 /\ pl.chunk_size = count /\ pl.growth_events = 0
  <2>1. 0 + count = count /\ 0 + count - 1 = count - 1
    BY <1>1
  <2> QED
    BY <1>1, <1>2, <1>3, <2>1, GrowChain
<1>5. pl.total_capacity = count
  BY <1>4 DEF Pools
<1>6. (0 .. count - 1) \ {} = 0 .. count - 1 /\ Cardinality({}) = 0
  BY FS_EmptySet
<1>7. count = count * (0 + 1)
  BY <1>1
<1>8. PoolOf(objects, pl, {})
  BY <1>1, <1>4, <1>5, <1>6, <1>7 DEF PoolOf
<1> QED
  BY <1>4, <1>8 DEF pl

(* The pool that allocate() takes a block from: it has one, and the blocks *)
(* it had are as they were.                                                *)
LEMMA RefilledPool ==
    ASSUME NEW objects, NEW pl, NEW used, PoolOf(objects, pl, used), NEW q, q = Refilled(pl)
    PROVE  /\ PoolOf(objects, q, used)
           /\ pl.total_capacity <= q.total_capacity
           /\ q.free_list # Null
           /\ \A b \in used : q.block[b] = pl.block[b]
           /\ q.chunks = pl.chunks + (IF Exhausted(pl) THEN 1 ELSE 0)
           /\ q.total_capacity # pl.total_capacity => used = 0 .. pl.total_capacity - 1
<1> DEFINE n == pl.total_capacity
           count == pl.chunk_size
<1>0. n \in Nat /\ pl \in Pools(objects, n) /\ pl.chunks \in Nat /\ count \in Nat \ {0}
      /\ pl.growth_events \in Nat
  BY PoolRecord DEF PoolOf
<1>1. CASE ~Exhausted(pl)
  <2>1. q = pl /\ pl.free_list # Null
    BY <1>1 DEF Refilled, Exhausted
  <2>2. pl.chunks = pl.chunks + (IF Exhausted(pl) THEN 1 ELSE 0)
    BY <1>0, <1>1
  <2>3. n <= n
    BY <1>0
  <2> QED
    BY <2>1, <2>2, <2>3
<1>2. CASE Exhausted(pl)
  <2> DEFINE r == add_chunk(pl, count)
  <2>1. pl.free_list = Null /\ q = [r EXCEPT !.growth_events = @ + 1]
    BY <1>2 DEF Refilled, Exhausted
  <2>2. (0 .. n - 1) \ used = {}
    <3>1. Null \notin (0 .. n - 1) \ used
      BY NullAssumption, <1>0
    <3>2. Chained(pl.block, Null, (0 .. n - 1) \ used)
      BY <2>1 DEF PoolOf
    <3> QED
      BY <3>1, <3>2, ChainEmpty
  <2>3. used = 0 .. n - 1
    BY <2>2 DEF PoolOf
  <2>4. /\ r \in Pools(objects, n + count)
        /\ Chained(r.block, r.free_list, n .. n + count - 1)
        /\ \A b \in 0 .. n - 1 : r.block[b] = pl.block[b]
        /\ r.in_use = pl.in_use /\ r.chunk_size = count /\ r.chunks = pl.chunks + 1
        /\ r.growth_events = pl.growth_events
        /\ r.free_list # Null
    BY <1>0, <2>1, GrowChain
  <2> HIDE DEF r
  <2>5. n + count \in Nat /\ n <= n + count
    BY <1>0
  <2>6. /\ q \in Pools(objects, n + count) /\ q.total_capacity = n + count
        /\ q.block = r.block /\ q.free_list = r.free_list /\ q.in_use = r.in_use /\ q.chunks = r.chunks
        /\ q.chunk_size = count /\ q.growth_events = pl.growth_events + 1
    <3>1. r = [block |-> r.block, chunks |-> r.chunks, free_list |-> r.free_list,
               chunk_size |-> r.chunk_size, total_capacity |-> n + count,
               in_use |-> r.in_use, growth_events |-> r.growth_events]
      BY <2>4, <2>5, PoolRecord
    <3>2. q = [block |-> r.block, chunks |-> r.chunks, free_list |-> r.free_list,
               chunk_size |-> r.chunk_size, total_capacity |-> n + count, in_use |-> r.in_use,
               growth_events |-> r.growth_events + 1]
      BY <3>1, <2>1
    <3>3. r.growth_events + 1 \in Nat
      BY <2>4, <2>5, PoolRecord
    <3> QED
      BY <3>2, <3>3, <2>4, <2>5, PoolRecord DEF Pools
  <2>7. (0 .. n + count - 1) \ used = n .. n + count - 1 /\ used \subseteq 0 .. n + count - 1
    BY <1>0, <2>3
  <2>8. n + count = count * ((pl.growth_events + 1) + 1)
    <3>1. n = count * (pl.growth_events + 1)
      BY DEF PoolOf
    <3>2. n \in Nat /\ count \in Nat /\ pl.growth_events \in Nat
      BY <1>0
    <3> HIDE DEF n, count
    <3> QED
      BY <3>1, <3>2
  <2>9. q.total_capacity - 1 = n + count - 1
    BY <1>0, <2>6
  <2>10. Chained(q.block, q.free_list, (0 .. q.total_capacity - 1) \ used)
    BY <2>4, <2>6, <2>7, <2>9
  <2>11. q.in_use = Cardinality(used)
    BY <2>4, <2>6 DEF PoolOf
  <2>12. PoolOf(objects, q, used)
    <3> HIDE DEF n, count
    <3> QED
      BY <2>5, <2>6, <2>7, <2>8, <2>9, <2>10, <2>11 DEF PoolOf
  <2>13. \A b \in used : q.block[b] = pl.block[b]
    BY <2>3, <2>4, <2>6
  <2>14. q.chunks = pl.chunks + (IF Exhausted(pl) THEN 1 ELSE 0)
    BY <1>2, <2>4, <2>6
  <2> QED
    BY <2>3, <2>4, <2>5, <2>6, <2>12, <2>13, <2>14
<1> QED
  BY <1>1, <1>2

(* allocate(), and what the caller constructs in the block: it was free,   *)
(* and no other block is written to.                                       *)
LEMMA AllocatedPool ==
    ASSUME NEW objects, NEW pl, NEW used, PoolOf(objects, pl, used), NEW x \in objects,
           NEW b, b = NextBlock(pl), NEW q, q = WrittenTo(allocate(pl), b, x)
    PROVE  /\ b \in Nat /\ b \notin used
           /\ PoolOf(objects, q, used \cup {b})
           /\ q.block[b] = x
           /\ \A c \in used : q.block[c] = pl.block[c]
           /\ q.chunks = pl.chunks + (IF Exhausted(pl) THEN 1 ELSE 0)
           /\ q.total_capacity # pl.total_capacity => used = 0 .. pl.total_capacity - 1
<1>0. PICK r : r = Refilled(pl)
  OBVIOUS
<1> DEFINE n == r.total_capacity
           h == r.free_list
           free == (0 .. n - 1) \ used
           link == r.block[h].next
           blocks == [r.block EXCEPT ![h] = x]
<1>1. /\ PoolOf(objects, r, used) /\ h # Null
      /\ \A c \in used : r.block[c] = pl.block[c]
      /\ r.chunks = pl.chunks + (IF Exhausted(pl) THEN 1 ELSE 0)
      /\ n # pl.total_capacity => used = 0 .. pl.total_capacity - 1
  BY <1>0, RefilledPool
<1>2. b = h /\ q = [allocate(pl) EXCEPT !.block[h] = x]
  BY <1>0 DEF NextBlock, WrittenTo
<1>3. allocate(pl) = [r EXCEPT !.free_list = link, !.in_use = @ + 1]
  BY <1>0 DEF allocate
<1>4. /\ n \in Nat /\ r \in Pools(objects, n) /\ used \subseteq 0 .. n - 1
      /\ IsFiniteSet(used) /\ r.in_use = Cardinality(used) /\ r.in_use \in Nat
  BY <1>1, PoolOfFacts DEF PoolOf
<1>5. Null \notin free
  BY NullAssumption, <1>4
<1>6. /\ r.block \in [0 .. n - 1 -> Contents(objects)]
      /\ r.chunk_size \in Nat \ {0} /\ r.growth_events \in Nat /\ r.chunks \in Nat
  BY <1>4, PoolRecord
<1>16. r = [block |-> r.block, chunks |-> r.chunks, free_list |-> h, chunk_size |-> r.chunk_size,
            total_capacity |-> n, in_use |-> r.in_use, growth_events |-> r.growth_events]
  BY <1>4, PoolRecord
<1>7. q = [block |-> blocks, chunks |-> r.chunks, free_list |-> link,
           chunk_size |-> r.chunk_size, total_capacity |-> n,
           in_use |-> r.in_use + 1, growth_events |-> r.growth_events]
  <2>1. PICK s : s = [r EXCEPT !.free_list = link]
    OBVIOUS
  <2>2. s = [block |-> r.block, chunks |-> r.chunks, free_list |-> link, chunk_size |-> r.chunk_size,
             total_capacity |-> n, in_use |-> r.in_use, growth_events |-> r.growth_events]
    BY <1>16, <2>1
  <2>3. allocate(pl) = [s EXCEPT !.in_use = @ + 1]
    BY <1>3, <1>16, <2>1
  <2>4. allocate(pl) = [block |-> r.block, chunks |-> r.chunks, free_list |-> link, chunk_size |-> r.chunk_size,
                        total_capacity |-> n, in_use |-> r.in_use + 1, growth_events |-> r.growth_events]
    BY <2>2, <2>3
  <2> QED
    BY <1>2, <2>4
<1>8. \A c \in free \ {h} : blocks[c] = r.block[c]
  BY <1>6
<1>9. /\ h \in free /\ r.block[h] \in [next : free \cup {Null}]
      /\ Chained(blocks, link, free \ {h})
  <2>1. Chained(r.block, h, free)
    BY <1>1 DEF PoolOf
  <2> HIDE DEF free, blocks
  <2> QED
    BY <1>1, <1>5, <1>8, <2>1, ChainPop
<1>10. link \in Nat \cup {Null} /\ h \in 0 .. n - 1 /\ h \notin used /\ h \in Nat
  BY <1>4, <1>9
<1>11. blocks \in [0 .. n - 1 -> Contents(objects)] /\ blocks[h] = x
       /\ \A c \in used : blocks[c] = r.block[c]
  BY <1>4, <1>6, <1>10 DEF Contents
<1> HIDE DEF blocks, link
<1>12. q \in Pools(objects, n) /\ q.total_capacity = n /\ q.block = blocks /\ q.free_list = link
       /\ q.chunks = r.chunks
  BY <1>4, <1>6, <1>7, <1>10, <1>11 DEF Pools
<1>13. Cardinality(used \cup {h}) = r.in_use + 1
  BY <1>4, <1>10, FS_AddElement
<1>14. (0 .. n - 1) \ (used \cup {h}) = free \ {h} /\ used \cup {h} \subseteq 0 .. n - 1
  BY <1>4, <1>10
<1>15. PoolOf(objects, q, used \cup {h})
  <2>1. n = r.chunk_size * (r.growth_events + 1)
    BY <1>1 DEF PoolOf
  <2>2. q.in_use = r.in_use + 1 /\ q.chunk_size = r.chunk_size /\ q.growth_events = r.growth_events
    BY <1>7
  <2>3. Chained(q.block, q.free_list, (0 .. n - 1) \ (used \cup {h}))
    BY <1>9, <1>12, <1>14
  <2> HIDE DEF n, h, free
  <2> QED
    BY <2>1, <2>2, <2>3, <1>4, <1>12, <1>13, <1>14 DEF PoolOf
<1> QED
  BY <1>1, <1>2, <1>10, <1>11, <1>12, <1>15

(* The owner writes to blocks of its own: no link is there.                *)
LEMMA RewrittenPool ==
    ASSUME NEW objects, NEW pl, NEW used, PoolOf(objects, pl, used),
           NEW blocks, OwnBlocks(objects, pl, used, blocks),
           NEW q, q = Rewritten(pl, blocks)
    PROVE  /\ PoolOf(objects, q, used)
           /\ q.block = blocks
           /\ q.chunks = pl.chunks /\ q.total_capacity = pl.total_capacity
<1> DEFINE n == pl.total_capacity
           free == (0 .. n - 1) \ used
<1>0. q = [pl EXCEPT !.block = blocks]
  BY DEF Rewritten
<1>1. /\ n \in Nat /\ pl \in Pools(objects, n) /\ used \subseteq 0 .. n - 1
      /\ pl.in_use = Cardinality(used) /\ n = pl.chunk_size * (pl.growth_events + 1)
      /\ Chained(pl.block, pl.free_list, free)
  BY DEF PoolOf
<1>4. blocks \in [0 .. n - 1 -> Contents(objects)] /\ \A c \in free : blocks[c] = pl.block[c]
  BY DEF OwnBlocks
<1>2. /\ pl.block \in [0 .. n - 1 -> Contents(objects)] /\ pl.free_list \in Nat \cup {Null}
      /\ pl.chunk_size \in Nat \ {0} /\ pl.chunks \in Nat /\ pl.in_use \in Nat /\ pl.growth_events \in Nat
      /\ pl = [block |-> pl.block, chunks |-> pl.chunks, free_list |-> pl.free_list,
               chunk_size |-> pl.chunk_size, total_capacity |-> n, in_use |-> pl.in_use,
               growth_events |-> pl.growth_events]
  BY <1>1, PoolRecord
<1>3. q = [block |-> blocks, chunks |-> pl.chunks, free_list |-> pl.free_list,
           chunk_size |-> pl.chunk_size, total_capacity |-> n, in_use |-> pl.in_use,
           growth_events |-> pl.growth_events]
  BY <1>0, <1>2
<1>5. Chained(blocks, pl.free_list, free)
  <2>1. \A c \in free : blocks[c] = pl.block[c]
    BY <1>4
  <2>2. PICK m \in Nat : \E f \in [1 .. m -> free] : Chain(pl.block, pl.free_list, free, f, m)
    BY <1>1 DEF Chained
  <2> HIDE DEF free
  <2>3. PICK f \in [1 .. m -> free] : Chain(pl.block, pl.free_list, free, f, m)
    BY <2>2
  <2>4. Chain(blocks, pl.free_list, free, f, m)
    BY <2>1, <2>3 DEF Chain
  <2> QED
    BY <2>4 DEF Chained
<1>6. q \in Pools(objects, n) /\ q.total_capacity = n /\ q.block = blocks /\ q.chunks = pl.chunks
      /\ q.free_list = pl.free_list /\ q.in_use = pl.in_use /\ q.chunk_size = pl.chunk_size
      /\ q.growth_events = pl.growth_events
  BY <1>1, <1>2, <1>3, <1>4 DEF Pools
<1>7. PoolOf(objects, q, used)
  <2> HIDE DEF n
  <2> QED
    BY <1>1, <1>5, <1>6 DEF PoolOf
<1> QED
  BY <1>6, <1>7

LEMMA WrittenPool ==
    ASSUME NEW objects, NEW pl, NEW used, PoolOf(objects, pl, used), NEW b \in used, NEW x \in objects,
           NEW q, q = WrittenTo(pl, b, x)
    PROVE  /\ PoolOf(objects, q, used)
           /\ q.block[b] = x
           /\ \A c \in used : c # b => q.block[c] = pl.block[c]
           /\ q.chunks = pl.chunks /\ q.total_capacity = pl.total_capacity
<1>1. PICK blocks : blocks = [pl.block EXCEPT ![b] = x]
  OBVIOUS
<1>2. /\ pl.block \in [0 .. pl.total_capacity - 1 -> Contents(objects)]
      /\ used \subseteq 0 .. pl.total_capacity - 1
  BY PoolRecord DEF PoolOf
<1>3. /\ blocks \in [0 .. pl.total_capacity - 1 -> Contents(objects)] /\ blocks[b] = x
      /\ \A c \in 0 .. pl.total_capacity - 1 : c # b => blocks[c] = pl.block[c]
  BY <1>1, <1>2 DEF Contents
<1>4. q = Rewritten(pl, blocks)
  BY <1>1 DEF Rewritten, WrittenTo
<1>5. OwnBlocks(objects, pl, used, blocks)
  BY <1>3 DEF OwnBlocks
<1>6. /\ PoolOf(objects, q, used) /\ q.block = blocks
      /\ q.chunks = pl.chunks /\ q.total_capacity = pl.total_capacity
  BY <1>4, <1>5, RewrittenPool
<1> QED
  BY <1>2, <1>3, <1>6

(* deallocate(): the block goes in front of the chain.                     *)
LEMMA DeallocatedPool ==
    ASSUME NEW objects, NEW pl, NEW used, PoolOf(objects, pl, used), NEW b \in used,
           NEW q, q = deallocate(pl, b)
    PROVE  /\ PoolOf(objects, q, used \ {b})
           /\ \A c \in used \ {b} : q.block[c] = pl.block[c]
           /\ q.chunks = pl.chunks /\ q.total_capacity = pl.total_capacity
<1> DEFINE n == pl.total_capacity
           blocks == [pl.block EXCEPT ![b] = FreeNode(pl.free_list)]
           free == (0 .. n - 1) \ used
<1>1. /\ n \in Nat /\ pl \in Pools(objects, n) /\ used \subseteq 0 .. n - 1
      /\ pl.in_use = Cardinality(used) /\ n = pl.chunk_size * (pl.growth_events + 1)
      /\ Chained(pl.block, pl.free_list, free) /\ IsFiniteSet(used)
  BY PoolOfFacts DEF PoolOf
<1>2. /\ pl.block \in [0 .. n - 1 -> Contents(objects)] /\ pl.free_list \in Nat \cup {Null}
      /\ pl.chunk_size \in Nat \ {0} /\ pl.chunks \in Nat /\ pl.in_use \in Nat /\ pl.growth_events \in Nat
  BY <1>1, PoolRecord
<1>10. pl = [block |-> pl.block, chunks |-> pl.chunks, free_list |-> pl.free_list,
             chunk_size |-> pl.chunk_size, total_capacity |-> n, in_use |-> pl.in_use,
             growth_events |-> pl.growth_events]
  BY <1>1, PoolRecord
<1>3. q = [block |-> blocks, chunks |-> pl.chunks, free_list |-> b,
           chunk_size |-> pl.chunk_size, total_capacity |-> n, in_use |-> pl.in_use - 1,
           growth_events |-> pl.growth_events]
  <2>1. PICK s : s = [pl EXCEPT !.block[b] = FreeNode(pl.free_list)]
    OBVIOUS
  <2>2. s = [block |-> blocks, chunks |-> pl.chunks, free_list |-> pl.free_list, chunk_size |-> pl.chunk_size,
             total_capacity |-> n, in_use |-> pl.in_use, growth_events |-> pl.growth_events]
    BY <1>10, <2>1
  <2>3. PICK u : u = [s EXCEPT !.free_list = b]
    OBVIOUS
  <2>4. u = [block |-> blocks, chunks |-> pl.chunks, free_list |-> b, chunk_size |-> pl.chunk_size,
             total_capacity |-> n, in_use |-> pl.in_use, growth_events |-> pl.growth_events]
    BY <2>2, <2>3
  <2>5. q = [u EXCEPT !.in_use = @ - 1]
    BY <2>1, <2>3 DEF deallocate
  <2> QED
    BY <2>4, <2>5
<1>4. blocks \in [0 .. n - 1 -> Contents(objects)] /\ blocks[b] = FreeNode(pl.free_list)
      /\ \A c \in 0 .. n - 1 : c # b => blocks[c] = pl.block[c]
  BY <1>1, <1>2 DEF Contents, FreeNode
<1>5. Cardinality(used \ {b}) = pl.in_use - 1 /\ pl.in_use - 1 \in Nat
  <2>1. IsFiniteSet(used \ {b}) /\ Cardinality(used \ {b}) = pl.in_use - 1
    BY <1>1, FS_RemoveElement
  <2> QED
    BY <2>1, FS_CardinalityType
<1>6. Chained(blocks, b, free \cup {b})
  <2>1. b \notin free /\ \A c \in free : blocks[c] = pl.block[c]
    BY <1>4
  <2> HIDE DEF free, blocks
  <2> QED
    BY <1>1, <1>4, <2>1, ChainPush
<1>7. (0 .. n - 1) \ (used \ {b}) = free \cup {b} /\ b \in Nat
  BY <1>1
<1> HIDE DEF blocks
<1>8. q \in Pools(objects, n) /\ q.total_capacity = n /\ q.block = blocks /\ q.chunks = pl.chunks
      /\ q.free_list = b /\ q.in_use = pl.in_use - 1 /\ q.chunk_size = pl.chunk_size
      /\ q.growth_events = pl.growth_events
  BY <1>1, <1>2, <1>3, <1>4, <1>5, <1>7 DEF Pools
<1>9. PoolOf(objects, q, used \ {b})
  <2>1. Chained(q.block, q.free_list, (0 .. n - 1) \ (used \ {b}))
    BY <1>6, <1>7, <1>8
  <2>2. used \ {b} \subseteq 0 .. n - 1
    BY <1>1
  <2> HIDE DEF n
  <2> QED
    BY <2>1, <2>2, <1>1, <1>5, <1>8 DEF PoolOf
<1> QED
  BY <1>1, <1>4, <1>8, <1>9

--------------------------------------------------------------------------------
(* Walking the free list.                                                  *)
LEMMA LeastNatural ==
    ASSUME NEW T, T \subseteq Nat, T # {}
    PROVE  \E n \in T : \A m \in T : n <= m
<1> DEFINE R == {p \in Nat \X Nat : p[1] < p[2]}
<1>1. IsWellFoundedOn(R, Nat)
  <2>1. OpToRel(<, Nat) = R
    BY DEF OpToRel
  <2> QED
    BY <2>1, NatLessThanWellFounded
<1> HIDE DEF R
<1>2. PICK n \in T : \A m \in T : ~ (<<m, n>> \in R)
  BY <1>1, WFMin
<1>3. ASSUME NEW m \in T PROVE n <= m
  <2>1. m \in Nat /\ n \in Nat /\ <<m, n>> \notin R
    BY <1>2
  <2> QED
    BY <2>1 DEF R
<1> QED
  BY <1>3

(* The walk of FreeListIs follows the enumeration and ends with it.        *)
LEMMA FreeListVisits ==
    ASSUME NEW objects, NEW pl, NEW used, PoolOf(objects, pl, used)
    PROVE  FreeListIs(pl, (0 .. pl.total_capacity - 1) \ used)
<1>1. PICK cap \in Nat : cap = pl.total_capacity
  BY DEF PoolOf
<1> DEFINE free == (0 .. cap - 1) \ used
           block == pl.block
           nth[k \in 0 .. cap] ==
               IF k = 0 THEN pl.free_list
               ELSE IF nth[k - 1] \in free THEN block[nth[k - 1]].next
               ELSE nth[k - 1]
<1>2. Chained(block, pl.free_list, free) /\ Null \notin free
  BY <1>1, NullAssumption DEF PoolOf
<1>3. PICK n \in Nat : \E f \in [1 .. n -> free] : Chain(block, pl.free_list, free, f, n)
  BY <1>2 DEF Chained
<1>4. PICK f \in [1 .. n -> free] : Chain(block, pl.free_list, free, f, n)
  BY <1>3
<1>5. n <= cap
  <2>1. IsFiniteSet(0 .. cap - 1) /\ Cardinality(0 .. cap - 1) = cap
    <3>1. Cardinality(0 .. cap - 1) = IF 0 > cap - 1 THEN 0 ELSE (cap - 1) - 0 + 1
      BY FS_Interval
    <3> QED
      BY <3>1, FS_Interval
  <2>2. IsFiniteSet(1 .. n) /\ Cardinality(1 .. n) = n
    <3>1. Cardinality(1 .. n) = IF 1 > n THEN 0 ELSE n - 1 + 1
      BY FS_Interval
    <3> QED
      BY <3>1, FS_Interval
  <2>3. f \in Injection(1 .. n, 0 .. cap - 1)
    <3>1. f \in [1 .. n -> 0 .. cap - 1]
      OBVIOUS
    <3>2. \A i, j \in 1 .. n : f[i] = f[j] => i = j
      BY <1>4 DEF Chain
    <3> HIDE DEF free
    <3> QED
      BY <3>1, <3>2 DEF Injection, IsInjective
  <2> QED
    BY <2>1, <2>2, <2>3, FS_Injection DEF ExistsInjection
<1>6. /\ pl.free_list = (IF n = 0 THEN Null ELSE f[1])
      /\ \A i \in 1 .. n : block[f[i]] = FreeNode(IF i = n THEN Null ELSE f[i + 1])
      /\ \A b \in free : \E i \in 1 .. n : f[i] = b
  BY <1>4 DEF Chain
<1> DEFINE g == [k \in 0 .. cap |-> IF k < n THEN f[k + 1] ELSE Null]
           Step(w, k) == IF k = 0 THEN pl.free_list
                         ELSE IF w[k - 1] \in free THEN block[w[k - 1]].next
                         ELSE w[k - 1]
<1> HIDE DEF free, block
<1>7. ASSUME NEW k \in 0 .. cap PROVE g[k] = Step(g, k)
  <2>1. CASE k = 0
    <3>1. g[0] = IF 0 < n THEN f[1] ELSE Null
      BY <2>1
    <3> QED
      BY <1>6, <2>1, <3>1
  <2>2. CASE k > 0 /\ k <= n
    <3>1. k - 1 \in 0 .. cap /\ g[k - 1] = f[k] /\ f[k] \in free /\ k \in 1 .. n
      BY <1>5, <2>2
    <3>2. block[f[k]].next = IF k = n THEN Null ELSE f[k + 1]
      <4>1. block[f[k]] = FreeNode(IF k = n THEN Null ELSE f[k + 1])
        BY <1>6, <3>1
      <4> QED
        BY <4>1 DEF FreeNode
    <3>3. g[k] = IF k = n THEN Null ELSE f[k + 1]
      BY <2>2
    <3> HIDE DEF g
    <3> QED
      BY <2>2, <3>1, <3>2, <3>3
  <2>3. CASE k > n
    <3>1. k - 1 \in 0 .. cap /\ g[k - 1] = Null /\ g[k] = Null /\ k # 0
      BY <2>3
    <3> HIDE DEF g
    <3> QED
      BY <1>2, <3>1
  <2> QED
    BY <2>1, <2>2, <2>3
<1>8. nth = [k \in 0 .. cap |-> Step(nth, k)]
  <2>1. g = [k \in 0 .. cap |-> Step(g, k)]
    BY <1>7
  <2>2. nth = CHOOSE w : w = [k \in 0 .. cap |-> Step(w, k)]
    OBVIOUS
  <2> HIDE DEF Step, nth, g
  <2> QED
    BY <2>1, <2>2
<1> HIDE DEF nth, g
<1>9. \A k \in 0 .. cap : nth[k] = g[k]
  <2> DEFINE T == {k \in 0 .. cap : nth[k] # g[k]}
  <2> SUFFICES ASSUME T # {} PROVE FALSE
    OBVIOUS
  <2>1. PICK k \in T : \A m \in T : k <= m
    <3>1. T \subseteq Nat
      OBVIOUS
    <3> HIDE DEF T
    <3> QED
      BY <3>1, LeastNatural
  <2>2. k \in 0 .. cap /\ nth[k] # g[k] /\ nth[k] = Step(nth, k) /\ g[k] = Step(g, k)
    BY <1>7, <1>8
  <2>3. CASE k = 0
    BY <2>2, <2>3
  <2>4. CASE k # 0
    <3>1. k - 1 \in 0 .. cap /\ k - 1 \notin T
      BY <2>1, <2>4
    <3>2. nth[k - 1] = g[k - 1]
      BY <3>1
    <3> QED
      BY <2>2, <2>4, <3>2
  <2> QED
    BY <2>3, <2>4
<1>10. nth[cap] = Null
  <2>1. g[cap] = Null
    BY <1>5 DEF g
  <2> QED
    BY <1>9, <2>1
<1>11. {nth[k] : k \in 0 .. cap} \ {Null} = free
  <2>1. \A k \in 0 .. cap : nth[k] \in free \cup {Null}
    <3>1. \A k \in 0 .. cap : g[k] \in free \cup {Null}
      <4>1. \A k \in 0 .. cap : k < n => k + 1 \in 1 .. n
        OBVIOUS
      <4> QED
        BY <4>1 DEF g
    <3> QED
      BY <1>9, <3>1
  <2>2. ASSUME NEW b \in free PROVE \E k \in 0 .. cap : nth[k] = b
    <3>1. PICK i \in 1 .. n : f[i] = b
      BY <1>6
    <3>2. i - 1 \in 0 .. cap /\ i - 1 < n /\ (i - 1) + 1 = i
      BY <1>5
    <3>3. g[i - 1] = f[i]
      BY <3>2 DEF g
    <3> QED
      BY <1>9, <3>1, <3>2, <3>3
  <2> QED
    BY <1>2, <2>1, <2>2
<1>12. FreeListIs(pl, free) <=> /\ nth[cap] = Null
                                /\ {nth[k] : k \in 0 .. cap} \ {Null} = free
  BY <1>1 DEF FreeListIs, nth, block
<1> QED
  BY <1>1, <1>10, <1>11, <1>12 DEF free
================================================================================
