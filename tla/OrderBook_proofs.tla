---------------------------- MODULE OrderBook_proofs ----------------------------
(***************************************************************************)
(* The order book's theorems, for every set of ids and prices, any initial *)
(* capacity, and with or without failing allocations.                      *)
(*                                                                         *)
(* The inductive invariant does not follow pointers.  It says that there   *)
(* is a set of nodes for each side (own), that the orders of one price are *)
(* linked in the order of their age (LevelOf), and that the pool's used    *)
(* blocks are these nodes (PoolOf, of SlabPool_proofs).  An operation then *)
(* adds a node to a set or takes one out, and the lists that the walks     *)
(* visit follow from the sets: WalkInOrder.                                *)
(***************************************************************************)
EXTENDS OrderBook, SlabPool_proofs, TLAPS

(* When the order in block b joined its level.                             *)
Age(block, b) == block[b].order.sequence

(* Of the nodes of S, c is the next younger than b.                        *)
Follows(block, S, b, c) ==
    /\ Age(block, b) < Age(block, c)
    /\ \A d \in S : ~(Age(block, b) < Age(block, d) /\ Age(block, d) < Age(block, c))

(* The nodes of S are linked both ways from the oldest, the head of the    *)
(* level, to the youngest, its tail.                                       *)
LevelOf(block, level, S) ==
    /\ level \in [head : S \cup {Null}, tail : S \cup {Null}]
    /\ level.head = Null <=> S = {}
    /\ level.tail = Null <=> S = {}
    /\ \A b \in S :
          /\ Age(block, b) \in Nat
          /\ block[b].prev \in S \cup {Null} /\ block[b].next \in S \cup {Null}
          /\ block[b].prev = Null <=> b = level.head
          /\ block[b].next = Null <=> b = level.tail
          /\ Age(block, level.head) <= Age(block, b)
          /\ Age(block, b) <= Age(block, level.tail)
    /\ \A b, c \in S :
          /\ Age(block, b) = Age(block, c) => b = c
          /\ block[b].next = c <=> Follows(block, S, b, c)
          /\ block[c].prev = b <=> Follows(block, S, b, c)

(* What is linked does not depend on the rest of the blocks.               *)
LEMMA LevelFrame ==
    ASSUME NEW block, NEW level, NEW S, LevelOf(block, level, S), NEW block2,
           \A b \in S : /\ Age(block2, b) = Age(block, b)
                        /\ block2[b].prev = block[b].prev /\ block2[b].next = block[b].next
    PROVE  LevelOf(block2, level, S)
BY SMTT(60) DEF LevelOf, Follows

(* The youngest order joins at the tail.                                   *)
LEMMA LevelAppend ==
    ASSUME NEW block, NEW level, NEW S, LevelOf(block, level, S), Null \notin S, NEW new, new \notin S, new # Null,
           NEW block2, Age(block2, new) \in Nat,
           \A b \in S : /\ Age(block2, b) = Age(block, b) /\ Age(block, b) < Age(block2, new)
                        /\ block2[b].prev = block[b].prev
                        /\ block2[b].next = IF b = level.tail THEN new ELSE block[b].next,
           block2[new].prev = level.tail, block2[new].next = Null
    PROVE  LevelOf(block2, [head |-> IF level.tail = Null THEN new ELSE level.head, tail |-> new], S \cup {new})
<1> DEFINE level2 == [head |-> IF level.tail = Null THEN new ELSE level.head, tail |-> new]
           T == S \cup {new}
<1>1. /\ level \in [head : S \cup {Null}, tail : S \cup {Null}]
      /\ level.head = Null <=> S = {}
      /\ level.tail = Null <=> S = {}
  BY DEF LevelOf
<1>2. \A b \in S :
          /\ Age(block, b) \in Nat
          /\ block[b].prev \in S \cup {Null} /\ block[b].next \in S \cup {Null}
          /\ block[b].prev = Null <=> b = level.head
          /\ block[b].next = Null <=> b = level.tail
          /\ Age(block, level.head) <= Age(block, b)
          /\ Age(block, b) <= Age(block, level.tail)
  BY DEF LevelOf
<1>3. \A b, c \in S :
          /\ Age(block, b) = Age(block, c) => b = c
          /\ block[b].next = c <=> Follows(block, S, b, c)
          /\ block[c].prev = b <=> Follows(block, S, b, c)
  BY DEF LevelOf
<1>4. /\ level2 \in [head : T \cup {Null}, tail : T \cup {Null}]
      /\ level2.head # Null /\ level2.tail = new /\ T # {}
      /\ level2.head = (IF S = {} THEN new ELSE level.head)
  BY <1>1
<1> HIDE DEF level2
<1>5. \A b \in T :
          /\ Age(block2, b) \in Nat
          /\ block2[b].prev \in T \cup {Null} /\ block2[b].next \in T \cup {Null}
          /\ block2[b].prev = Null <=> b = level2.head
          /\ block2[b].next = Null <=> b = level2.tail
          /\ Age(block2, level2.head) <= Age(block2, b)
          /\ Age(block2, b) <= Age(block2, level2.tail)
  BY <1>1, <1>2, <1>4
<1>6. \A b, c \in S : Follows(block2, T, b, c) <=> Follows(block, S, b, c)
  BY <1>2 DEF Follows
<1>7. \A b \in S : Follows(block2, T, b, new) <=> b = level.tail
  BY <1>1, <1>2, <1>3 DEF Follows
<1>8. \A b \in T : ~Follows(block2, T, new, b)
  BY <1>2 DEF Follows
<1>9. \A b, c \in T :
          /\ Age(block2, b) = Age(block2, c) => b = c
          /\ block2[b].next = c <=> Follows(block2, T, b, c)
          /\ block2[c].prev = b <=> Follows(block2, T, b, c)
  <2> SUFFICES ASSUME NEW b \in T, NEW c \in T
               PROVE  /\ Age(block2, b) = Age(block2, c) => b = c
                      /\ block2[b].next = c <=> Follows(block2, T, b, c)
                      /\ block2[c].prev = b <=> Follows(block2, T, b, c)
    OBVIOUS
  <2>1. CASE b \in S /\ c \in S
    <3>1. Follows(block2, T, b, c) <=> Follows(block, S, b, c)
      BY <2>1, <1>6
    <3>2. (block2[b].next = c <=> block[b].next = c) /\ block2[c].prev = block[c].prev
      BY <2>1, <1>1, <1>2
    <3>3. Age(block2, b) = Age(block2, c) => b = c
      BY <2>1, <1>3
    <3>4. (block[b].next = c <=> Follows(block, S, b, c)) /\ (block[c].prev = b <=> Follows(block, S, b, c))
      BY <2>1, <1>3
    <3> QED
      BY <3>1, <3>2, <3>3, <3>4, Zenon
  <2>2. CASE b \in S /\ c = new
    <3>1. Follows(block2, T, b, c) <=> b = level.tail
      BY <2>2, <1>7
    <3>2. Age(block2, b) # Age(block2, c)
      BY <2>2, <1>2
    <3>3. (block2[b].next = c <=> b = level.tail) /\ (block2[c].prev = b <=> b = level.tail)
      BY <2>2, <1>1, <1>2
    <3> QED
      BY <3>1, <3>2, <3>3, Zenon
  <2>3. CASE b = new
    <3>1. ~Follows(block2, T, b, c)
      BY <2>3, <1>8
    <3>2. Age(block2, b) = Age(block2, c) => b = c
      BY <2>3, <1>2
    <3>3. block2[b].next # c /\ block2[c].prev # b
      BY <2>3, <1>1, <1>2
    <3> QED
      BY <3>1, <3>2, <3>3, Zenon
  <2> QED
    BY <2>1, <2>2, <2>3
<1> QED
  BY <1>4, <1>5, <1>9 DEF LevelOf, level2

(* Between blocks and block2, the nodes of S keep their ages and their     *)
(* links, but for before and after, which are linked with each other.      *)
Bypassed(block, block2, S, before, after) ==
    \A b \in S :
       /\ Age(block2, b) = Age(block, b)
       /\ block2[b].prev = IF b = after THEN before ELSE block[b].prev
       /\ block2[b].next = IF b = before THEN after ELSE block[b].next

(* A node goes, and its neighbours are linked with each other.             *)
LEMMA LevelErase ==
    ASSUME NEW block, NEW level, NEW S, LevelOf(block, level, S), Null \notin S, NEW node \in S,
           NEW before, before = block[node].prev, NEW after, after = block[node].next, NEW block2,
           Bypassed(block, block2, S \ {node}, before, after)
    PROVE  LevelOf(block2, [head |-> IF before = Null THEN after ELSE level.head,
                            tail |-> IF after = Null THEN before ELSE level.tail], S \ {node})
<1> DEFINE level2 == [head |-> IF before = Null THEN after ELSE level.head,
                      tail |-> IF after = Null THEN before ELSE level.tail]
           T == S \ {node}
<1>0. \A b \in T :
          /\ Age(block2, b) = Age(block, b)
          /\ block2[b].prev = IF b = after THEN before ELSE block[b].prev
          /\ block2[b].next = IF b = before THEN after ELSE block[b].next
  BY DEF Bypassed
<1>1. /\ level \in [head : S \cup {Null}, tail : S \cup {Null}]
      /\ level.head = Null <=> S = {}
      /\ level.tail = Null <=> S = {}
  BY DEF LevelOf
<1>2. \A b \in S :
          /\ Age(block, b) \in Nat
          /\ block[b].prev \in S \cup {Null} /\ block[b].next \in S \cup {Null}
          /\ block[b].prev = Null <=> b = level.head
          /\ block[b].next = Null <=> b = level.tail
          /\ Age(block, level.head) <= Age(block, b)
          /\ Age(block, b) <= Age(block, level.tail)
  BY DEF LevelOf
<1>3. \A b, c \in S :
          /\ Age(block, b) = Age(block, c) => b = c
          /\ block[b].next = c <=> Follows(block, S, b, c)
          /\ block[c].prev = b <=> Follows(block, S, b, c)
  BY DEF LevelOf
<1>4. /\ before # node /\ after # node /\ before \in T \cup {Null} /\ after \in T \cup {Null}
      /\ before \in T => Follows(block, S, before, node) /\ block[before].next = node
      /\ after \in T => Follows(block, S, node, after) /\ block[after].prev = node
  BY <1>2, <1>3 DEF Follows
<1>5. /\ before = Null <=> node = level.head
      /\ after = Null <=> node = level.tail
  BY <1>2
<1>6. /\ level2 \in [head : T \cup {Null}, tail : T \cup {Null}]
      /\ level2.head = (IF before = Null THEN after ELSE level.head)
      /\ level2.tail = (IF after = Null THEN before ELSE level.tail)
  BY <1>1, <1>4, <1>5
<1> HIDE DEF level2
<1>7. \A b, c \in T :
          Follows(block2, T, b, c) <=> Follows(block, S, b, c) \/ (b = before /\ c = after)
  <2> SUFFICES ASSUME NEW b \in T, NEW c \in T
               PROVE  Follows(block2, T, b, c) <=> Follows(block, S, b, c) \/ (b = before /\ c = after)
    OBVIOUS
  <2>1. Follows(block, S, b, c) => Follows(block2, T, b, c)
    BY <1>0 DEF Follows
  <2>2. b = before /\ c = after => Follows(block2, T, b, c)
    BY <1>0, <1>2, <1>3, <1>4 DEF Follows
  <2>3. ASSUME Follows(block2, T, b, c), ~Follows(block, S, b, c)
        PROVE  b = before /\ c = after
    <3>1. /\ Age(block, b) < Age(block, node) /\ Age(block, node) < Age(block, c)
          /\ \A d \in T : ~(Age(block, b) < Age(block, d) /\ Age(block, d) < Age(block, c))
      BY <1>0, <2>3 DEF Follows
    <3>2. Follows(block, S, b, node) /\ Follows(block, S, node, c)
      BY <3>1, <1>2 DEF Follows
    <3> QED
      BY <3>2, <1>3
  <2> QED
    BY <2>1, <2>2, <2>3
<1>8. \A b \in T :
          /\ Age(block2, b) \in Nat
          /\ block2[b].prev \in T \cup {Null} /\ block2[b].next \in T \cup {Null}
          /\ block2[b].prev = Null <=> b = level2.head
          /\ block2[b].next = Null <=> b = level2.tail
  <2> SUFFICES ASSUME NEW b \in T
               PROVE  /\ Age(block2, b) \in Nat
                      /\ block2[b].prev \in T \cup {Null} /\ block2[b].next \in T \cup {Null}
                      /\ block2[b].prev = Null <=> b = level2.head
                      /\ block2[b].next = Null <=> b = level2.tail
    OBVIOUS
  <2>1. block[b].prev = node => b = after
    BY <1>3
  <2>2. block[b].next = node => b = before
    BY <1>3
  <2> QED
    BY <2>1, <2>2, <1>0, <1>2, <1>4, <1>5, <1>6
<1>9. \A b \in T : Age(block2, level2.head) <= Age(block2, b) /\ Age(block2, b) <= Age(block2, level2.tail)
  <2> SUFFICES ASSUME NEW b \in T
               PROVE  Age(block2, level2.head) <= Age(block2, b) /\ Age(block2, b) <= Age(block2, level2.tail)
    OBVIOUS
  <2>1. level.head \in S /\ level.tail \in S
    BY <1>1
  <2>2. before = Null => after \in T /\ level2.head = after /\ Age(block2, after) <= Age(block2, b)
    <3> SUFFICES ASSUME before = Null
                 PROVE  after \in T /\ level2.head = after /\ Age(block2, after) <= Age(block2, b)
      OBVIOUS
    <3>1. node = level.head /\ Age(block, node) < Age(block, b)
      BY <1>2, <1>3, <1>5
    <3>2. after # Null
      BY <3>1, <1>2, <1>5
    <3>3. after \in T /\ Follows(block, S, node, after) /\ level2.head = after
      BY <3>2, <1>4, <1>6
    <3> QED
      BY <3>1, <3>3, <1>0, <1>2 DEF Follows
  <2>3. after = Null => before \in T /\ level2.tail = before /\ Age(block2, b) <= Age(block2, before)
    <3> SUFFICES ASSUME after = Null
                 PROVE  before \in T /\ level2.tail = before /\ Age(block2, b) <= Age(block2, before)
      OBVIOUS
    <3>1. node = level.tail /\ Age(block, b) < Age(block, node)
      BY <1>2, <1>3, <1>5
    <3>2. before # Null
      BY <3>1, <1>2, <1>5
    <3>3. before \in T /\ Follows(block, S, before, node) /\ level2.tail = before
      BY <3>2, <1>4, <1>6
    <3> QED
      BY <3>1, <3>3, <1>0, <1>2 DEF Follows
  <2>4. before # Null => level2.head = level.head /\ level.head \in T
    BY <2>1, <1>5, <1>6
  <2>5. after # Null => level2.tail = level.tail /\ level.tail \in T
    BY <2>1, <1>5, <1>6
  <2> QED
    BY <2>2, <2>3, <2>4, <2>5, <1>0, <1>2
<1>10. level2.head = Null <=> T = {}
  BY <1>1, <1>2, <1>3, <1>4, <1>5, <1>6, <1>9 DEF Follows
<1>11. level2.tail = Null <=> T = {}
  BY <1>1, <1>2, <1>3, <1>4, <1>5, <1>6, <1>9 DEF Follows
<1>12. \A b, c \in T :
          /\ Age(block2, b) = Age(block2, c) => b = c
          /\ block2[b].next = c <=> Follows(block2, T, b, c)
          /\ block2[c].prev = b <=> Follows(block2, T, b, c)
  <2> SUFFICES ASSUME NEW b \in T, NEW c \in T
               PROVE  /\ Age(block2, b) = Age(block2, c) => b = c
                      /\ block2[b].next = c <=> Follows(block2, T, b, c)
                      /\ block2[c].prev = b <=> Follows(block2, T, b, c)
    OBVIOUS
  <2>1. Age(block2, b) = Age(block2, c) => b = c
    BY <1>0, <1>3
  <2>2. Follows(block2, T, b, c) <=> block[b].next = c \/ (b = before /\ c = after)
    BY <1>3, <1>7, ZenonT(60)
  <2>3. Follows(block2, T, b, c) <=> block[c].prev = b \/ (b = before /\ c = after)
    BY <1>3, <1>7, Zenon
  <2>4. block2[b].next = c <=> block[b].next = c \/ (b = before /\ c = after)
    BY <1>0, <1>2, <1>4
  <2>5. block2[c].prev = b <=> block[c].prev = b \/ (b = before /\ c = after)
    BY <1>0, <1>2, <1>4
  <2> QED
    BY <2>1, <2>2, <2>3, <2>4, <2>5, Zenon
<1> QED
  BY <1>6, <1>8, <1>9, <1>10, <1>11, <1>12 DEF LevelOf, level2

--------------------------------------------------------------------------------
(* q lists the n elements of S, each once, by ascending key: the k-th has  *)
(* k - 1 before it.                                                        *)
Before(S, key, x) == {y \in S : key[y] < key[x]}

ByKey(S, key, q, n) ==
    /\ n \in Nat /\ q \in [1 .. n -> S]
    /\ \A x \in S : \E i \in 1 .. n : q[i] = x
    /\ \A i, j \in 1 .. n : i < j => key[q[i]] < key[q[j]]
    /\ \A i \in 1 .. n : Cardinality(Before(S, key, q[i])) = i - 1

(* The nodes of a level can be listed from the oldest to the youngest.     *)

LEMMA ByAge ==
    ASSUME NEW S, IsFiniteSet(S), NEW age \in [S -> Int],
           \A b, c \in S : age[b] = age[c] => b = c
    PROVE  \E q : ByKey(S, age, q, Cardinality(S))
<1>1. PICK n \in Nat : n = Cardinality(S)
  BY FS_CardinalityType
<1> DEFINE upTo(b) == {c \in S : age[c] <= age[b]}
           rank == [b \in S |-> Cardinality(upTo(b))]
<1>2. \A b \in S : /\ upTo(b) \subseteq S /\ b \in upTo(b) /\ IsFiniteSet(upTo(b))
                   /\ rank[b] \in 1 .. n
  <2> SUFFICES ASSUME NEW b \in S PROVE /\ upTo(b) \subseteq S /\ b \in upTo(b) /\ IsFiniteSet(upTo(b))
                                        /\ rank[b] \in 1 .. n
    OBVIOUS
  <2>1. upTo(b) \subseteq S /\ b \in upTo(b)
    OBVIOUS
  <2> DEFINE U == upTo(b)
  <2>2. rank[b] = Cardinality(U)
    OBVIOUS
  <2> HIDE DEF U
  <2>3. IsFiniteSet(U) /\ Cardinality(U) <= n
    BY <2>1, <1>1, FS_Subset DEF U
  <2>4. Cardinality(U) \in Nat /\ Cardinality(U) # 0
    BY <2>1, <2>3, FS_CardinalityType, FS_EmptySet DEF U
  <2> QED
    BY <2>1, <2>2, <2>3, <2>4 DEF U
<1>3. ASSUME NEW b \in S, NEW c \in S, age[b] < age[c] PROVE rank[b] < rank[c]
  <2>1. upTo(b) \subseteq upTo(c) /\ c \notin upTo(b) /\ c \in upTo(c)
    BY <1>3
  <2> DEFINE U == upTo(b)
             V == upTo(c)
  <2>2. rank[b] = Cardinality(U) /\ rank[c] = Cardinality(V) /\ U \subseteq V /\ U # V
    BY <2>1
  <2>3. IsFiniteSet(U) /\ IsFiniteSet(V)
    BY <1>2
  <2> HIDE DEF U, V
  <2>4. Cardinality(U) <= Cardinality(V) /\ Cardinality(U) # Cardinality(V)
        /\ Cardinality(U) \in Nat /\ Cardinality(V) \in Nat
    BY <2>2, <2>3, FS_Subset, FS_CardinalityType
  <2> QED
    BY <2>2, <2>4
<1> HIDE DEF rank, upTo
<1>4. rank \in Injection(S, 1 .. n)
  <2>1. rank \in [S -> 1 .. n]
    BY <1>2 DEF rank
  <2>2. \A b, c \in S : rank[b] = rank[c] => b = c
    <3> SUFFICES ASSUME NEW b \in S, NEW c \in S, rank[b] = rank[c], b # c PROVE FALSE
      OBVIOUS
    <3>1. age[b] < age[c] \/ age[c] < age[b]
      OBVIOUS
    <3> QED
      BY <3>1, <1>2, <1>3
  <2> QED
    BY <2>1, <2>2 DEF Injection, IsInjective
<1>5. rank \in Surjection(S, 1 .. n)
  <2>1. IsFiniteSet(1 .. n) /\ Cardinality(1 .. n) = n
    <3>1. Cardinality(1 .. n) = IF 1 > n THEN 0 ELSE n - 1 + 1
      BY FS_Interval
    <3> QED
      BY <3>1, FS_Interval
  <2> QED
    BY <2>1, <1>1, <1>4, FS_Injection
<1> DEFINE q == [i \in 1 .. n |-> CHOOSE b \in S : rank[b] = i]
<1>6. ASSUME NEW i \in 1 .. n PROVE q[i] \in S /\ rank[q[i]] = i
  <2>1. \E b \in S : rank[b] = i
    BY <1>5 DEF Surjection
  <2> QED
    BY <2>1
<1>7. q \in [1 .. n -> S]
  BY <1>6
<1> HIDE DEF q
<1>8. ASSUME NEW b \in S PROVE \E i \in 1 .. n : q[i] = b
  <2>1. rank[b] \in 1 .. n /\ q[rank[b]] \in S /\ rank[q[rank[b]]] = rank[b]
    BY <1>2, <1>6
  <2>2. q[rank[b]] = b
    BY <2>1, <1>4 DEF Injection, IsInjective
  <2> QED
    BY <2>1, <2>2
<1>9. ASSUME NEW i \in 1 .. n, NEW j \in 1 .. n, i < j PROVE age[q[i]] < age[q[j]]
  <2>1. q[i] \in S /\ q[j] \in S /\ rank[q[i]] = i /\ rank[q[j]] = j
    BY <1>6
  <2>2. age[q[i]] # age[q[j]]
    BY <2>1, <1>9
  <2>3. ~(age[q[j]] < age[q[i]])
    BY <2>1, <1>3, <1>9
  <2> QED
    BY <2>1, <2>2, <2>3
<1>10. ASSUME NEW i \in 1 .. n PROVE Cardinality(Before(S, age, q[i])) = i - 1
  <2>1. PICK b : b = q[i]
    OBVIOUS
  <2>2. b \in S /\ rank[b] = i
    BY <2>1, <1>6
  <2>3. b \in upTo(b) /\ IsFiniteSet(upTo(b)) /\ Cardinality(upTo(b)) = i
    BY <2>2, <1>2 DEF rank
  <2>4. Cardinality(upTo(b) \ {b}) = i - 1
    BY <2>3, FS_RemoveElement
  <2>5. Before(S, age, b) = upTo(b) \ {b}
    <3>1. ASSUME NEW c \in S PROVE age[c] < age[b] <=> age[c] <= age[b] /\ c # b
      BY <2>2
    <3> QED
      BY <3>1, <2>2 DEF upTo, Before
  <2> QED
    BY <2>1, <2>4, <2>5
<1> QED
  BY <1>1, <1>7, <1>8, <1>9, <1>10 DEF ByKey

(* nodes visits the nodes of S, each once, from the oldest to the youngest. *)
InOrder(block, S, nodes, n) ==
    /\ nodes \in [1 .. n -> S]
    /\ \A b \in S : \E i \in 1 .. n : nodes[i] = b
    /\ \A i, j \in 1 .. n : i < j => Age(block, nodes[i]) < Age(block, nodes[j])

(* The links lead from each of them to the next.                           *)
LEMMA LinksInOrder ==
    ASSUME NEW block, NEW level, NEW S, LevelOf(block, level, S), Null \notin S,
           NEW n \in Nat, NEW q, InOrder(block, S, q, n)
    PROVE  /\ level.head = (IF n = 0 THEN Null ELSE q[1])
           /\ level.tail = (IF n = 0 THEN Null ELSE q[n])
           /\ \A i, j \in 1 .. n : q[i] = q[j] => i = j
           /\ \A i \in 1 .. n : /\ block[q[i]].prev = (IF i = 1 THEN Null ELSE q[i - 1])
                                /\ block[q[i]].next = (IF i = n THEN Null ELSE q[i + 1])
<1>1. /\ level \in [head : S \cup {Null}, tail : S \cup {Null}]
      /\ level.head = Null <=> S = {}
      /\ level.tail = Null <=> S = {}
  BY DEF LevelOf
<1>2. \A b \in S :
          /\ Age(block, b) \in Nat
          /\ block[b].prev \in S \cup {Null} /\ block[b].next \in S \cup {Null}
          /\ block[b].prev = Null <=> b = level.head
          /\ block[b].next = Null <=> b = level.tail
          /\ Age(block, level.head) <= Age(block, b)
          /\ Age(block, b) <= Age(block, level.tail)
  BY DEF LevelOf
<1>3. \A b, c \in S :
          /\ Age(block, b) = Age(block, c) => b = c
          /\ block[b].next = c <=> Follows(block, S, b, c)
          /\ block[c].prev = b <=> Follows(block, S, b, c)
  BY DEF LevelOf
<1>4. /\ q \in [1 .. n -> S]
      /\ \A b \in S : \E i \in 1 .. n : q[i] = b
      /\ \A i, j \in 1 .. n : i < j => Age(block, q[i]) < Age(block, q[j])
  BY DEF InOrder
<1>5. \A i, j \in 1 .. n : q[i] = q[j] => i = j
  <2> SUFFICES ASSUME NEW i \in 1 .. n, NEW j \in 1 .. n, q[i] = q[j], i # j PROVE FALSE
    OBVIOUS
  <2>1. Age(block, q[i]) < Age(block, q[j]) \/ Age(block, q[j]) < Age(block, q[i])
    BY <1>4
  <2> QED
    BY <2>1, <1>2, <1>4
<1>6. ASSUME n # 0 PROVE level.head = q[1] /\ level.tail = q[n]
  <2>1. 1 \in 1 .. n /\ n \in 1 .. n
    BY <1>6
  <2>2. q[1] \in S /\ level.head \in S /\ level.tail \in S
    BY <2>1, <1>1, <1>4
  <2>3. PICK i \in 1 .. n : q[i] = level.head
    BY <2>2, <1>4
  <2>4. PICK j \in 1 .. n : q[j] = level.tail
    BY <2>2, <1>4
  <2>5. i = 1
    <3> SUFFICES ASSUME i # 1 PROVE FALSE
      OBVIOUS
    <3>1. Age(block, q[1]) < Age(block, q[i])
      BY <2>1, <1>4
    <3> QED
      BY <3>1, <2>2, <2>3, <1>2
  <2>6. j = n
    <3> SUFFICES ASSUME j # n PROVE FALSE
      OBVIOUS
    <3>1. Age(block, q[j]) < Age(block, q[n]) /\ q[n] \in S
      BY <2>1, <1>4
    <3> QED
      BY <3>1, <2>2, <2>4, <1>2
  <2> QED
    BY <2>3, <2>4, <2>5, <2>6
<1>7. ASSUME n = 0 PROVE S = {}
  BY <1>4, <1>7
<1>8. ASSUME NEW i \in 1 .. n, i # n
      PROVE  block[q[i]].next = q[i + 1] /\ block[q[i + 1]].prev = q[i]
  <2>1. i + 1 \in 1 .. n /\ i < i + 1
    BY <1>8
  <2>2. Age(block, q[i]) < Age(block, q[i + 1]) /\ q[i] \in S /\ q[i + 1] \in S
    BY <2>1, <1>4
  <2>3. ASSUME NEW d \in S, Age(block, q[i]) < Age(block, d), Age(block, d) < Age(block, q[i + 1])
        PROVE  FALSE
    <3>1. PICK m \in 1 .. n : q[m] = d
      BY <1>4
    <3>2. m # i /\ m # i + 1
      BY <3>1, <2>2, <2>3, <1>2
    <3>3. CASE m < i
      <4>1. Age(block, q[m]) < Age(block, q[i])
        BY <3>3, <1>4
      <4> QED
        BY <4>1, <3>1, <2>2, <2>3, <1>2
    <3>4. CASE i + 1 < m
      <4>1. Age(block, q[i + 1]) < Age(block, q[m])
        BY <3>4, <2>1, <1>4
      <4> QED
        BY <4>1, <3>1, <2>2, <2>3, <1>2
    <3> QED
      BY <3>2, <3>3, <3>4
  <2>4. Follows(block, S, q[i], q[i + 1])
    BY <2>2, <2>3 DEF Follows
  <2> QED
    BY <2>2, <2>4, <1>3
<1>9. ASSUME NEW i \in 1 .. n
      PROVE  /\ block[q[i]].prev = (IF i = 1 THEN Null ELSE q[i - 1])
             /\ block[q[i]].next = (IF i = n THEN Null ELSE q[i + 1])
  <2>1. q[i] \in S /\ n # 0
    BY <1>4
  <2>2. i = 1 => block[q[i]].prev = Null
    BY <2>1, <1>2, <1>6
  <2>3. i = n => block[q[i]].next = Null
    BY <2>1, <1>2, <1>6
  <2>4. i # 1 => block[q[i]].prev = q[i - 1]
    <3> SUFFICES ASSUME i # 1 PROVE block[q[i]].prev = q[i - 1]
      OBVIOUS
    <3>1. i - 1 \in 1 .. n /\ i - 1 # n /\ (i - 1) + 1 = i
      OBVIOUS
    <3> QED
      BY <3>1, <1>8
  <2> QED
    BY <2>2, <2>3, <2>4, <1>8
<1> QED
  BY <1>1, <1>5, <1>6, <1>7, <1>9

(* The walk over a level, from its head to a null pointer, meets the nodes *)
(* of the level, each once, from the oldest to the youngest.               *)
LEMMA WalkInOrder ==
    ASSUME NEW pl, NEW cap \in Nat, cap = pl.total_capacity,
           NEW level, NEW S, LevelOf(pl.block, level, S), Null \notin S,
           IsFiniteSet(S), Cardinality(S) <= cap
    PROVE  /\ Cardinality(S) \in Nat
           /\ InOrder(pl.block, S, Nodes(pl, level), Cardinality(S))
<1>1. PICK n \in Nat : n = Cardinality(S) /\ n <= cap
  BY FS_CardinalityType
<1>2. PICK q : InOrder(pl.block, S, q, n)
  <2> DEFINE age == [b \in S |-> Age(pl.block, b)]
  <2>1. age \in [S -> Int] /\ \A b, c \in S : age[b] = age[c] => b = c
    BY DEF LevelOf
  <2>2. PICK q \in [1 .. n -> S] :
              /\ \A b \in S : \E i \in 1 .. n : q[i] = b
              /\ \A i, j \in 1 .. n : i < j => age[q[i]] < age[q[j]]
    <3> HIDE DEF age
    <3>1. PICK q : ByKey(S, age, q, n)
      BY <2>1, <1>1, ByAge
    <3> QED
      BY <3>1 DEF ByKey
  <2> QED
    BY <2>2 DEF InOrder
<1> DEFINE block == pl.block
           nth[k \in 1 .. cap] ==
               IF k = 1 THEN level.head
               ELSE IF nth[k - 1] = Null THEN Null ELSE block[nth[k - 1]].next
           g == [k \in 1 .. cap |-> IF k <= n THEN q[k] ELSE Null]
           Step(w, k) == IF k = 1 THEN level.head
                         ELSE IF w[k - 1] = Null THEN Null ELSE block[w[k - 1]].next
<1>3. q \in [1 .. n -> S]
  BY <1>2 DEF InOrder
<1>4. /\ level.head = (IF n = 0 THEN Null ELSE q[1])
      /\ \A i \in 1 .. n : block[q[i]].next = (IF i = n THEN Null ELSE q[i + 1])
  BY <1>2, LinksInOrder
<1> HIDE DEF block
<1>5. ASSUME NEW k \in 1 .. cap PROVE g[k] = Step(g, k)
  <2>1. CASE k = 1
    <3>1. g[1] = IF 1 <= n THEN q[1] ELSE Null
      BY <2>1
    <3> HIDE DEF g
    <3> QED
      BY <1>4, <2>1, <3>1
  <2>2. CASE k # 1 /\ k <= n + 1
    <3>1. k - 1 \in 1 .. cap /\ k - 1 \in 1 .. n /\ g[k - 1] = q[k - 1] /\ q[k - 1] \in S
      BY <1>3, <2>2
    <3>2. block[q[k - 1]].next = IF k - 1 = n THEN Null ELSE q[(k - 1) + 1]
      BY <3>1, <1>4
    <3>3. g[k] = IF k <= n THEN q[k] ELSE Null
      OBVIOUS
    <3>4. (k - 1) + 1 = k /\ (k - 1 = n <=> ~(k <= n))
      BY <2>2
    <3> HIDE DEF g
    <3>5. g[k] = block[q[k - 1]].next
      BY <3>2, <3>3, <3>4
    <3> QED
      BY <2>2, <3>1, <3>5
  <2>3. CASE k # 1 /\ k > n + 1
    <3>1. k - 1 \in 1 .. cap /\ g[k - 1] = Null /\ g[k] = Null
      BY <2>3
    <3> HIDE DEF g
    <3> QED
      BY <2>3, <3>1
  <2> QED
    BY <2>1, <2>2, <2>3
<1>6. nth = [k \in 1 .. cap |-> Step(nth, k)]
  <2>1. g = [k \in 1 .. cap |-> Step(g, k)]
    BY <1>5
  <2>2. nth = CHOOSE w : w = [k \in 1 .. cap |-> Step(w, k)]
    OBVIOUS
  <2> HIDE DEF Step, nth, g
  <2> QED
    BY <2>1, <2>2
<1> HIDE DEF nth, g
<1>7. \A k \in 1 .. cap : nth[k] = g[k]
  <2> DEFINE T == {k \in 1 .. cap : nth[k] # g[k]}
  <2> SUFFICES ASSUME T # {} PROVE FALSE
    OBVIOUS
  <2>1. PICK k \in T : \A m \in T : k <= m
    <3>1. T \subseteq Nat
      OBVIOUS
    <3> HIDE DEF T
    <3> QED
      BY <3>1, LeastNatural
  <2>2. k \in 1 .. cap /\ nth[k] # g[k] /\ nth[k] = Step(nth, k) /\ g[k] = Step(g, k)
    BY <1>5, <1>6
  <2>3. CASE k = 1
    BY <2>2, <2>3
  <2>4. CASE k # 1
    <3>1. k - 1 \in 1 .. cap /\ k - 1 \notin T
      BY <2>1, <2>4
    <3>2. nth[k - 1] = g[k - 1]
      BY <3>1
    <3> QED
      BY <2>2, <2>4, <3>2
  <2> QED
    BY <2>3, <2>4
<1>8. DOMAIN nth = 1 .. cap
  BY <1>6
<1>9. {j \in DOMAIN nth : nth[j] # Null} = 1 .. n
  <2>1. \A j \in 1 .. cap : nth[j] # Null <=> j <= n
    <3>1. \A j \in 1 .. cap : j <= n => j \in 1 .. n /\ q[j] \in S
      BY <1>3
    <3> QED
      BY <1>7, <3>1 DEF g
  <2> QED
    BY <2>1, <1>1, <1>8
<1>10. Nodes(pl, level) = [k \in {j \in DOMAIN nth : nth[j] # Null} |-> nth[k]]
  BY DEF Nodes, nth, block
<1>11. Nodes(pl, level) = q
  <2>1. \A k \in 1 .. n : nth[k] = q[k]
    <3> SUFFICES ASSUME NEW k \in 1 .. n PROVE nth[k] = q[k]
      OBVIOUS
    <3>1. k \in 1 .. cap /\ k <= n
      BY <1>1
    <3>2. g[k] = q[k]
      BY <3>1 DEF g
    <3> QED
      BY <1>7, <3>1, <3>2
  <2> QED
    BY <2>1, <1>3, <1>9, <1>10
<1> QED
  BY <1>1, <1>2, <1>11

--------------------------------------------------------------------------------
(* The orders and the nodes of a book.                                     *)
RestingOrders == [id : OrderIds, price : Prices, quantity : Nat \ {0}, sequence : Nat]
OrderNodes == [order : RestingOrders, prev : Nat \cup {Null}, next : Nat \cup {Null}]

(* A node of the pool is what was put there.                               *)
LEMMA NodesOfPool ==
    ASSUME NEW pl, NEW used, PoolOf(OrderNodes, pl, used)
    PROVE  /\ pl.total_capacity \in Nat
           /\ pl.block \in [0 .. pl.total_capacity - 1 -> Contents(OrderNodes)]
           /\ used \subseteq 0 .. pl.total_capacity - 1 /\ DOMAIN pl.block = 0 .. pl.total_capacity - 1
           /\ Null \notin DOMAIN pl.block /\ Null \notin used
<1>1. pl.total_capacity \in Nat /\ pl \in Pools(OrderNodes, pl.total_capacity)
  BY DEF PoolOf
<1> QED
  BY <1>1, PoolRecord, PoolOfFacts, NullAssumption

(* The blocks of S hold orders; they hold orders older than number n.      *)
Hold(block, S) == \A b \in S : block[b] \in OrderNodes
Older(block, S, n) == \A b \in S : Age(block, b) < n

(* What push_back and erase do to the blocks and to a level of the nodes S. *)
Pushed(pl, used, S, order, r) ==
    /\ r.node \in Nat /\ r.node \notin used
    /\ PoolOf(OrderNodes, r.pool, used \cup {r.node})
    /\ \A b \in used \cup {r.node} : r.pool.block[b] \in OrderNodes
    /\ LevelOf(r.pool.block, r.level, S \cup {r.node})
    /\ r.level.head # Null
    /\ r.pool.block[r.node].order = order
    /\ \A b \in used : r.pool.block[b].order = pl.block[b].order
    /\ \A b \in used \ S : r.pool.block[b] = pl.block[b]

Erased(pl, used, S, node, r) ==
    /\ PoolOf(OrderNodes, r.pool, used \ {node})
    /\ \A b \in used \ {node} : r.pool.block[b] \in OrderNodes
    /\ LevelOf(r.pool.block, r.level, S \ {node})
    /\ \A b \in used \ {node} : r.pool.block[b].order = pl.block[b].order
    /\ \A b \in used \ S : r.pool.block[b] = pl.block[b]

(* push_back: the order gets a node of its own, at the tail of its level.  *)
LEMMA PushBack ==
    ASSUME NEW pl, NEW used, PoolOf(OrderNodes, pl, used),
           Hold(pl.block, used),
           NEW level, NEW S, S \subseteq used, LevelOf(pl.block, level, S),
           NEW order \in RestingOrders, Older(pl.block, S, order.sequence),
           NEW r, r = push_back(pl, level, order)
    PROVE  Pushed(pl, used, S, order, r)
<1> USE DEF Hold, Older, Pushed
<1>1. PICK node, x, built :
         /\ node = NextBlock(pl) /\ x = [order |-> order, prev |-> level.tail, next |-> Null]
         /\ built = WrittenTo(allocate(pl), node, x)
  OBVIOUS
<1>2. /\ level \in [head : S \cup {Null}, tail : S \cup {Null}]
      /\ level.head = Null <=> S = {}
      /\ level.tail = Null <=> S = {}
      /\ Null \notin S /\ Null \notin used /\ level.tail \in Nat \cup {Null}
  BY PoolOfFacts DEF LevelOf
<1>3. x \in OrderNodes /\ x.order = order /\ x.prev = level.tail /\ x.next = Null
  BY <1>1, <1>2 DEF OrderNodes
<1>4. /\ node \in Nat /\ node \notin used /\ PoolOf(OrderNodes, built, used \cup {node})
      /\ built.block[node] = x /\ \A c \in used : built.block[c] = pl.block[c]
  <2>1. x \in OrderNodes /\ node = NextBlock(pl) /\ built = WrittenTo(allocate(pl), node, x)
    BY <1>1, <1>3
  <2> QED
    BY <2>1, AllocatedPool
<1>5. node # Null
  BY <1>4, NullAssumption
<1>6. level.tail # Null => \A b \in S : b = level.tail <=> pl.block[b].next = Null
  BY DEF LevelOf
<1> DEFINE Joined(block2, level2) ==
               /\ block2[node] = x
               /\ \A b \in used : b # level.tail => block2[b] = pl.block[b]
               /\ level.tail # Null => block2[level.tail] = [pl.block[level.tail] EXCEPT !.next = node]
               /\ level2 = [head |-> IF level.tail = Null THEN node ELSE level.head, tail |-> node]
           Result(block2, level2) ==
               /\ LevelOf(block2, level2, S \cup {node})
               /\ \A b \in used \cup {node} : block2[b] \in OrderNodes
               /\ level2.head # Null
               /\ block2[node].order = order
               /\ \A b \in used : block2[b].order = pl.block[b].order
               /\ \A b \in used \ S : block2[b] = pl.block[b]
<1>7. ASSUME NEW block2, NEW level2, Joined(block2, level2)
      PROVE  Result(block2, level2)
  <2>1. level.tail # Null =>
           /\ pl.block[level.tail] \in OrderNodes
           /\ block2[level.tail] \in OrderNodes
           /\ block2[level.tail].order = pl.block[level.tail].order
           /\ block2[level.tail].prev = pl.block[level.tail].prev
           /\ block2[level.tail].next = node
    BY <1>2, <1>4, <1>7 DEF OrderNodes
  <2>2. \A b \in S : /\ Age(block2, b) = Age(pl.block, b) /\ Age(pl.block, b) < Age(block2, node)
                     /\ block2[b].prev = pl.block[b].prev
                     /\ block2[b].next = IF b = level.tail THEN node ELSE pl.block[b].next
    BY <2>1, <1>2, <1>3, <1>7 DEF Age
  <2>3. Age(block2, node) \in Nat /\ block2[node].prev = level.tail /\ block2[node].next = Null
    BY <1>3, <1>7 DEF Age, RestingOrders
  <2>4. LevelOf(block2, level2, S \cup {node})
    BY <2>2, <2>3, <1>2, <1>4, <1>5, <1>7, LevelAppend
  <2>5. level2.head # Null
    BY <1>2, <1>5, <1>7
  <2>6. \A b \in used : block2[b] \in OrderNodes /\ block2[b].order = pl.block[b].order
    <3> SUFFICES ASSUME NEW b \in used PROVE block2[b] \in OrderNodes /\ block2[b].order = pl.block[b].order
      OBVIOUS
    <3>1. CASE b = level.tail
      BY <3>1, <2>1, <1>2
    <3>2. CASE b # level.tail
      <4>1. block2[b] = pl.block[b]
        BY <3>2, <1>7
      <4> QED
        BY <4>1
    <3> QED
      BY <3>1, <3>2
  <2>7. block2[node] \in OrderNodes /\ block2[node].order = order
    BY <1>3, <1>7
  <2>8. \A b \in used \ S : block2[b] = pl.block[b]
    BY <1>2, <1>7
  <2> QED
    BY <2>4, <2>5, <2>6, <2>7, <2>8
<1>8. CASE level.tail # Null
  <2>1. PICK blocks : blocks = [built.block EXCEPT ![level.tail] = [pl.block[level.tail] EXCEPT !.next = node]]
    OBVIOUS
  <2>2. PICK pool2 : pool2 = Rewritten(built, blocks)
    OBVIOUS
  <2>3. level.tail \in S /\ level.tail \in used /\ level.tail # node /\ level.head # Null
        /\ built.block[level.tail] = pl.block[level.tail]
    BY <1>2, <1>4, <1>8
  <2>4. [built EXCEPT !.block[level.tail].next = node] = pool2
    BY <2>1, <2>2, <2>3 DEF Rewritten
  <2>5. r = [node |-> node, pool |-> pool2, level |-> [level EXCEPT !.tail = node]]
    BY <2>4, <1>1, <1>8 DEF push_back, WrittenTo
  <2>6. /\ built.block \in [0 .. built.total_capacity - 1 -> Contents(OrderNodes)]
        /\ used \cup {node} \subseteq 0 .. built.total_capacity - 1
    BY <1>4, NodesOfPool
  <2>7. [pl.block[level.tail] EXCEPT !.next = node] \in OrderNodes
    BY <2>3, <1>4 DEF OrderNodes
  <2>8. /\ blocks \in [0 .. built.total_capacity - 1 -> Contents(OrderNodes)]
        /\ blocks[level.tail] = [pl.block[level.tail] EXCEPT !.next = node]
        /\ \A c \in 0 .. built.total_capacity - 1 : c # level.tail => blocks[c] = built.block[c]
    BY <2>1, <2>3, <2>6, <2>7 DEF Contents
  <2>9. PoolOf(OrderNodes, pool2, used \cup {node}) /\ pool2.block = blocks
    <3>1. OwnBlocks(OrderNodes, built, used \cup {node}, blocks)
      BY <2>3, <2>8 DEF OwnBlocks
    <3> QED
      BY <3>1, <2>2, <1>4, RewrittenPool
  <2>10. /\ blocks[node] = x
         /\ \A b \in used : b # level.tail => blocks[b] = pl.block[b]
    BY <2>3, <2>6, <2>8, <1>4
  <2>11. [level EXCEPT !.tail = node] = [head |-> IF level.tail = Null THEN node ELSE level.head, tail |-> node]
    BY <1>2, <1>8
  <2>12. r.node = node /\ r.pool = pool2 /\ r.level = [level EXCEPT !.tail = node]
    BY <2>5
  <2>13. Joined(blocks, r.level)
    BY <2>8, <2>10, <2>11, <2>12
  <2> HIDE DEF Joined, Result
  <2>14. Result(blocks, r.level)
    BY <2>13, <1>7
  <2> QED
    BY <2>9, <2>12, <2>14, <1>4 DEF Result
<1>9. CASE level.tail = Null
  <2>1. r = [node |-> node, pool |-> built, level |-> [head |-> node, tail |-> node]]
    BY <1>1, <1>9 DEF push_back, WrittenTo
  <2>2. r.node = node /\ r.pool = built /\ r.level = [head |-> node, tail |-> node]
    BY <2>1
  <2>3. Joined(built.block, r.level)
    BY <2>2, <1>4, <1>9
  <2> HIDE DEF Joined, Result
  <2>4. Result(built.block, r.level)
    BY <2>3, <1>7
  <2> QED
    BY <2>2, <2>4, <1>4 DEF Result
<1> QED
  BY <1>8, <1>9

(* erase: the node goes back to the pool, and its neighbours are linked.   *)
LEMMA EraseNode ==
    ASSUME NEW pl, NEW used, PoolOf(OrderNodes, pl, used),
           Hold(pl.block, used),
           NEW level, NEW S, S \subseteq used, LevelOf(pl.block, level, S), NEW node \in S,
           NEW r, r = erase(pl, level, node)
    PROVE  Erased(pl, used, S, node, r)
<1> USE DEF Hold, Erased
<1>1. PICK before, after, blocks, bridged, q :
         /\ before = pl.block[node].prev /\ after = pl.block[node].next
         /\ blocks = [b \in DOMAIN pl.block |->
                        CASE b = before -> [pl.block[b] EXCEPT !.next = after]
                          [] b = after  -> [pl.block[b] EXCEPT !.prev = before]
                          [] OTHER      -> pl.block[b]]
         /\ bridged = Rewritten(pl, blocks) /\ q = deallocate(bridged, node)
  OBVIOUS
<1>2. /\ r.pool = q
      /\ r.level = [head |-> IF before = Null THEN after ELSE level.head,
                    tail |-> IF after = Null THEN before ELSE level.tail]
  BY <1>1 DEF erase, Rewritten
<1>3. /\ before \in S \cup {Null} /\ after \in S \cup {Null} /\ Null \notin used /\ S \subseteq used
      /\ before \in S => before # node /\ before # after
      /\ after \in S => after # node
  <2>1. \A b, c \in S : /\ pl.block[b].next = c <=> Follows(pl.block, S, b, c)
                        /\ pl.block[c].prev = b <=> Follows(pl.block, S, b, c)
                        /\ Age(pl.block, b) \in Nat
    BY DEF LevelOf
  <2>2. before \in S \cup {Null} /\ after \in S \cup {Null}
    BY <1>1 DEF LevelOf
  <2>3. before \in S => Follows(pl.block, S, before, node)
    BY <1>1, <2>1
  <2>4. after \in S => Follows(pl.block, S, node, after)
    BY <1>1, <2>1
  <2> QED
    BY <2>1, <2>2, <2>3, <2>4, NodesOfPool DEF Follows
<1>4. /\ pl.block \in [0 .. pl.total_capacity - 1 -> Contents(OrderNodes)]
      /\ used \subseteq 0 .. pl.total_capacity - 1 /\ used \subseteq Nat
      /\ DOMAIN pl.block = 0 .. pl.total_capacity - 1
  BY NodesOfPool, PoolOfFacts
<1>5. ASSUME NEW b \in used
      PROVE  /\ b = before => blocks[b] = [pl.block[b] EXCEPT !.next = after]
             /\ b # before /\ b = after => blocks[b] = [pl.block[b] EXCEPT !.prev = before]
             /\ b # before /\ b # after => blocks[b] = pl.block[b]
  <2>1. b \in DOMAIN pl.block
    BY <1>4
  <2>2. blocks[b] = CASE b = before -> [pl.block[b] EXCEPT !.next = after]
                      [] b = after  -> [pl.block[b] EXCEPT !.prev = before]
                      [] OTHER      -> pl.block[b]
    BY <2>1, <1>1
  <2>3. b = before => b # after
    BY <1>3
  <2> QED
    BY <2>2, <2>3
<1>6. ASSUME NEW b \in 0 .. pl.total_capacity - 1, b \notin used PROVE blocks[b] = pl.block[b]
  <2>1. b \in DOMAIN pl.block /\ b # before /\ b # after
    BY <1>3, <1>4, <1>6, NodesOfPool
  <2>2. blocks[b] = CASE b = before -> [pl.block[b] EXCEPT !.next = after]
                      [] b = after  -> [pl.block[b] EXCEPT !.prev = before]
                      [] OTHER      -> pl.block[b]
    BY <2>1, <1>1
  <2> QED
    BY <2>1, <2>2
<1>7. ASSUME NEW b \in used
      PROVE  /\ blocks[b] \in OrderNodes /\ blocks[b].order = pl.block[b].order
             /\ before # after \/ before = Null =>
                   /\ blocks[b].prev = IF b = after THEN before ELSE pl.block[b].prev
                   /\ blocks[b].next = IF b = before THEN after ELSE pl.block[b].next
  <2>1. pl.block[b] \in OrderNodes /\ before \in Nat \cup {Null} /\ after \in Nat \cup {Null}
    BY <1>3, <1>4
  <2>2. CASE b = before
    <3>1. blocks[b] = [pl.block[b] EXCEPT !.next = after]
      BY <2>2, <1>5
    <3>2. /\ blocks[b] \in OrderNodes /\ blocks[b].order = pl.block[b].order
          /\ blocks[b].prev = pl.block[b].prev /\ blocks[b].next = after
      BY <2>1, <3>1 DEF OrderNodes
    <3>3. before # Null
      BY <2>2, <1>3
    <3> QED
      BY <2>2, <3>2, <3>3
  <2>3. CASE b # before /\ b = after
    <3>1. blocks[b] = [pl.block[b] EXCEPT !.prev = before]
      BY <2>3, <1>5
    <3>2. /\ blocks[b] \in OrderNodes /\ blocks[b].order = pl.block[b].order
          /\ blocks[b].prev = before /\ blocks[b].next = pl.block[b].next
      BY <2>1, <3>1 DEF OrderNodes
    <3> QED
      BY <2>3, <3>2
  <2>4. CASE b # before /\ b # after
    BY <2>1, <2>4, <1>5
  <2> QED
    BY <2>2, <2>3, <2>4
<1>8. OwnBlocks(OrderNodes, pl, used, blocks)
  <2>1. \A b \in 0 .. pl.total_capacity - 1 : blocks[b] \in Contents(OrderNodes)
    BY <1>4, <1>6, <1>7 DEF Contents
  <2>2. blocks = [b \in 0 .. pl.total_capacity - 1 |-> blocks[b]]
    BY <1>1, <1>4
  <2> QED
    BY <2>1, <2>2, <1>6 DEF OwnBlocks
<1>9. PoolOf(OrderNodes, bridged, used) /\ bridged.block = blocks
  <2>1. bridged = Rewritten(pl, blocks)
    BY <1>1
  <2> QED
    BY <2>1, <1>8, RewrittenPool
<1>10. PoolOf(OrderNodes, q, used \ {node}) /\ \A c \in used \ {node} : q.block[c] = blocks[c]
  <2>1. node \in used /\ q = deallocate(bridged, node)
    BY <1>1
  <2>2. PoolOf(OrderNodes, q, used \ {node}) /\ \A c \in used \ {node} : q.block[c] = bridged.block[c]
    BY <2>1, <1>9, DeallocatedPool
  <2> QED
    BY <2>2, <1>9
<1>11. before # after \/ before = Null
  BY <1>3
<1>12. LevelOf(q.block, r.level, S \ {node})
  <2>1. Bypassed(pl.block, q.block, S \ {node}, before, after)
    BY <1>3, <1>7, <1>10, <1>11 DEF Age, Bypassed
  <2>2. before = pl.block[node].prev /\ after = pl.block[node].next /\ Null \notin S
    BY <1>1, <1>3
  <2>3. LevelOf(q.block, [head |-> IF before = Null THEN after ELSE level.head,
                          tail |-> IF after = Null THEN before ELSE level.tail], S \ {node})
    BY <2>1, <2>2, LevelErase
  <2> QED
    BY <2>3, <1>2
<1>13. \A b \in used \ {node} : q.block[b] \in OrderNodes /\ q.block[b].order = pl.block[b].order
  BY <1>7, <1>10
<1>14. \A b \in used \ S : q.block[b] = pl.block[b]
  BY <1>3, <1>5, <1>10
<1> QED
  BY <1>2, <1>10, <1>12, <1>13, <1>14

(* pop_front is erase of the head, which has nothing before it.            *)
LEMMA PopFrontErases ==
    ASSUME NEW pl, NEW used, PoolOf(OrderNodes, pl, used),
           NEW level, NEW S, S \subseteq used, LevelOf(pl.block, level, S), level.head # Null
    PROVE  pop_front(pl, level) = erase(pl, level, level.head)
<1>1. PICK head, after, blocks :
         /\ head = level.head /\ after = pl.block[head].next
         /\ blocks = [b \in DOMAIN pl.block |->
                        CASE b = Null  -> [pl.block[b] EXCEPT !.next = after]
                          [] b = after -> [pl.block[b] EXCEPT !.prev = Null]
                          [] OTHER     -> pl.block[b]]
  OBVIOUS
<1>2. level \in [head : S \cup {Null}, tail : S \cup {Null}]
  BY DEF LevelOf
<1>3. head \in S /\ pl.block[head].prev = Null /\ after \in S \cup {Null} /\ (after = Null <=> head = level.tail)
  BY <1>1, <1>2 DEF LevelOf
<1>4. erase(pl, level, head) =
          [pool |-> deallocate(Rewritten(pl, blocks), head),
           level |-> [head |-> after, tail |-> IF after = Null THEN Null ELSE level.tail]]
  BY <1>1, <1>3 DEF erase, Rewritten
<1>5. /\ pl.block \in [0 .. pl.total_capacity - 1 -> Contents(OrderNodes)]
      /\ DOMAIN pl.block = 0 .. pl.total_capacity - 1 /\ Null \notin DOMAIN pl.block
      /\ S \subseteq DOMAIN pl.block /\ Null \notin S
  BY NodesOfPool
<1>6. CASE after = Null
  <2>1. blocks = pl.block
    BY <1>1, <1>5, <1>6
  <2>2. PICK n \in Nat : pl \in Pools(OrderNodes, n)
    BY DEF PoolOf
  <2>3. pl = [block |-> pl.block, chunks |-> pl.chunks, free_list |-> pl.free_list, chunk_size |-> pl.chunk_size,
              total_capacity |-> n, in_use |-> pl.in_use, growth_events |-> pl.growth_events]
    BY <2>2, PoolRecord
  <2>4. [pl EXCEPT !.block = pl.block] = pl
    BY <2>3
  <2>5. Rewritten(pl, blocks) = pl
    BY <2>1, <2>4 DEF Rewritten
  <2>6. pop_front(pl, level) = [pool |-> deallocate(pl, head), level |-> [head |-> Null, tail |-> Null]]
    BY <1>1, <1>6 DEF pop_front, EmptyLevel
  <2> QED
    BY <2>5, <2>6, <1>1, <1>4, <1>6
<1>7. CASE after # Null
  <2>1. blocks = [pl.block EXCEPT ![after] = [pl.block[after] EXCEPT !.prev = Null]]
    BY <1>1, <1>3, <1>5, <1>7
  <2>2. [pl EXCEPT !.block[after].prev = Null] = Rewritten(pl, blocks)
    BY <2>1 DEF Rewritten
  <2>3. pop_front(pl, level) = [pool |-> deallocate(Rewritten(pl, blocks), head), level |-> [level EXCEPT !.head = after]]
    BY <2>2, <1>1, <1>7 DEF pop_front
  <2>4. [level EXCEPT !.head = after] = [head |-> after, tail |-> level.tail]
    BY <1>2
  <2> QED
    BY <2>3, <2>4, <1>1, <1>4, <1>7
<1> QED
  BY <1>6, <1>7

LEMMA WrittenNode ==
    ASSUME NEW pl, NEW used, PoolOf(OrderNodes, pl, used), NEW node \in used, NEW y \in OrderNodes
    PROVE  /\ PoolOf(OrderNodes, WrittenTo(pl, node, y), used)
           /\ WrittenTo(pl, node, y).block[node] = y
           /\ \A c \in used : c # node => WrittenTo(pl, node, y).block[c] = pl.block[c]
BY WrittenPool

(* An order is filled in part: nothing else changes.                       *)
FilledBy(pl, node, x) == [pl EXCEPT !.block[node].order.quantity = @ - x]

LEMMA PartFilled ==
    ASSUME NEW pl, NEW used, PoolOf(OrderNodes, pl, used),
           Hold(pl.block, used),
           NEW node \in used, NEW x \in Nat, x < pl.block[node].order.quantity,
           NEW q, q = FilledBy(pl, node, x)
    PROVE  /\ PoolOf(OrderNodes, q, used)
           /\ \A b \in used : q.block[b] \in OrderNodes
           /\ \A b \in used : b # node => q.block[b] = pl.block[b]
           /\ q.block[node].prev = pl.block[node].prev /\ q.block[node].next = pl.block[node].next
           /\ q.block[node].order.id = pl.block[node].order.id
           /\ q.block[node].order.price = pl.block[node].order.price
           /\ q.block[node].order.sequence = pl.block[node].order.sequence
           /\ q.block[node].order.quantity = pl.block[node].order.quantity - x
<1>1. PICK o, y : o = pl.block[node].order
               /\ y = [order |-> [id |-> o.id, price |-> o.price, quantity |-> o.quantity - x, sequence |-> o.sequence],
                       prev |-> pl.block[node].prev, next |-> pl.block[node].next]
  OBVIOUS
<1>0. \A b \in used : pl.block[b] \in OrderNodes
  BY DEF Hold
<1>2. pl.block[node] \in OrderNodes /\ o \in RestingOrders
      /\ pl.block[node] = [order |-> o, prev |-> pl.block[node].prev, next |-> pl.block[node].next]
      /\ o = [id |-> o.id, price |-> o.price, quantity |-> o.quantity, sequence |-> o.sequence]
  BY <1>0, <1>1 DEF OrderNodes, RestingOrders
<1>3. o.quantity \in Nat \ {0} /\ o.quantity - x \in Nat \ {0}
  BY <1>1, <1>2 DEF RestingOrders
<1>4. y \in OrderNodes
  BY <1>1, <1>2, <1>3 DEF OrderNodes, RestingOrders
<1>5. [pl.block[node] EXCEPT !.order.quantity = @ - x] = y
  BY <1>1, <1>2
<1>6. q = [pl EXCEPT !.block[node] = [pl.block[node] EXCEPT !.order.quantity = @ - x]]
  BY DEF FilledBy
<1>7. q = WrittenTo(pl, node, y)
  BY <1>5, <1>6 DEF WrittenTo
<1>8. /\ PoolOf(OrderNodes, q, used) /\ q.block[node] = y
      /\ \A c \in used : c # node => q.block[c] = pl.block[c]
  BY <1>4, <1>7, WrittenNode
<1> QED
  BY <1>0, <1>1, <1>4, <1>8

--------------------------------------------------------------------------------
(* A finite set of numbers has a greatest and a least one.                 *)
LEMMA FiniteExtremes ==
    ASSUME NEW T, IsFiniteSet(T), T \subseteq Int, T # {}
    PROVE  /\ Max(T) \in T /\ \A t \in T : t <= Max(T)
           /\ Min(T) \in T /\ \A t \in T : Min(T) <= t
<1> DEFINE Bounded(X) == /\ \E x \in X : \A y \in X : y <= x
                         /\ \E x \in X : \A y \in X : x <= y
           Sized(n) == \E X \in SUBSET T : X # {} /\ Cardinality(X) = n /\ ~Bounded(X)
           sizes == {n \in Nat : Sized(n)}
<1>1. sizes = {}
  <2> SUFFICES ASSUME sizes # {} PROVE FALSE
    OBVIOUS
  <2>1. PICK n \in sizes : \A m \in sizes : n <= m
    <3>1. sizes \subseteq Nat
      OBVIOUS
    <3> HIDE DEF sizes
    <3> QED
      BY <3>1, LeastNatural
  <2>2. n \in Nat
    OBVIOUS
  <2>3. PICK X \in SUBSET T : X # {} /\ Cardinality(X) = n /\ ~Bounded(X)
    BY <2>1
  <2>4. PICK x \in X : TRUE
    BY <2>3
  <2>5. PICK Y : Y = X \ {x}
    OBVIOUS
  <2>6. IsFiniteSet(X) /\ IsFiniteSet(Y) /\ Cardinality(Y) = n - 1 /\ Cardinality(Y) \in Nat
    <3>1. IsFiniteSet(X)
      BY FS_Subset
    <3>2. IsFiniteSet(X \ {x}) /\ Cardinality(X \ {x}) = Cardinality(X) - 1
      BY <3>1, FS_RemoveElement
    <3> QED
      BY <3>1, <3>2, <2>3, <2>5, FS_CardinalityType
  <2>7. Y # {}
    <3> SUFFICES ASSUME Y = {} PROVE FALSE
      OBVIOUS
    <3>1. X = {x} /\ x \in Int
      BY <2>5
    <3> QED
      BY <3>1, <2>3
  <2>8. Bounded(Y)
    <3> SUFFICES ASSUME ~Bounded(Y) PROVE FALSE
      OBVIOUS
    <3>1. Y \in SUBSET T
      BY <2>5
    <3> HIDE DEF Bounded
    <3>2. n - 1 \in Nat /\ Sized(n - 1)
      BY <3>1, <2>6, <2>7
    <3>3. n - 1 \in sizes
      BY <3>2
    <3> QED
      BY <3>3, <2>1, <2>2
  <2>9. PICK lo \in Y, hi \in Y : \A y \in Y : lo <= y /\ y <= hi
    BY <2>8
  <2>10. Bounded(X)
    <3>1. X \subseteq Int /\ \A y \in X : y = x \/ y \in Y
      BY <2>5
    <3>2. \E z \in X : \A y \in X : y <= z
      <4>1. CASE hi <= x
        BY <4>1, <3>1, <2>5, <2>9
      <4>2. CASE ~(hi <= x)
        BY <4>2, <3>1, <2>5, <2>9
      <4> QED
        BY <4>1, <4>2
    <3>3. \E z \in X : \A y \in X : z <= y
      <4>1. CASE x <= lo
        BY <4>1, <3>1, <2>5, <2>9
      <4>2. CASE ~(x <= lo)
        BY <4>2, <3>1, <2>5, <2>9
      <4> QED
        BY <4>1, <4>2
    <3> QED
      BY <3>2, <3>3
  <2> QED
    BY <2>3, <2>10
<1>2. Bounded(T)
  <2> SUFFICES ASSUME ~Bounded(T) PROVE FALSE
    OBVIOUS
  <2> HIDE DEF Bounded
  <2>1. Cardinality(T) \in sizes
    BY FS_CardinalityType
  <2> QED
    BY <2>1, <1>1
<1>3. (\E x \in T : \A y \in T : x >= y) /\ (\E x \in T : \A y \in T : x =< y)
  BY <1>2
<1>4. Max(T) \in T /\ \A y \in T : Max(T) >= y
  BY <1>3 DEF Max
<1>5. Min(T) \in T /\ \A y \in T : Min(T) =< y
  BY <1>3 DEF Min
<1> QED
  BY <1>4, <1>5

--------------------------------------------------------------------------------
(* The orders of S at price p, and what a side of the book is: a level for *)
(* the orders of each price, and orders only at prices that have a level.  *)
At(block, S, p) == {b \in S : block[b].order.price = p}

SideOf(block, map, S) ==
    /\ IsFiniteSet(DOMAIN map) /\ DOMAIN map \subseteq Prices
    /\ \A b \in S : block[b].order.price \in DOMAIN map
    /\ \A p \in DOMAIN map : LevelOf(block, map[p], At(block, S, p))

(* The nodes of S are of the same age and price, and linked the same way.  *)
Alike(block, block2, S) ==
    \A b \in S :
       /\ block2[b].order.price = block[b].order.price /\ Age(block2, b) = Age(block, b)
       /\ block2[b].prev = block[b].prev /\ block2[b].next = block[b].next

LEMMA SideFrame ==
    ASSUME NEW block, NEW map, NEW S, SideOf(block, map, S), NEW block2, Alike(block, block2, S)
    PROVE  SideOf(block2, map, S)
<1>1. \A p : At(block2, S, p) = At(block, S, p)
  BY DEF At, Alike
<1>2. ASSUME NEW p \in DOMAIN map PROVE LevelOf(block2, map[p], At(block2, S, p))
  <2>1. PICK U : U = At(block, S, p)
    OBVIOUS
  <2>2. LevelOf(block, map[p], U) /\ U \subseteq S
    BY <2>1 DEF SideOf, At
  <2>3. \A b \in U : /\ Age(block2, b) = Age(block, b)
                     /\ block2[b].prev = block[b].prev /\ block2[b].next = block[b].next
    BY <2>2 DEF Alike
  <2> QED
    BY <2>1, <2>2, <2>3, <1>1, LevelFrame
<1> QED
  BY <1>2 DEF SideOf, Alike

(* The level of price p is replaced by a level of the orders of T.         *)
LEMMA SideReplaced ==
    ASSUME NEW block, NEW map, NEW S, SideOf(block, map, S), NEW p \in Prices,
           NEW block2, \A b \in S \ At(block, S, p) : block2[b] = block[b],
           NEW T, \A b \in T : block2[b].order.price = p,
           NEW level, LevelOf(block2, level, T),
           NEW map2, map2 = With(map, p, level) \/ (T = {} /\ map2 = Without(map, p)),
           NEW S2, S2 = (S \ At(block, S, p)) \cup T
    PROVE  SideOf(block2, map2, S2)
<1>1. /\ map2 = With(map, p, level) => /\ DOMAIN map2 = DOMAIN map \cup {p} /\ map2[p] = level
                                       /\ \A k \in DOMAIN map : k # p => map2[k] = map[k]
      /\ map2 = Without(map, p) => /\ DOMAIN map2 = DOMAIN map \ {p}
                                   /\ \A k \in DOMAIN map : k # p => map2[k] = map[k]
  BY DEF With, Without, Restrict
<1>2. /\ IsFiniteSet(DOMAIN map) /\ DOMAIN map \subseteq Prices
      /\ \A b \in S : block[b].order.price \in DOMAIN map
      /\ \A k \in DOMAIN map : LevelOf(block, map[k], At(block, S, k))
  BY DEF SideOf
<1>3. IsFiniteSet(DOMAIN map2)
  BY <1>1, <1>2, FS_AddElement, FS_RemoveElement
<1>4. DOMAIN map2 \subseteq Prices
  BY <1>1, <1>2
<1>5. \A b \in S2 : block2[b].order.price \in DOMAIN map2
  BY <1>1, <1>2 DEF At
<1>6. At(block2, S2, p) = T
  BY DEF At
<1>7. ASSUME NEW k \in DOMAIN map, k # p PROVE LevelOf(block2, map[k], At(block2, S2, k))
  <2>1. PICK U : U = At(block, S, k)
    OBVIOUS
  <2>2. At(block2, S2, k) = U
    BY <1>7, <2>1 DEF At
  <2>3. U \subseteq S \ At(block, S, p)
    BY <1>7, <2>1 DEF At
  <2>4. \A b \in U : /\ Age(block2, b) = Age(block, b)
                     /\ block2[b].prev = block[b].prev /\ block2[b].next = block[b].next
    BY <2>3 DEF Age
  <2>5. LevelOf(block, map[k], U)
    BY <1>2, <2>1
  <2> QED
    BY <2>2, <2>4, <2>5, LevelFrame
<1>8. \A k \in DOMAIN map2 : LevelOf(block2, map2[k], At(block2, S2, k))
  BY <1>1, <1>6, <1>7
<1> QED
  BY <1>3, <1>4, <1>5, <1>8 DEF SideOf

--------------------------------------------------------------------------------
(* The book as it stands: own[side] are the nodes of a side, every order   *)
(* has a node, no node has two, and no order is from the future.           *)
Used(own) == own["Buy"] \cup own["Sell"]

(* Blocks that stay as they are, and the orders of one price.              *)
Same(block, block2, S) == \A b \in S : block2[b] = block[b]
PricedAt(block, S, p) == \A b \in S : block[b].order.price = p

NodesOf(pl, next, S) == \A b \in S : pl.block[b] \in OrderNodes /\ pl.block[b].order.sequence < next

Kept(lv, pl, next, own) ==
    /\ DOMAIN lv = Sides /\ next \in Nat
    /\ own \in [Sides -> SUBSET Nat] /\ own["Buy"] \cap own["Sell"] = {}
    /\ PoolOf(OrderNodes, pl, Used(own))
    /\ NodesOf(pl, next, Used(own))
    /\ \A side \in Sides : SideOf(pl.block, lv[side], own[side])

(* The orders of side at price p give way to those of T.                    *)
Replacement(pl, next, own, side, p, pl2, next2, T, S2) ==
    LET U == At(pl.block, own[side], p)
    IN /\ S2 = (own[side] \ U) \cup T
       /\ T \subseteq Nat /\ T \cap (Used(own) \ U) = {}
       /\ next2 \in Nat /\ next <= next2
       /\ PoolOf(OrderNodes, pl2, (Used(own) \ U) \cup T) /\ NodesOf(pl2, next2, T)
       /\ PricedAt(pl2.block, T, p) /\ Same(pl.block, pl2.block, Used(own) \ U)

Remapped(map, p, level, T, map2) == map2 = With(map, p, level) \/ (T = {} /\ map2 = Without(map, p))

Put(f, side, x) == [f EXCEPT ![side] = x]

LEMMA KeptReplaced ==
    ASSUME NEW lv, NEW pl, NEW next, NEW own, Kept(lv, pl, next, own),
           NEW side \in Sides, NEW p \in Prices,
           NEW pl2, NEW next2, NEW T, NEW S2,
           Replacement(pl, next, own, side, p, pl2, next2, T, S2),
           NEW level, LevelOf(pl2.block, level, T), NEW map2, Remapped(lv[side], p, level, T, map2)
    PROVE  Kept(Put(lv, side, map2), pl2, next2, Put(own, side, S2))
<1>0. PICK U, own2, lv2 : U = At(pl.block, own[side], p) /\ own2 = Put(own, side, S2) /\ lv2 = Put(lv, side, map2)
  OBVIOUS
<1>1. /\ S2 = (own[side] \ U) \cup T
      /\ T \subseteq Nat /\ T \cap (Used(own) \ U) = {}
      /\ next2 \in Nat /\ next <= next2
      /\ PoolOf(OrderNodes, pl2, (Used(own) \ U) \cup T) /\ NodesOf(pl2, next2, T)
      /\ PricedAt(pl2.block, T, p) /\ Same(pl.block, pl2.block, Used(own) \ U)
      /\ map2 = With(lv[side], p, level) \/ (T = {} /\ map2 = Without(lv[side], p))
  BY <1>0 DEF Replacement, Remapped
<1>2. PICK S, O, other : S = own[side] /\ other = Opposite(side) /\ O = own[other]
  OBVIOUS
<1>3. /\ other \in Sides /\ other # side /\ \A t \in Sides : t = side \/ t = other
      /\ Used(own) = S \cup O
  BY <1>2 DEF Sides, Opposite, Used
<1>4. /\ S \subseteq Nat /\ O \subseteq Nat /\ S \cap O = {} /\ U \subseteq S
      /\ SideOf(pl.block, lv[side], S) /\ SideOf(pl.block, lv[other], O)
      /\ NodesOf(pl, next, S \cup O)
  BY <1>0, <1>2, <1>3 DEF Kept, Sides, Opposite, At
<1>5. /\ own2 \in [Sides -> SUBSET Nat] /\ own2[side] = (S \ U) \cup T /\ own2[other] = O
      /\ DOMAIN lv2 = Sides /\ lv2[side] = map2 /\ lv2[other] = lv[other]
  BY <1>0, <1>1, <1>2, <1>3, <1>4 DEF Kept, Put
<1>6. /\ Used(own2) = ((S \ U) \cup T) \cup O
      /\ own2["Buy"] \cap own2["Sell"] = ((S \ U) \cup T) \cap O
  BY <1>3, <1>5 DEF Used, Sides
<1>7. ((S \ U) \cup T) \cap O = {} /\ Used(own2) = (Used(own) \ U) \cup T
  BY <1>1, <1>3, <1>4, <1>6
<1>8. NodesOf(pl2, next2, Used(own2))
  <2> SUFFICES ASSUME NEW b \in Used(own2)
               PROVE  pl2.block[b] \in OrderNodes /\ pl2.block[b].order.sequence < next2
    BY DEF NodesOf
  <2>1. CASE b \in T
    BY <2>1, <1>1 DEF NodesOf
  <2>2. CASE b \notin T
    <3>1. b \in Used(own) \ U
      BY <2>2, <1>7
    <3>2. pl2.block[b] = pl.block[b] /\ pl.block[b] \in OrderNodes /\ pl.block[b].order.sequence < next
      BY <3>1, <1>1, <1>3, <1>4 DEF NodesOf, Same
    <3>3. pl.block[b].order.sequence \in Nat /\ next \in Nat
      BY <3>2 DEF OrderNodes, RestingOrders, Kept
    <3> QED
      BY <3>2, <3>3, <1>1
  <2> QED
    BY <2>1, <2>2
<1>9. SideOf(pl2.block, map2, (S \ U) \cup T)
  <2>1. \A b \in S \ At(pl.block, S, p) : pl2.block[b] = pl.block[b]
    BY <1>0, <1>1, <1>2, <1>3 DEF Same
  <2>2. (S \ U) \cup T = (S \ At(pl.block, S, p)) \cup T /\ \A b \in T : pl2.block[b].order.price = p
    BY <1>0, <1>1, <1>2 DEF PricedAt
  <2> QED
    BY <1>1, <1>4, <2>1, <2>2, SideReplaced
<1>10. SideOf(pl2.block, lv[other], O)
  <2>1. \A b \in O : pl2.block[b] = pl.block[b]
    BY <1>1, <1>3, <1>4 DEF Same
  <2>2. Alike(pl.block, pl2.block, O)
    BY <2>1 DEF Alike, Age
  <2> QED
    BY <1>4, <2>2, SideFrame
<1>11. \A t \in Sides : SideOf(pl2.block, lv2[t], own2[t])
  BY <1>3, <1>5, <1>9, <1>10
<1>12. PoolOf(OrderNodes, pl2, Used(own2))
  BY <1>1, <1>7
<1>13. own2["Buy"] \cap own2["Sell"] = {}
  BY <1>6, <1>7
<1> QED
  BY <1>0, <1>1, <1>5, <1>8, <1>11, <1>12, <1>13 DEF Kept

(* What the book knows of an order and of the level it is in.              *)
LEMMA KeptFacts ==
    ASSUME NEW lv, NEW pl, NEW next, NEW own, Kept(lv, pl, next, own), NEW side \in Sides
    PROVE  /\ next \in Nat /\ own[side] \subseteq Used(own) /\ Used(own) \subseteq Nat /\ Null \notin Used(own)
           /\ IsFiniteSet(DOMAIN lv[side]) /\ DOMAIN lv[side] \subseteq Prices /\ DOMAIN lv[side] \subseteq Int
           /\ own["Buy"] \cap own["Sell"] = {}
           /\ \A b \in own[side] :
                 /\ pl.block[b] \in OrderNodes /\ pl.block[b].order \in RestingOrders
                 /\ pl.block[b].order.sequence < next
                 /\ pl.block[b].order.price \in DOMAIN lv[side]
           /\ \A p \in DOMAIN lv[side] : LevelOf(pl.block, lv[side][p], At(pl.block, own[side], p))
<1>1. own[side] \subseteq Used(own) /\ Used(own) \subseteq Nat
  BY DEF Kept, Used, Sides
<1>2. \A b \in own[side] :
                 /\ pl.block[b] \in OrderNodes /\ pl.block[b].order \in RestingOrders
                 /\ pl.block[b].order.sequence < next
  BY <1>1 DEF Kept, NodesOf, OrderNodes
<1>3. SideOf(pl.block, lv[side], own[side])
  BY DEF Kept
<1> QED
  BY <1>1, <1>2, <1>3, NullAssumption, PricesAssumption DEF SideOf, Kept

(* The level of price p, which may have to be made.                        *)
LevelIn(map, p) == IF p \in DOMAIN map THEN map[p] ELSE EmptyLevel

(* The order is pushed at the back of its level, which may be new.         *)
LEMMA OrderJoins ==
    ASSUME NEW lv, NEW pl, NEW next, NEW own, Kept(lv, pl, next, own),
           NEW side \in Sides, NEW order \in RestingOrders, order.sequence = next,
           NEW p, p = order.price,
           NEW level, level = LevelIn(lv[side], p), NEW r, r = push_back(pl, level, order),
           NEW S2, S2 = own[side] \cup {r.node}
    PROVE  /\ Kept(Put(lv, side, With(lv[side], p, r.level)), r.pool, next + 1, Put(own, side, S2))
           /\ Pushed(pl, Used(own), At(pl.block, own[side], p), order, r)
<1>1. PICK U, T, used, next2 :
         U = At(pl.block, own[side], p) /\ T = U \cup {r.node} /\ used = Used(own) /\ next2 = next + 1
  OBVIOUS
<1>2. /\ next \in Nat /\ own[side] \subseteq used /\ used \subseteq Nat
      /\ \A b \in own[side] : pl.block[b].order \in RestingOrders /\ pl.block[b].order.sequence < next
                              /\ pl.block[b].order.price \in DOMAIN lv[side]
      /\ U \subseteq own[side] /\ \A b \in U : pl.block[b].order.price = p
      /\ p \in Prices
  BY <1>1, KeptFacts DEF At, RestingOrders
<1>3. LevelOf(pl.block, level, U)
  <2>1. CASE p \in DOMAIN lv[side]
    BY <1>1, <2>1, KeptFacts DEF LevelIn
  <2>2. CASE p \notin DOMAIN lv[side]
    <3>1. U = {} /\ level = [head |-> Null, tail |-> Null]
      BY <1>2, <2>2 DEF EmptyLevel, LevelIn
    <3> QED
      BY <3>1 DEF LevelOf
  <2> QED
    BY <2>1, <2>2
<1>4. /\ PoolOf(OrderNodes, pl, used) /\ Hold(pl.block, used)
      /\ U \subseteq used /\ Older(pl.block, U, order.sequence)
  BY <1>1, <1>2 DEF Kept, NodesOf, Age, Hold, Older
<1>5. Pushed(pl, used, U, order, r)
  BY <1>3, <1>4, PushBack
<1>6. /\ r.node \in Nat /\ r.node \notin used
      /\ PoolOf(OrderNodes, r.pool, used \cup {r.node})
      /\ \A b \in used \cup {r.node} : r.pool.block[b] \in OrderNodes
      /\ LevelOf(r.pool.block, r.level, T)
      /\ r.pool.block[r.node].order = order
      /\ \A b \in used : r.pool.block[b].order = pl.block[b].order
      /\ Same(pl.block, r.pool.block, used \ U)
  BY <1>1, <1>5 DEF Pushed, Same
<1>7. /\ T \subseteq Nat /\ T \cap (used \ U) = {} /\ used \cup {r.node} = (used \ U) \cup T
      /\ next2 \in Nat /\ next <= next2
  <2>1. T = U \cup {r.node} /\ U \subseteq used /\ used \subseteq Nat
    BY <1>1, <1>2
  <2>2. next2 \in Nat /\ next <= next2
    BY <1>1, <1>2
  <2>3. r.node \in Nat /\ r.node \notin used
    BY <1>6
  <2> QED
    BY <2>1, <2>2, <2>3
<1>8. NodesOf(r.pool, next2, T) /\ PricedAt(r.pool.block, T, p)
  <2> SUFFICES ASSUME NEW b \in T
               PROVE  /\ r.pool.block[b] \in OrderNodes /\ r.pool.block[b].order.sequence < next2
                      /\ r.pool.block[b].order.price = p
    BY DEF NodesOf, PricedAt
  <2>1. CASE b = r.node
    <3>1. r.pool.block[b] \in OrderNodes /\ r.pool.block[b].order = order
      BY <2>1, <1>6
    <3> QED
      BY <3>1, <1>1, <1>2
  <2>2. CASE b \in U
    <3>1. r.pool.block[b].order = pl.block[b].order /\ r.pool.block[b] \in OrderNodes
      BY <2>2, <1>4, <1>6
    <3>2. pl.block[b].order.sequence \in Nat /\ pl.block[b].order.sequence < next /\ pl.block[b].order.price = p
      BY <2>2, <1>2 DEF RestingOrders
    <3> QED
      BY <3>1, <3>2, <1>1, <1>2
  <2> QED
    BY <2>1, <2>2, <1>1
<1>11. S2 = (own[side] \ At(pl.block, own[side], p)) \cup T
  BY <1>1, <1>2
<1>9. Replacement(pl, next, own, side, p, r.pool, next2, T, S2)
  BY <1>1, <1>6, <1>7, <1>8, <1>11 DEF Replacement
<1>10. Remapped(lv[side], p, r.level, T, With(lv[side], p, r.level))
  BY DEF Remapped
<1>12. Kept(Put(lv, side, With(lv[side], p, r.level)), r.pool, next2, Put(own, side, S2))
  <2>1. PICK pl2, level2, map2 : pl2 = r.pool /\ level2 = r.level /\ map2 = With(lv[side], p, r.level)
    OBVIOUS
  <2>2. /\ p \in Prices /\ Replacement(pl, next, own, side, p, pl2, next2, T, S2)
        /\ LevelOf(pl2.block, level2, T) /\ Remapped(lv[side], p, level2, T, map2)
    BY <2>1, <1>2, <1>6, <1>9, <1>10
  <2>3. Kept(Put(lv, side, map2), pl2, next2, Put(own, side, S2))
    BY <2>2, KeptReplaced
  <2> QED
    BY <2>1, <2>3
<1> QED
  BY <1>1, <1>5, <1>12

(* The order of a node leaves its level, which goes with its last order.   *)
LEMMA OrderLeaves ==
    ASSUME NEW lv, NEW pl, NEW next, NEW own, Kept(lv, pl, next, own),
           NEW side \in Sides, NEW node \in own[side], NEW p, p = pl.block[node].order.price,
           NEW r, r = erase(pl, lv[side][p], node),
           NEW S2, S2 = own[side] \ {node}
    PROVE  /\ Kept(Put(lv, side, Stored(lv[side], p, r.level)), r.pool, next, Put(own, side, S2))
           /\ Erased(pl, Used(own), At(pl.block, own[side], p), node, r)
<1>1. PICK U, T, used, level :
         U = At(pl.block, own[side], p) /\ T = U \ {node} /\ used = Used(own) /\ level = lv[side][p]
  OBVIOUS
<1>2. /\ next \in Nat /\ own[side] \subseteq used /\ used \subseteq Nat
      /\ \A b \in own[side] : pl.block[b].order \in RestingOrders /\ pl.block[b].order.sequence < next
                              /\ pl.block[b].order.price \in DOMAIN lv[side]
      /\ U \subseteq own[side] /\ \A b \in U : pl.block[b].order.price = p
      /\ p \in Prices /\ p \in DOMAIN lv[side] /\ node \in U /\ U \subseteq used
      /\ LevelOf(pl.block, level, U)
  <2>1. /\ next \in Nat /\ own[side] \subseteq used /\ used \subseteq Nat
        /\ \A b \in own[side] : /\ pl.block[b].order \in RestingOrders /\ pl.block[b].order.sequence < next
                                /\ pl.block[b].order.price \in DOMAIN lv[side]
        /\ \A k \in DOMAIN lv[side] : LevelOf(pl.block, lv[side][k], At(pl.block, own[side], k))
        /\ DOMAIN lv[side] \subseteq Prices
    BY <1>1, KeptFacts
  <2>2. U \subseteq own[side] /\ node \in U /\ \A b \in U : pl.block[b].order.price = p
    BY <1>1 DEF At
  <2>3. p \in DOMAIN lv[side] /\ p \in Prices
    BY <2>1
  <2> QED
    BY <2>1, <2>2, <2>3, <1>1
<1>3. PoolOf(OrderNodes, pl, used) /\ Hold(pl.block, used)
  BY <1>1 DEF Kept, NodesOf, Hold
<1>4. Erased(pl, used, U, node, r)
  <2>1. r = erase(pl, level, node)
    BY <1>1
  <2> QED
    BY <2>1, <1>2, <1>3, EraseNode
<1>5. /\ PoolOf(OrderNodes, r.pool, used \ {node})
      /\ \A b \in used \ {node} : r.pool.block[b] \in OrderNodes
      /\ LevelOf(r.pool.block, r.level, T)
      /\ \A b \in used \ {node} : r.pool.block[b].order = pl.block[b].order
      /\ Same(pl.block, r.pool.block, used \ U)
  BY <1>1, <1>4 DEF Erased, Same
<1>6. /\ T \subseteq Nat /\ T \cap (used \ U) = {} /\ used \ {node} = (used \ U) \cup T
      /\ S2 = (own[side] \ U) \cup T
  BY <1>1, <1>2
<1>7. NodesOf(r.pool, next, T) /\ PricedAt(r.pool.block, T, p)
  <2> SUFFICES ASSUME NEW b \in T
               PROVE  /\ r.pool.block[b] \in OrderNodes /\ r.pool.block[b].order.sequence < next
                      /\ r.pool.block[b].order.price = p
    BY DEF NodesOf, PricedAt
  <2>1. b \in used \ {node} /\ b \in U /\ b \in own[side]
    BY <1>1, <1>2
  <2>2. r.pool.block[b].order = pl.block[b].order /\ r.pool.block[b] \in OrderNodes
    BY <2>1, <1>5
  <2> QED
    BY <2>1, <2>2, <1>2
<1>8. PICK pl2, level2, map2 : pl2 = r.pool /\ level2 = r.level /\ map2 = Stored(lv[side], p, r.level)
  OBVIOUS
<1>9. Replacement(pl, next, own, side, p, pl2, next, T, S2)
  <2>1. PoolOf(OrderNodes, pl2, (used \ U) \cup T)
    BY <1>5, <1>6, <1>8
  <2>2. next <= next /\ NodesOf(pl2, next, T) /\ PricedAt(pl2.block, T, p) /\ Same(pl.block, pl2.block, used \ U)
    <3>1. next <= next
      BY <1>2
    <3> QED
      BY <3>1, <1>5, <1>7, <1>8, Zenon
  <2> QED
    BY <2>1, <2>2, <1>1, <1>2, <1>6, Zenon DEF Replacement
<1>10. LevelOf(pl2.block, level2, T) /\ Remapped(lv[side], p, level2, T, map2)
  <2>1. level2.head = Null => T = {}
    BY <1>5, <1>8 DEF LevelOf
  <2> QED
    BY <2>1, <1>5, <1>8 DEF Remapped, Stored
<1>11. Kept(Put(lv, side, map2), pl2, next, Put(own, side, S2))
  BY <1>2, <1>9, <1>10, KeptReplaced
<1> QED
  BY <1>1, <1>4, <1>8, <1>11

(* A level is made before its first order, or dropped without orders.      *)
LEMMA LevelAlone ==
    ASSUME NEW lv, NEW pl, NEW next, NEW own, Kept(lv, pl, next, own),
           NEW side \in Sides, NEW p \in Prices, NEW level, level = LevelIn(lv[side], p),
           NEW map2, map2 = With(lv[side], p, level) \/ (level.head = Null /\ map2 = Without(lv[side], p))
    PROVE  Kept(Put(lv, side, map2), pl, next, own)
<1>1. PICK U, used, S2 : U = At(pl.block, own[side], p) /\ used = Used(own) /\ S2 = own[side]
  OBVIOUS
<1>2. /\ next \in Nat /\ S2 \subseteq used /\ used \subseteq Nat
      /\ \A b \in S2 : /\ pl.block[b] \in OrderNodes /\ pl.block[b].order.sequence < next
                       /\ pl.block[b].order.price \in DOMAIN lv[side]
      /\ U \subseteq S2 /\ \A b \in U : pl.block[b].order.price = p
  BY <1>1, KeptFacts DEF At
<1>3. LevelOf(pl.block, level, U)
  <2>1. CASE p \in DOMAIN lv[side]
    BY <1>1, <2>1, KeptFacts DEF LevelIn
  <2>2. CASE p \notin DOMAIN lv[side]
    <3>1. U = {} /\ level = [head |-> Null, tail |-> Null]
      BY <1>2, <2>2 DEF EmptyLevel, LevelIn
    <3> QED
      BY <3>1 DEF LevelOf
  <2> QED
    BY <2>1, <2>2
<1>4. Replacement(pl, next, own, side, p, pl, next, U, S2)
  <2>1. S2 = (S2 \ U) \cup U /\ (used \ U) \cup U = used /\ U \cap (used \ U) = {} /\ U \subseteq Nat
    BY <1>2
  <2>2. NodesOf(pl, next, U) /\ PricedAt(pl.block, U, p) /\ Same(pl.block, pl.block, used \ U)
    BY <1>2 DEF NodesOf, PricedAt, Same
  <2>3. PoolOf(OrderNodes, pl, used)
    BY <1>1 DEF Kept
  <2>4. PoolOf(OrderNodes, pl, (used \ U) \cup U) /\ next <= next
    BY <2>1, <2>3, <1>2
  <2> QED
    BY <2>1, <2>2, <2>4, <1>1, <1>2, Zenon DEF Replacement
<1>5. Remapped(lv[side], p, level, U, map2)
  BY <1>3 DEF LevelOf, Remapped
<1>6. Kept(Put(lv, side, map2), pl, next, Put(own, side, S2))
  BY <1>3, <1>4, <1>5, KeptReplaced
<1>7. Put(own, side, S2) = own
  BY <1>1 DEF Kept, Put
<1> QED
  BY <1>6, <1>7

(* An order is filled in part.                                             *)
LEMMA OrderShrinks ==
    ASSUME NEW lv, NEW pl, NEW next, NEW own, Kept(lv, pl, next, own),
           NEW side \in Sides, NEW node \in own[side],
           NEW x \in Nat, x < pl.block[node].order.quantity, NEW q, q = FilledBy(pl, node, x)
    PROVE  /\ Kept(lv, q, next, own)
           /\ \A b \in Used(own) : b # node => q.block[b] = pl.block[b]
           /\ q.block[node].order =
                 [id |-> pl.block[node].order.id, price |-> pl.block[node].order.price,
                  quantity |-> pl.block[node].order.quantity - x, sequence |-> pl.block[node].order.sequence]
<1>1. PICK used : used = Used(own)
  OBVIOUS
<1>2. node \in used /\ PoolOf(OrderNodes, pl, used) /\ Hold(pl.block, used)
  BY <1>1, KeptFacts DEF Kept, NodesOf, Hold
<1>3. /\ PoolOf(OrderNodes, q, used)
      /\ \A b \in used : q.block[b] \in OrderNodes
      /\ \A b \in used : b # node => q.block[b] = pl.block[b]
      /\ q.block[node].prev = pl.block[node].prev /\ q.block[node].next = pl.block[node].next
      /\ q.block[node].order.id = pl.block[node].order.id
      /\ q.block[node].order.price = pl.block[node].order.price
      /\ q.block[node].order.sequence = pl.block[node].order.sequence
      /\ q.block[node].order.quantity = pl.block[node].order.quantity - x
  BY <1>2, PartFilled
<1>4. \A b \in used : /\ q.block[b].order.price = pl.block[b].order.price
                      /\ q.block[b].order.sequence = pl.block[b].order.sequence
                      /\ q.block[b].prev = pl.block[b].prev /\ q.block[b].next = pl.block[b].next
  BY <1>3
<1>5. NodesOf(q, next, used)
  BY <1>1, <1>3, <1>4 DEF NodesOf, Kept
<1>6. ASSUME NEW t \in Sides PROVE SideOf(q.block, lv[t], own[t])
  <2>1. own[t] \subseteq used /\ SideOf(pl.block, lv[t], own[t])
    BY <1>1 DEF Used, Sides, Kept
  <2>2. Alike(pl.block, q.block, own[t])
    BY <2>1, <1>4 DEF Alike, Age
  <2> QED
    BY <2>1, <2>2, SideFrame
<1>7. q.block[node].order \in RestingOrders
  BY <1>2, <1>3 DEF OrderNodes
<1> QED
  BY <1>1, <1>3, <1>5, <1>6, <1>7 DEF Kept, RestingOrders

(* A number is used up.                                                    *)
LEMMA NumberTaken ==
    ASSUME NEW lv, NEW pl, NEW next, NEW own, Kept(lv, pl, next, own)
    PROVE  Kept(lv, pl, next + 1, own)
<1>1. next \in Nat /\ \A b \in Used(own) : pl.block[b] \in OrderNodes /\ pl.block[b].order.sequence < next
  BY DEF Kept, NodesOf
<1>2. NodesOf(pl, next + 1, Used(own))
  BY <1>1 DEF NodesOf, OrderNodes, RestingOrders
<1> QED
  BY <1>1, <1>2 DEF Kept

--------------------------------------------------------------------------------
(* What locations_ says is so; and, as long as no allocation fails, all    *)
(* orders are found in it and every level has an order.                    *)
Located(locs, pl, own) ==
    /\ DOMAIN locs \subseteq OrderIds
    /\ \A id \in DOMAIN locs :
          /\ locs[id] \in [side : Sides, price : Prices, node : Nat]
          /\ locs[id].node \in own[locs[id].side]
          /\ pl.block[locs[id].node].order.id = id
          /\ pl.block[locs[id].node].order.price = locs[id].price

Found(locs, pl, own) ==
    \A side \in Sides : \A b \in own[side] :
        pl.block[b].order.id \in DOMAIN locs /\ locs[pl.block[b].order.id].node = b

NoEmptyLevel(lv) == \A side \in Sides : \A p \in DOMAIN lv[side] : lv[side][p].head # Null

SameOrders(pl, pl2, S) == \A b \in S : pl2.block[b].order = pl.block[b].order

(* An order leaves, and its location with it.                              *)
LEMMA LocationLeaves ==
    ASSUME NEW locs, NEW pl, NEW own, Located(locs, pl, own), own \in [Sides -> SUBSET Nat],
           own["Buy"] \cap own["Sell"] = {},
           NEW side \in Sides, NEW node \in own[side],
           NEW pl2, SameOrders(pl, pl2, Used(own) \ {node}),
           NEW S2, S2 = own[side] \ {node},
           NEW id, id = pl.block[node].order.id
    PROVE  /\ Located(Without(locs, id), pl2, Put(own, side, S2))
           /\ Found(locs, pl, own) => Found(Without(locs, id), pl2, Put(own, side, S2))
<1>1. PICK own2, locs2 : own2 = Put(own, side, S2) /\ locs2 = Without(locs, id)
  OBVIOUS
<1>2. /\ DOMAIN locs2 = DOMAIN locs \ {id} /\ \A k \in DOMAIN locs : k # id => locs2[k] = locs[k]
  BY <1>1 DEF Without, Restrict
<1>3. /\ \A t \in Sides : own2[t] = own[t] \ {node} /\ own2[t] \subseteq Used(own) \ {node}
  BY <1>1 DEF Put, Used, Sides
<1>4. Located(locs2, pl2, own2)
  <2>1. DOMAIN locs2 \subseteq OrderIds
    BY <1>2 DEF Located
  <2>2. ASSUME NEW k \in DOMAIN locs2
        PROVE  /\ locs2[k] \in [side : Sides, price : Prices, node : Nat]
               /\ locs2[k].node \in own2[locs2[k].side]
               /\ pl2.block[locs2[k].node].order.id = k
               /\ pl2.block[locs2[k].node].order.price = locs2[k].price
    <3>1. /\ k # id /\ locs2[k] = locs[k]
          /\ locs[k] \in [side : Sides, price : Prices, node : Nat]
          /\ locs[k].node \in own[locs[k].side]
          /\ pl.block[locs[k].node].order.id = k
          /\ pl.block[locs[k].node].order.price = locs[k].price
      BY <1>2 DEF Located
    <3>2. locs[k].node # node /\ locs[k].side \in Sides
      BY <3>1
    <3>3. locs[k].node \in own2[locs[k].side] /\ locs[k].node \in Used(own) \ {node}
      BY <3>1, <3>2, <1>3
    <3>4. pl2.block[locs[k].node].order = pl.block[locs[k].node].order
      BY <3>3 DEF SameOrders
    <3> QED
      BY <3>1, <3>3, <3>4
  <2> QED
    BY <2>1, <2>2 DEF Located
<1>5. ASSUME Found(locs, pl, own) PROVE Found(locs2, pl2, own2)
  <2> SUFFICES ASSUME NEW t \in Sides, NEW b \in own2[t]
               PROVE  pl2.block[b].order.id \in DOMAIN locs2 /\ locs2[pl2.block[b].order.id].node = b
    BY DEF Found
  <2>1. b \in own[t] /\ b # node /\ pl2.block[b].order = pl.block[b].order
    BY <1>3 DEF SameOrders
  <2>2. pl.block[b].order.id \in DOMAIN locs /\ locs[pl.block[b].order.id].node = b /\ locs[id].node = node
    BY <2>1, <1>5 DEF Found
  <2>3. pl.block[b].order.id # id
    BY <2>1, <2>2
  <2> QED
    BY <2>1, <2>2, <2>3, <1>2
<1> QED
  BY <1>1, <1>4, <1>5

(* An order joins; its location is recorded, or that failed.               *)
LEMMA LocationJoins ==
    ASSUME NEW locs, NEW pl, NEW own, Located(locs, pl, own), own \in [Sides -> SUBSET Nat],
           NEW side \in Sides, NEW order \in RestingOrders,
           NEW node \in Nat, node \notin Used(own),
           NEW pl2, SameOrders(pl, pl2, Used(own)), pl2.block[node].order = order,
           NEW S2, S2 = own[side] \cup {node},
           NEW locs2, locs2 = With(locs, order.id, [side |-> side, price |-> order.price, node |-> node])
    PROVE  /\ Located(locs, pl2, Put(own, side, S2))
           /\ Located(locs2, pl2, Put(own, side, S2))
           /\ Found(locs, pl, own) /\ order.id \notin DOMAIN locs => Found(locs2, pl2, Put(own, side, S2))
<1>1. PICK own2 : own2 = Put(own, side, S2)
  OBVIOUS
<1>2. PICK new : new = [side |-> side, price |-> order.price, node |-> node]
  OBVIOUS
<1>3. /\ DOMAIN locs2 = DOMAIN locs \cup {order.id}
      /\ \A k \in DOMAIN locs2 : locs2[k] = IF k = order.id THEN new ELSE locs[k]
  BY <1>2 DEF With
<1>4. /\ own2[side] = own[side] \cup {node} /\ \A t \in Sides : t # side => own2[t] = own[t]
      /\ \A t \in Sides : own[t] \subseteq Used(own)
  BY <1>1 DEF Put, Used, Sides
<1>5. ASSUME NEW k \in DOMAIN locs
      PROVE  /\ locs[k] \in [side : Sides, price : Prices, node : Nat]
             /\ locs[k].node \in own2[locs[k].side]
             /\ pl2.block[locs[k].node].order.id = k
             /\ pl2.block[locs[k].node].order.price = locs[k].price
  <2>1. /\ locs[k] \in [side : Sides, price : Prices, node : Nat]
        /\ locs[k].node \in own[locs[k].side]
        /\ pl.block[locs[k].node].order.id = k
        /\ pl.block[locs[k].node].order.price = locs[k].price
    BY DEF Located
  <2>2. locs[k].side \in Sides
    BY <2>1
  <2>3. locs[k].node \in own2[locs[k].side] /\ locs[k].node \in Used(own)
    BY <2>1, <2>2, <1>4
  <2>4. pl2.block[locs[k].node].order = pl.block[locs[k].node].order
    BY <2>3 DEF SameOrders
  <2> QED
    BY <2>1, <2>3, <2>4
<1>6. Located(locs, pl2, own2)
  BY <1>5 DEF Located
<1>7. /\ new \in [side : Sides, price : Prices, node : Nat] /\ new.node \in own2[new.side]
      /\ pl2.block[new.node].order.id = order.id /\ pl2.block[new.node].order.price = new.price
      /\ order.id \in OrderIds /\ new.node = node
  BY <1>2, <1>4 DEF RestingOrders
<1>8. Located(locs2, pl2, own2)
  <2>1. DOMAIN locs2 \subseteq OrderIds
    BY <1>3, <1>7 DEF Located
  <2>2. ASSUME NEW k \in DOMAIN locs2
        PROVE  /\ locs2[k] \in [side : Sides, price : Prices, node : Nat]
               /\ locs2[k].node \in own2[locs2[k].side]
               /\ pl2.block[locs2[k].node].order.id = k
               /\ pl2.block[locs2[k].node].order.price = locs2[k].price
    <3>1. CASE k = order.id
      <4>1. locs2[k] = new
        BY <3>1, <1>3
      <4> QED
        BY <4>1, <3>1, <1>7
    <3>2. CASE k # order.id
      <4>1. locs2[k] = locs[k] /\ k \in DOMAIN locs
        BY <3>2, <1>3
      <4> QED
        BY <4>1, <1>5
    <3> QED
      BY <3>1, <3>2
  <2> QED
    BY <2>1, <2>2 DEF Located
<1>9. ASSUME Found(locs, pl, own), order.id \notin DOMAIN locs PROVE Found(locs2, pl2, own2)
  <2> SUFFICES ASSUME NEW t \in Sides, NEW b \in own2[t]
               PROVE  pl2.block[b].order.id \in DOMAIN locs2 /\ locs2[pl2.block[b].order.id].node = b
    BY DEF Found
  <2>1. CASE b = node
    BY <2>1, <1>3, <1>7
  <2>2. CASE b # node
    <3>1. b \in own[t] /\ b \in Used(own)
      BY <2>2, <1>4
    <3>2. pl2.block[b].order = pl.block[b].order
      BY <3>1 DEF SameOrders
    <3>3. pl.block[b].order.id \in DOMAIN locs /\ locs[pl.block[b].order.id].node = b
      BY <3>1, <1>9 DEF Found
    <3> QED
      BY <3>2, <3>3, <1>3, <1>9
  <2> QED
    BY <2>1, <2>2
<1> QED
  BY <1>1, <1>6, <1>8, <1>9

(* An order is filled in part: it is where it was.                         *)
LEMMA LocationStays ==
    ASSUME NEW locs, NEW pl, NEW own, Located(locs, pl, own), own \in [Sides -> SUBSET Nat],
           NEW pl2, \A b \in Used(own) : /\ pl2.block[b].order.id = pl.block[b].order.id
                                         /\ pl2.block[b].order.price = pl.block[b].order.price
    PROVE  /\ Located(locs, pl2, own)
           /\ Found(locs, pl, own) => Found(locs, pl2, own)
<1>1. \A t \in Sides : own[t] \subseteq Used(own)
  BY DEF Used, Sides
<1>2. Located(locs, pl2, own)
  <2>1. ASSUME NEW k \in DOMAIN locs
        PROVE  /\ pl2.block[locs[k].node].order.id = k
               /\ pl2.block[locs[k].node].order.price = locs[k].price
    <3>1. /\ locs[k] \in [side : Sides, price : Prices, node : Nat]
          /\ locs[k].node \in own[locs[k].side]
          /\ pl.block[locs[k].node].order.id = k
          /\ pl.block[locs[k].node].order.price = locs[k].price
      BY DEF Located
    <3>2. locs[k].side \in Sides
      BY <3>1
    <3>3. locs[k].node \in Used(own)
      BY <3>1, <3>2, <1>1
    <3> QED
      BY <3>1, <3>3
  <2> QED
    BY <2>1 DEF Located
<1>3. Found(locs, pl, own) => Found(locs, pl2, own)
  BY <1>1 DEF Found
<1> QED
  BY <1>2, <1>3

(* Levels without orders.                                                  *)
LEMMA LevelsStayFilled ==
    ASSUME NEW lv, DOMAIN lv = Sides, NEW side \in Sides, NEW p, NEW level, NoEmptyLevel(lv),
           NEW map2, map2 = Stored(lv[side], p, level) \/ (level.head # Null /\ map2 = With(lv[side], p, level))
    PROVE  NoEmptyLevel(Put(lv, side, map2))
BY DEF NoEmptyLevel, Put, Stored, With, Without, Restrict

--------------------------------------------------------------------------------
(* The invariant.  Until the book is destroyed there are the nodes of each *)
(* side; afterwards nothing is left but the sequence number.               *)
Calls == [id : OrderIds, side : Sides, price : Prices, remaining : Nat]
TradeRecords ==
    [aggressor : OrderIds, resting : OrderIds, side : Sides, price : Prices, quantity : Nat, sequence : Nat]

CallSound == call # Null => call \in Calls /\ call.id \notin DOMAIN locations

Uncrossed == \A bid \in DOMAIN levels["Buy"], ask \in DOMAIN levels["Sell"] : bid < ask

NoBetter(side, p, q) == IF side = "Buy" THEN p <= q ELSE p >= q

TradesSound ==
    /\ trades \in Seq(TradeRecords)
    /\ \A i \in DOMAIN trades : trades[i].sequence < next_sequence
    /\ \A i, j \in DOMAIN trades : i < j =>
          /\ trades[i].sequence < trades[j].sequence
          /\ NoBetter(trades[i].side, trades[i].price, trades[j].price)
    /\ call # Null => \A i \in DOMAIN trades :
          /\ trades[i].side = call.side
          /\ NoBetter(call.side, trades[i].price, call.price)
          /\ \A p \in DOMAIN levels[Opposite(call.side)] : NoBetter(call.side, trades[i].price, p)

Sound(own) ==
    /\ Kept(levels, node_pool, next_sequence, own)
    /\ Located(locations, node_pool, own)
    /\ CallSound /\ Uncrossed /\ TradesSound
    /\ ~AllocationFails => Found(locations, node_pool, own) /\ NoEmptyLevel(levels)

Gone ==
    /\ levels = [side \in Sides |-> <<>>] /\ locations = <<>>
    /\ call = Null /\ trades = <<>> /\ next_sequence \in Nat
    /\ PoolOf(OrderNodes, node_pool, {})

IInv ==
    \/ outcome # "destroyed" /\ \E own : Sound(own)
    \/ outcome = "destroyed" /\ Gone

LEMMA InitHolds == Init => IInv
<1> SUFFICES ASSUME Init PROVE IInv
  OBVIOUS
<1>1. PICK own : own = [side \in Sides |-> {}]
  OBVIOUS
<1>2. PoolOf(OrderNodes, node_pool, {})
  BY CapacityAssumption, NewPoolIsFree DEF Init
<1>3. /\ DOMAIN levels = Sides /\ \A side \in Sides : levels[side] = <<>> /\ own[side] = {} /\ DOMAIN levels[side] = {}
  BY <1>1 DEF Init
<1>4. own \in [Sides -> SUBSET Nat] /\ Used(own) = {}
  BY <1>1 DEF Sides, Used
<1>5. ASSUME NEW side \in Sides PROVE SideOf(node_pool.block, levels[side], own[side])
  <2>1. IsFiniteSet({})
    BY FS_EmptySet
  <2> QED
    BY <2>1, <1>3 DEF SideOf
<1>6. Kept(levels, node_pool, next_sequence, own)
  <2>1. next_sequence \in Nat /\ NodesOf(node_pool, next_sequence, {})
    BY DEF Init, NodesOf
  <2>2. own["Buy"] \cap own["Sell"] = {}
    BY <1>3 DEF Sides
  <2> QED
    BY <2>1, <2>2, <1>2, <1>3, <1>4, <1>5 DEF Kept
<1>7. DOMAIN locations = {} /\ DOMAIN trades = {} /\ trades \in Seq(TradeRecords) /\ call = Null
  BY DEF Init
<1>8. Located(locations, node_pool, own) /\ Found(locations, node_pool, own) /\ NoEmptyLevel(levels)
  BY <1>3, <1>7 DEF Located, Found, NoEmptyLevel
<1>9. CallSound /\ Uncrossed /\ TradesSound
  BY <1>3, <1>7 DEF CallSound, Uncrossed, TradesSound, Sides
<1> QED
  BY <1>6, <1>8, <1>9 DEF IInv, Sound, Init

--------------------------------------------------------------------------------
(* begin() of a side's map is its best price.                              *)
LEMMA BestIsBest ==
    ASSUME NEW own, Kept(levels, node_pool, next_sequence, own), NEW side \in Sides, DOMAIN levels[side] # {}
    PROVE  /\ Best(side) \in DOMAIN levels[side]
           /\ \A p \in DOMAIN levels[side] : IF side = "Buy" THEN p <= Best(side) ELSE Best(side) <= p
<1>1. PICK T : T = DOMAIN levels[side]
  OBVIOUS
<1>2. IsFiniteSet(T) /\ T \subseteq Int /\ T # {}
  BY <1>1, KeptFacts
<1>3. /\ Max(T) \in T /\ \A t \in T : t <= Max(T)
      /\ Min(T) \in T /\ \A t \in T : Min(T) <= t
  BY <1>2, FiniteExtremes
<1> QED
  BY <1>1, <1>3 DEF Best

(* The order that the call meets: the oldest at the best opposite price.   *)
Meets(own, side, best, node) ==
    /\ call \in Calls /\ side \in Sides /\ side # call.side /\ side = Opposite(call.side)
    /\ best = Best(side) /\ best \in DOMAIN levels[side] /\ best \in Prices /\ best \in Int
    /\ \A p \in DOMAIN levels[side] : NoBetter(call.side, best, p)
    /\ NoBetter(call.side, best, call.price)
    /\ BestLevel = levels[side][best] /\ node = BestLevel.head
    /\ node \in own[side]
    /\ node_pool.block[node].order \in RestingOrders /\ FrontOrder = node_pool.block[node].order
    /\ node_pool.block[node].order.price = best
    /\ \A b \in own[side] : node_pool.block[b].order.price = best =>
           b = node \/ node_pool.block[node].order.sequence < node_pool.block[b].order.sequence

LEMMA FrontOrderIsOldest ==
    ASSUME NEW own, Sound(own), Matching, BestLevel.head # Null
    PROVE  \E side, best, node : Meets(own, side, best, node)
<1>1. PICK side, best, node, level :
        side = Opposite(call.side) /\ best = Best(side) /\ level = levels[side][best] /\ node = level.head
  OBVIOUS
<1>2. call \in Calls /\ call.side \in Sides /\ side \in Sides /\ side # call.side
  BY <1>1 DEF Sound, CallSound, Matching, Calls, Sides, Opposite
<1>3. DOMAIN levels[side] # {} /\ (IF call.side = "Buy" THEN best <= call.price ELSE best >= call.price)
  BY <1>1 DEF Matching, Crosses
<1>4. /\ best \in DOMAIN levels[side]
      /\ \A p \in DOMAIN levels[side] : IF side = "Buy" THEN p <= best ELSE best <= p
  BY <1>1, <1>2, <1>3, BestIsBest DEF Sound
<1>5. /\ \A b \in own[side] : node_pool.block[b].order \in RestingOrders
      /\ LevelOf(node_pool.block, level, At(node_pool.block, own[side], best))
      /\ DOMAIN levels[side] \subseteq Prices /\ DOMAIN levels[side] \subseteq Int
  BY <1>1, <1>2, <1>4, KeptFacts DEF Sound
<1>6. BestLevel = level /\ node # Null /\ FrontOrder = node_pool.block[node].order
  BY <1>1 DEF BestLevel, FrontOrder
<1>7. /\ node \in At(node_pool.block, own[side], best)
      /\ \A b \in At(node_pool.block, own[side], best) :
            b = node \/ Age(node_pool.block, node) < Age(node_pool.block, b)
  <2>1. level \in [head : At(node_pool.block, own[side], best) \cup {Null},
                   tail : At(node_pool.block, own[side], best) \cup {Null}]
    BY <1>5 DEF LevelOf
  <2>2. node \in At(node_pool.block, own[side], best)
    BY <2>1, <1>1, <1>6
  <2>3. \A b \in At(node_pool.block, own[side], best) :
           /\ Age(node_pool.block, b) \in Nat
           /\ Age(node_pool.block, node) <= Age(node_pool.block, b)
           /\ Age(node_pool.block, node) = Age(node_pool.block, b) => b = node
    BY <2>2, <1>1, <1>5 DEF LevelOf
  <2> QED
    BY <2>2, <2>3
<1>8. /\ node \in own[side] /\ node_pool.block[node].order.price = best
      /\ \A b \in own[side] : node_pool.block[b].order.price = best =>
           b = node \/ node_pool.block[node].order.sequence < node_pool.block[b].order.sequence
  BY <1>7 DEF At, Age
<1>9. /\ \A p \in DOMAIN levels[side] : NoBetter(call.side, best, p)
      /\ NoBetter(call.side, best, call.price)
  BY <1>2, <1>3, <1>4, <1>5 DEF NoBetter, Sides
<1>10. Meets(own, side, best, node)
  BY <1>1, <1>2, <1>4, <1>5, <1>6, <1>8, <1>9 DEF Meets
<1> QED
  BY <1>10

--------------------------------------------------------------------------------
(* A trade with that order, at its price, is worse than all before it.     *)
LEMMA TradeStep ==
    ASSUME NEW own, Sound(own), NEW side, NEW best, NEW node, Meets(own, side, best, node),
           call # Null, NEW x \in Nat, x <= call.remaining, RecordTrade(x),
           \A t \in Sides : DOMAIN levels'[t] \subseteq DOMAIN levels[t],
           DOMAIN locations' \subseteq DOMAIN locations
    PROVE  CallSound' /\ Uncrossed' /\ TradesSound'
<1>1. PICK new : new = [aggressor |-> call.id, resting |-> FrontOrder.id, side |-> call.side, price |-> best,
                        quantity |-> x, sequence |-> next_sequence]
  OBVIOUS
<1>2. /\ call \in Calls /\ side = Opposite(call.side) /\ side \in Sides /\ best \in Prices
      /\ FrontOrder.id \in OrderIds /\ next_sequence \in Nat
      /\ \A p \in DOMAIN levels[side] : NoBetter(call.side, best, p)
      /\ NoBetter(call.side, best, call.price) /\ best \in DOMAIN levels[side]
  BY DEF Meets, RestingOrders, Sound, Kept
<1>3. new \in TradeRecords /\ new.side = call.side /\ new.price = best /\ new.sequence = next_sequence
  BY <1>1, <1>2 DEF Calls, TradeRecords
<1>4. /\ trades' = Append(trades, new) /\ next_sequence' = next_sequence + 1
      /\ call' = [call EXCEPT !.remaining = @ - x]
  BY <1>1 DEF RecordTrade, Meets
<1>5. /\ call' \in Calls /\ call'.side = call.side /\ call'.price = call.price /\ call'.id = call.id
  BY <1>2, <1>4 DEF Calls
<1>6. PICK old : old = trades
  OBVIOUS
<1>7. /\ old \in Seq(TradeRecords)
      /\ \A i \in DOMAIN old : old[i].sequence < next_sequence
      /\ \A i, j \in DOMAIN old : i < j =>
            /\ old[i].sequence < old[j].sequence
            /\ NoBetter(old[i].side, old[i].price, old[j].price)
      /\ \A i \in DOMAIN old :
            /\ old[i].side = call.side
            /\ NoBetter(call.side, old[i].price, call.price)
            /\ \A p \in DOMAIN levels[side] : NoBetter(call.side, old[i].price, p)
  BY <1>2, <1>6 DEF Sound, TradesSound
<1>8. PICK n \in Nat : n = Len(old) /\ DOMAIN old = 1 .. n
  BY <1>7
<1>9. /\ trades' \in Seq(TradeRecords) /\ DOMAIN trades' = 1 .. n + 1
      /\ \A i \in 1 .. n : trades'[i] = old[i] /\ trades'[n + 1] = new
      /\ trades'[n + 1] = new
  BY <1>3, <1>4, <1>6, <1>7, <1>8
<1>10. \A i \in 1 .. n : old[i] \in TradeRecords /\ old[i].sequence \in Nat
  <2>1. \A i \in 1 .. n : old[i] \in TradeRecords
    BY <1>7, <1>8
  <2> QED
    BY <2>1 DEF TradeRecords
<1>11. \A i \in DOMAIN trades' : trades'[i].sequence < next_sequence'
  <2> SUFFICES ASSUME NEW i \in 1 .. n + 1 PROVE trades'[i].sequence < next_sequence + 1
    BY <1>4, <1>9
  <2>1. CASE i = n + 1
    BY <2>1, <1>2, <1>3, <1>9
  <2>2. CASE i \in 1 .. n
    BY <2>2, <1>2, <1>7, <1>8, <1>9, <1>10, SMTT(60)
  <2> QED
    BY <2>1, <2>2
<1>12. ASSUME NEW i \in DOMAIN trades', NEW j \in DOMAIN trades', i < j
       PROVE  /\ trades'[i].sequence < trades'[j].sequence
              /\ NoBetter(trades'[i].side, trades'[i].price, trades'[j].price)
  <2>1. i \in 1 .. n /\ trades'[i] = old[i]
    BY <1>9, <1>12
  <2>2. CASE j = n + 1
    <3>1. trades'[j] = new
      BY <2>2, <1>9
    <3> QED
      BY <3>1, <2>1, <1>2, <1>3, <1>7, <1>8
  <2>3. CASE j \in 1 .. n
    BY <2>1, <2>3, <1>7, <1>8, <1>9, <1>12
  <2> QED
    BY <2>2, <2>3, <1>9
<1>13. ASSUME NEW i \in DOMAIN trades'
       PROVE  /\ trades'[i].side = call.side
              /\ NoBetter(call.side, trades'[i].price, call.price)
              /\ \A p \in DOMAIN levels[side] : NoBetter(call.side, trades'[i].price, p)
  <2>1. CASE i = n + 1
    BY <2>1, <1>2, <1>3, <1>9
  <2>2. CASE i \in 1 .. n
    BY <2>2, <1>7, <1>8, <1>9
  <2> QED
    BY <2>1, <2>2, <1>9
<1>14. TradesSound'
  BY <1>2, <1>5, <1>9, <1>11, <1>12, <1>13 DEF TradesSound
<1>15. CallSound'
  BY <1>5 DEF CallSound, Sound
<1>16. Uncrossed'
  BY DEF Uncrossed, Sound, Sides
<1> QED
  BY <1>14, <1>15, <1>16

(* A node left a side of the book, or joined it; all other orders stay.    *)
NodeLeft(own, side, node, own2) ==
    /\ own2 = Put(own, side, own[side] \ {node})
    /\ SameOrders(node_pool, node_pool', Used(own) \ {node})
NodeJoined(own, side, node, order, own2) ==
    /\ own2 = Put(own, side, own[side] \cup {node}) /\ node \notin Used(own)
    /\ node_pool'.block[node].order = order
    /\ SameOrders(node_pool, node_pool', Used(own))

(* An order is consumed.                                                   *)
LEMMA ConsumeStep ==
    ASSUME NEW own, Sound(own), Consume
    PROVE  \E side, best, node, own2 :
              Meets(own, side, best, node) /\ NodeLeft(own, side, node, own2) /\ Sound(own2)'
<1>1. PICK side, best, node : Meets(own, side, best, node)
  BY FrontOrderIsOldest DEF Consume
<1>2. PICK pl, lv, r, S2, own2 :
         /\ pl = node_pool /\ lv = levels /\ r = erase(pl, lv[side][best], node)
         /\ S2 = own[side] \ {node} /\ own2 = Put(own, side, S2)
  OBVIOUS
<1>3. /\ side \in Sides /\ side = Opposite(call.side) /\ best = Best(side) /\ best \in DOMAIN levels[side]
      /\ BestLevel = lv[side][best] /\ node = BestLevel.head /\ node # Null
      /\ node \in own[side] /\ best = pl.block[node].order.price
      /\ FrontOrder = pl.block[node].order /\ FrontOrder \in RestingOrders
      /\ call \in Calls
  BY <1>1, <1>2 DEF Meets, Consume
<1>4. Kept(lv, pl, next_sequence, own) /\ Located(locations, pl, own)
      /\ (~AllocationFails => Found(locations, pl, own) /\ NoEmptyLevel(lv))
  BY <1>2 DEF Sound
<1>5. r = pop_front(pl, BestLevel)
  <2>1. PICK U, used : U = At(pl.block, own[side], best) /\ used = Used(own)
    OBVIOUS
  <2>2. U \subseteq used /\ PoolOf(OrderNodes, pl, used)
    BY <2>1, <1>3, <1>4, KeptFacts DEF At, Kept
  <2>3. LevelOf(pl.block, lv[side][best], U)
    <3>1. \A p \in DOMAIN lv[side] : LevelOf(pl.block, lv[side][p], At(pl.block, own[side], p))
      BY <1>3, <1>4, KeptFacts
    <3>2. best \in DOMAIN lv[side]
      BY <1>2, <1>3
    <3> QED
      BY <3>1, <3>2, <2>1
  <2> QED
    BY <2>2, <2>3, <1>2, <1>3, PopFrontErases
<1>6. /\ node_pool' = r.pool
      /\ levels' = Put(lv, side, Stored(lv[side], best, r.level))
      /\ locations' = Without(locations, FrontOrder.id)
      /\ RecordTrade(FrontOrder.quantity) /\ next_sequence' = next_sequence + 1
      /\ FrontOrder.quantity <= call.remaining
  BY <1>2, <1>3, <1>5 DEF Consume, Put, RecordTrade
<1>7. /\ Kept(Put(lv, side, Stored(lv[side], best, r.level)), r.pool, next_sequence, own2)
      /\ Erased(pl, Used(own), At(pl.block, own[side], best), node, r)
  <2>1. /\ Kept(lv, pl, next_sequence, own) /\ side \in Sides /\ node \in own[side]
        /\ best = pl.block[node].order.price /\ r = erase(pl, lv[side][best], node) /\ S2 = own[side] \ {node}
    BY <1>2, <1>3, <1>4
  <2>2. /\ Kept(Put(lv, side, Stored(lv[side], best, r.level)), r.pool, next_sequence, Put(own, side, S2))
        /\ Erased(pl, Used(own), At(pl.block, own[side], best), node, r)
    BY <2>1, OrderLeaves
  <2> QED
    BY <2>2, <1>2
<1>8. Kept(levels', node_pool', next_sequence', own2)
  <2>1. Kept(levels', node_pool', next_sequence, own2)
    BY <1>6, <1>7
  <2> QED
    BY <2>1, <1>6, NumberTaken
<1>9. /\ Located(locations', node_pool', own2)
      /\ Found(locations, pl, own) => Found(locations', node_pool', own2)
  <2>1. SameOrders(pl, r.pool, Used(own) \ {node})
    BY <1>7 DEF Erased, SameOrders
  <2>2. own \in [Sides -> SUBSET Nat] /\ own["Buy"] \cap own["Sell"] = {}
    BY <1>4 DEF Kept
  <2>3. FrontOrder.id = pl.block[node].order.id
    BY <1>3
  <2>4. /\ Located(Without(locations, FrontOrder.id), r.pool, Put(own, side, S2))
        /\ Found(locations, pl, own) => Found(Without(locations, FrontOrder.id), r.pool, Put(own, side, S2))
    BY <2>1, <2>2, <2>3, <1>2, <1>3, <1>4, LocationLeaves
  <2> QED
    BY <2>4, <1>2, <1>6
<1>10. NoEmptyLevel(lv) => NoEmptyLevel(levels')
  <2>1. DOMAIN lv = Sides
    BY <1>4 DEF Kept
  <2> QED
    BY <2>1, <1>3, <1>6, LevelsStayFilled
<1>11. /\ \A t \in Sides : DOMAIN levels'[t] \subseteq DOMAIN levels[t]
       /\ DOMAIN locations' \subseteq DOMAIN locations
  BY <1>2, <1>3, <1>4, <1>6 DEF Put, Stored, With, Without, Restrict, Kept
<1>12. CallSound' /\ Uncrossed' /\ TradesSound'
  <2>1. FrontOrder.quantity \in Nat /\ call # Null
    BY <1>3 DEF RestingOrders, Consume, Matching
  <2> QED
    BY <2>1, <1>1, <1>6, <1>11, TradeStep
<1>13. Sound(own2)'
  BY <1>4, <1>8, <1>9, <1>10, <1>12 DEF Sound
<1>14. NodeLeft(own, side, node, own2)
  BY <1>2, <1>6, <1>7 DEF NodeLeft, Erased, SameOrders
<1> QED
  BY <1>1, <1>13, <1>14

(* An order is consumed in part.                                           *)
LEMMA ConsumePartStep ==
    ASSUME NEW own, Sound(own), ConsumePart
    PROVE  Sound(own)'
<1>1. PICK side, best, node : Meets(own, side, best, node)
  BY FrontOrderIsOldest DEF ConsumePart
<1>2. PICK pl, x, q : pl = node_pool /\ x = call.remaining /\ q = FilledBy(pl, node, x)
  OBVIOUS
<1>3. /\ side \in Sides /\ node = BestLevel.head /\ node \in own[side]
      /\ FrontOrder = pl.block[node].order
      /\ call \in Calls /\ call # Null /\ x \in Nat /\ x < pl.block[node].order.quantity
  BY <1>1, <1>2 DEF Meets, ConsumePart, Matching, Calls
<1>4. /\ Kept(levels, pl, next_sequence, own) /\ Located(locations, pl, own)
      /\ ~AllocationFails => Found(locations, pl, own) /\ NoEmptyLevel(levels)
  BY <1>2 DEF Sound
<1>5. /\ Kept(levels, q, next_sequence, own)
      /\ \A b \in Used(own) : b # node => q.block[b] = pl.block[b]
      /\ q.block[node].order =
            [id |-> pl.block[node].order.id, price |-> pl.block[node].order.price,
             quantity |-> pl.block[node].order.quantity - x, sequence |-> pl.block[node].order.sequence]
  BY <1>2, <1>3, <1>4, OrderShrinks
<1>6. /\ node_pool' = q /\ levels' = levels /\ locations' = locations /\ RecordTrade(x)
      /\ next_sequence' = next_sequence + 1
  BY <1>2, <1>3 DEF ConsumePart, RecordTrade, FilledBy
<1>7. \A b \in Used(own) : /\ q.block[b].order.id = pl.block[b].order.id
                           /\ q.block[b].order.price = pl.block[b].order.price
  BY <1>5
<1>8. Located(locations, q, own) /\ (Found(locations, pl, own) => Found(locations, q, own))
  <2>1. own \in [Sides -> SUBSET Nat]
    BY <1>4 DEF Kept
  <2> QED
    BY <2>1, <1>4, <1>7, LocationStays
<1>9. Kept(levels, q, next_sequence + 1, own)
  BY <1>5, NumberTaken
<1>10. CallSound' /\ Uncrossed' /\ TradesSound'
  <2>1. x <= call.remaining
    BY <1>2, <1>3
  <2> QED
    BY <2>1, <1>1, <1>3, <1>6, TradeStep
<1> QED
  BY <1>4, <1>6, <1>8, <1>9, <1>10 DEF Sound


(* A level without orders is dropped when it is met.                       *)
LEMMA DropEmptyLevelStep ==
    ASSUME NEW own, Sound(own), DropEmptyLevel
    PROVE  Sound(own)'
<1>1. PICK side, best, level, map2 :
         /\ side = Opposite(call.side) /\ best = Best(side) /\ level = levels[side][best]
         /\ map2 = Without(levels[side], best)
  OBVIOUS
<1>2. /\ call \in Calls /\ side \in Sides /\ DOMAIN levels[side] # {}
      /\ level.head = Null
  BY <1>1 DEF DropEmptyLevel, Matching, Crosses, BestLevel, Sound, CallSound, Calls, Sides, Opposite
<1>3. Kept(levels, node_pool, next_sequence, own)
  BY DEF Sound
<1>4. best \in DOMAIN levels[side] /\ best \in Prices
  BY <1>1, <1>2, <1>3, BestIsBest, KeptFacts
<1>5. levels' = Put(levels, side, map2) /\ level = LevelIn(levels[side], best)
  BY <1>1, <1>4 DEF DropEmptyLevel, Put, LevelIn
<1>6. Kept(levels', node_pool, next_sequence, own)
  BY <1>1, <1>2, <1>3, <1>4, <1>5, LevelAlone
<1>7. DOMAIN levels = Sides /\ DOMAIN levels' = Sides
      /\ \A t \in Sides : /\ DOMAIN levels'[t] \subseteq DOMAIN levels[t]
                          /\ \A p \in DOMAIN levels'[t] : levels'[t][p] = levels[t][p]
  BY <1>1, <1>3, <1>5 DEF Kept, Put, Without, Restrict
<1>8. NoEmptyLevel(levels) => NoEmptyLevel(levels')
  BY <1>7 DEF NoEmptyLevel
<1>9. CallSound' /\ Uncrossed'
  BY <1>7 DEF DropEmptyLevel, Sound, CallSound, Uncrossed, Sides
<1>10. TradesSound'
  <2>1. Opposite(call.side) \in Sides
    BY <1>1, <1>2
  <2> QED
    BY <2>1, <1>7 DEF DropEmptyLevel, Sound, TradesSound
<1> QED
  BY <1>6, <1>8, <1>9, <1>10 DEF DropEmptyLevel, Sound

--------------------------------------------------------------------------------
(* The call ends, with its trades or without.                              *)
LEMMA CallEnds ==
    ASSUME TradesSound, next_sequence \in Nat,
           next_sequence' = next_sequence \/ next_sequence' = next_sequence + 1,
           call' = Null, trades' = trades \/ trades' = <<>>
    PROVE  TradesSound' /\ CallSound'
<1>1. CallSound'
  BY DEF CallSound
<1>2. CASE trades' = <<>>
  <2>1. trades' \in Seq(TradeRecords) /\ DOMAIN trades' = {}
    BY <1>2
  <2> QED
    BY <1>1, <2>1 DEF TradesSound
<1>3. CASE trades' = trades
  <2>1. \A i \in DOMAIN trades : trades[i] \in TradeRecords
    BY DEF TradesSound
  <2>2. \A i \in DOMAIN trades : trades[i].sequence \in Nat
    BY <2>1 DEF TradeRecords
  <2>3. \A i \in DOMAIN trades' : trades'[i].sequence < next_sequence'
    BY <1>3, <2>2 DEF TradesSound
  <2> QED
    BY <1>1, <1>3, <2>3 DEF TradesSound
<1> QED
  BY <1>1, <1>2, <1>3

LEMMA QuietStep ==
    ASSUME NEW own, Sound(own), UNCHANGED <<levels, locations, node_pool>>,
           next_sequence' = next_sequence \/ next_sequence' = next_sequence + 1,
           call' = Null, trades' = trades \/ trades' = <<>>
    PROVE  Sound(own)'
<1>1. Kept(levels, node_pool, next_sequence, own) /\ next_sequence \in Nat /\ TradesSound
  BY DEF Sound, Kept
<1>2. Kept(levels, node_pool, next_sequence + 1, own)
  BY <1>1, NumberTaken
<1>3. Kept(levels', node_pool', next_sequence', own)
  BY <1>1, <1>2
<1>4. TradesSound' /\ CallSound'
  BY <1>1, CallEnds
<1>5. Uncrossed'
  BY DEF Sound, Uncrossed
<1> QED
  BY <1>3, <1>4, <1>5 DEF Sound

(* A new call.                                                             *)
LEMMA SubmitStep ==
    ASSUME NEW own, Sound(own), NEW id \in OrderIds, NEW side \in Sides, NEW price \in Prices, NEW quantity \in Quantities,
           Submit(id, side, price, quantity)
    PROVE  Sound(own)'
<1>1. /\ UNCHANGED <<levels, locations, node_pool, next_sequence>> /\ trades' = <<>>
      /\ call' = [id |-> id, side |-> side, price |-> price, remaining |-> quantity]
      /\ quantity > 0 /\ id \notin DOMAIN locations
  BY DEF Submit
<1>2. call' \in Calls /\ call'.id = id
  BY <1>1, PricesAssumption DEF Calls
<1>3. CallSound'
  BY <1>1, <1>2 DEF CallSound
<1>4. TradesSound'
  BY <1>1 DEF TradesSound
<1>5. Uncrossed'
  BY <1>1 DEF Sound, Uncrossed
<1> QED
  BY <1>1, <1>3, <1>4, <1>5 DEF Sound

--------------------------------------------------------------------------------
(* What is left of an order that nothing crosses may take its price.       *)
LEMMA RestingUncrossed ==
    ASSUME NEW own, Sound(own), Resting,
           DOMAIN levels'[call.side] \subseteq DOMAIN levels[call.side] \cup {call.price},
           DOMAIN levels'[Opposite(call.side)] \subseteq DOMAIN levels[Opposite(call.side)]
    PROVE  Uncrossed'
<1>1. PICK side : side = Opposite(call.side)
  OBVIOUS
<1>2. /\ call \in Calls /\ call.side \in Sides /\ side \in Sides /\ side # call.side /\ call.price \in Int
      /\ Kept(levels, node_pool, next_sequence, own)
  BY <1>1, PricesAssumption DEF Resting, Sound, CallSound, Calls, Sides, Opposite
<1>3. ASSUME NEW p \in DOMAIN levels[side]
      PROVE  IF call.side = "Buy" THEN call.price < p ELSE p < call.price
  <2>1. PICK best : best = Best(side)
    OBVIOUS
  <2>2. DOMAIN levels[side] # {} /\ DOMAIN levels[side] \subseteq Int
    BY <1>2, KeptFacts
  <2>3. /\ best \in DOMAIN levels[side]
        /\ \A t \in DOMAIN levels[side] : IF side = "Buy" THEN t <= best ELSE best <= t
    BY <1>2, <2>1, <2>2, BestIsBest
  <2>4. ~(IF call.side = "Buy" THEN best <= call.price ELSE best >= call.price)
    BY <1>1, <2>1, <2>2 DEF Resting, Crosses
  <2> QED
    BY <1>2, <2>2, <2>3, <2>4 DEF Sides
<1>4. /\ DOMAIN levels["Buy"] \subseteq Int /\ DOMAIN levels["Sell"] \subseteq Int
  BY <1>2, KeptFacts DEF Sides
<1> QED
  BY <1>1, <1>2, <1>3, <1>4 DEF Uncrossed, Sound, Sides

(* The remainder joins the book, and its location is recorded or not.      *)
LEMMA JoinStep ==
    ASSUME NEW own, Sound(own), Resting,
           NEW r, r = push_back(node_pool, LevelAt(call.side, call.price), Remainder),
           node_pool' = r.pool,
           levels' = [levels EXCEPT ![call.side] = With(levels[call.side], call.price, r.level)],
           next_sequence' = next_sequence + 1, call' = Null, trades' = trades \/ trades' = <<>>,
           \/ locations' = With(locations, call.id, [side |-> call.side, price |-> call.price, node |-> r.node])
           \/ AllocationFails /\ locations' = locations
    PROVE  \E node, own2 : NodeJoined(own, call.side, node, Remainder, own2) /\ Sound(own2)'
<1>1. PICK side, p, order, level, pl, lv, S2, own2, locs2 :
         /\ side = call.side /\ p = call.price /\ order = Remainder /\ level = LevelIn(levels[side], p)
         /\ pl = node_pool /\ lv = levels /\ S2 = own[side] \cup {r.node} /\ own2 = Put(own, side, S2)
         /\ locs2 = With(locations, order.id, [side |-> side, price |-> order.price, node |-> r.node])
  OBVIOUS
<1>2. /\ call \in Calls /\ call.id \notin DOMAIN locations /\ side \in Sides /\ p \in Prices
      /\ next_sequence \in Nat /\ call.remaining \in Nat \ {0}
  BY <1>1 DEF Resting, Sound, CallSound, Calls, Kept
<1>3. /\ order \in RestingOrders /\ order.price = p /\ order.id = call.id /\ order.sequence = next_sequence
  BY <1>1, <1>2 DEF Remainder, RestingOrders, Calls
<1>4. r = push_back(pl, level, order) /\ levels' = Put(lv, side, With(lv[side], p, r.level))
  BY <1>1 DEF LevelAt, LevelIn, Put
<1>5. /\ Kept(lv, pl, next_sequence, own) /\ Located(locations, pl, own)
      /\ ~AllocationFails => Found(locations, pl, own) /\ NoEmptyLevel(lv)
  BY <1>1 DEF Sound
<1>6. /\ Kept(levels', node_pool', next_sequence', own2)
      /\ Pushed(pl, Used(own), At(pl.block, own[side], p), order, r)
  <2>1. /\ Kept(lv, pl, next_sequence, own) /\ side \in Sides /\ order \in RestingOrders
        /\ order.sequence = next_sequence /\ p = order.price
        /\ level = LevelIn(lv[side], p) /\ r = push_back(pl, level, order) /\ S2 = own[side] \cup {r.node}
    BY <1>1, <1>2, <1>3, <1>4, <1>5
  <2>2. /\ Kept(Put(lv, side, With(lv[side], p, r.level)), r.pool, next_sequence + 1, Put(own, side, S2))
        /\ Pushed(pl, Used(own), At(pl.block, own[side], p), order, r)
    BY <2>1, OrderJoins
  <2> QED
    BY <2>2, <1>1, <1>4
<1>7. /\ Located(locations, node_pool', own2) /\ Located(locs2, node_pool', own2)
      /\ Found(locations, pl, own) => Found(locs2, node_pool', own2)
  <2>1. /\ SameOrders(pl, node_pool', Used(own)) /\ r.node \in Nat /\ r.node \notin Used(own)
        /\ node_pool'.block[r.node].order = order
    BY <1>6 DEF Pushed, SameOrders
  <2>2. own \in [Sides -> SUBSET Nat] /\ order.id \notin DOMAIN locations
    BY <1>2, <1>3, <1>5 DEF Kept
  <2>3. /\ Located(locations, node_pool', Put(own, side, S2))
        /\ Located(locs2, node_pool', Put(own, side, S2))
        /\ Found(locations, pl, own) /\ order.id \notin DOMAIN locations => Found(locs2, node_pool', Put(own, side, S2))
    BY <2>1, <2>2, <1>1, <1>2, <1>3, <1>5, LocationJoins
  <2> QED
    BY <2>2, <2>3, <1>1
<1>8. locations' = locs2 \/ (AllocationFails /\ locations' = locations)
  BY <1>1, <1>3
<1>9. NoEmptyLevel(lv) => NoEmptyLevel(levels')
  <2>1. PICK level2, map2 : level2 = r.level /\ map2 = With(lv[side], p, r.level)
    OBVIOUS
  <2>2. DOMAIN lv = Sides /\ level2.head # Null /\ map2 = With(lv[side], p, level2)
    BY <2>1, <1>5, <1>6 DEF Kept, Pushed
  <2>3. NoEmptyLevel(lv) => NoEmptyLevel(Put(lv, side, map2))
    BY <2>2, <1>2, LevelsStayFilled
  <2> QED
    BY <2>1, <2>3, <1>4
<1>10. Uncrossed'
  <2>1. DOMAIN levels = Sides /\ call.side \in Sides /\ Opposite(call.side) # call.side /\ Opposite(call.side) \in Sides
    BY <1>1, <1>2, <1>5 DEF Kept, Sides, Opposite
  <2>2. /\ DOMAIN levels'[call.side] \subseteq DOMAIN levels[call.side] \cup {call.price}
        /\ DOMAIN levels'[Opposite(call.side)] \subseteq DOMAIN levels[Opposite(call.side)]
    BY <2>1 DEF With
  <2> QED
    BY <2>2, RestingUncrossed
<1>11. TradesSound' /\ CallSound'
  BY <1>2, CallEnds DEF Sound
<1>12. Sound(own2)'
  BY <1>5, <1>6, <1>7, <1>8, <1>9, <1>10, <1>11 DEF Sound
<1>13. NodeJoined(own, side, r.node, order, own2)
  BY <1>1, <1>6 DEF NodeJoined, Pushed, SameOrders
<1> QED
  BY <1>1, <1>12, <1>13


LEMMA RestStep ==
    ASSUME NEW own, Sound(own), Rest \/ LocationThrows
    PROVE  \E node, own2 : NodeJoined(own, call.side, node, Remainder, own2) /\ Sound(own2)'
<1>1. PICK r : r = push_back(node_pool, LevelAt(call.side, call.price), Remainder)
  OBVIOUS
<1>2. CASE Rest
  <2>1. /\ Resting /\ node_pool' = r.pool
        /\ levels' = [levels EXCEPT ![call.side] = With(levels[call.side], call.price, r.level)]
        /\ next_sequence' = next_sequence + 1 /\ call' = Null /\ trades' = trades
        /\ locations' = With(locations, call.id, [side |-> call.side, price |-> call.price, node |-> r.node])
    BY <1>1, <1>2 DEF Rest
  <2> QED
    BY <1>1, <2>1, JoinStep
<1>3. CASE LocationThrows
  <2>1. /\ Resting /\ node_pool' = r.pool
        /\ levels' = [levels EXCEPT ![call.side] = With(levels[call.side], call.price, r.level)]
        /\ next_sequence' = next_sequence + 1 /\ call' = Null /\ trades' = <<>>
        /\ AllocationFails /\ locations' = locations
    BY <1>1, <1>3 DEF LocationThrows, Throw
  <2> QED
    BY <1>1, <2>1, JoinStep
<1> QED
  BY <1>2, <1>3

(* The pool cannot grow: the new level stays without orders.               *)
LEMMA NodeThrowsStep ==
    ASSUME NEW own, Sound(own), NodeThrows
    PROVE  Sound(own)'
<1>1. PICK side, p, level, map2 :
         /\ side = call.side /\ p = call.price /\ level = LevelIn(levels[side], p)
         /\ map2 = With(levels[side], p, level)
  OBVIOUS
<1>2. /\ Resting /\ call \in Calls /\ side \in Sides /\ p \in Prices /\ next_sequence \in Nat
      /\ Kept(levels, node_pool, next_sequence, own)
  BY <1>1 DEF NodeThrows, Resting, Sound, CallSound, Calls, Kept
<1>3. /\ levels' = Put(levels, side, map2) /\ UNCHANGED <<locations, node_pool>> /\ AllocationFails
      /\ call' = Null /\ trades' = <<>> /\ next_sequence' = next_sequence + 1
  BY <1>1 DEF NodeThrows, Throw, LevelAt, LevelIn, Put
<1>4. Kept(levels', node_pool', next_sequence', own)
  <2>1. Kept(Put(levels, side, map2), node_pool, next_sequence, own)
    BY <1>1, <1>2, LevelAlone
  <2> QED
    BY <2>1, <1>3, NumberTaken
<1>5. Uncrossed'
  <2>1. DOMAIN levels = Sides /\ Opposite(side) # side /\ Opposite(side) \in Sides
    BY <1>2 DEF Kept, Sides, Opposite
  <2>2. /\ DOMAIN levels'[call.side] \subseteq DOMAIN levels[call.side] \cup {call.price}
        /\ DOMAIN levels'[Opposite(call.side)] \subseteq DOMAIN levels[Opposite(call.side)]
    BY <2>1, <1>1, <1>2, <1>3 DEF With, Put
  <2> QED
    BY <1>2, <2>2, RestingUncrossed
<1>6. TradesSound' /\ CallSound'
  BY <1>2, <1>3, CallEnds DEF Sound
<1> QED
  BY <1>3, <1>4, <1>5, <1>6 DEF Sound

(* cancel_order.                                                           *)
LEMMA CancelStep ==
    ASSUME NEW own, Sound(own), NEW id \in OrderIds, Cancel(id)
    PROVE  \E side \in Sides : \E node, own2 :
              /\ node \in own[side] /\ node_pool.block[node].order.id = id
              /\ NodeLeft(own, side, node, own2) /\ Sound(own2)'
<1>1. PICK loc, side, p, node, pl, lv, r, S2, own2 :
         /\ loc = locations[id] /\ side = loc.side /\ p = loc.price /\ node = loc.node
         /\ pl = node_pool /\ lv = levels /\ r = erase(pl, lv[side][p], node)
         /\ S2 = own[side] \ {node} /\ own2 = Put(own, side, S2)
  OBVIOUS
<1>2. /\ Kept(lv, pl, next_sequence, own) /\ Located(locations, pl, own)
      /\ ~AllocationFails => Found(locations, pl, own) /\ NoEmptyLevel(lv)
  BY <1>1 DEF Sound
<1>3. /\ id \in DOMAIN locations /\ side \in Sides /\ node \in own[side]
      /\ id = pl.block[node].order.id /\ p = pl.block[node].order.price
  BY <1>1, <1>2 DEF Cancel, Located
<1>4. /\ node_pool' = r.pool /\ levels' = Put(lv, side, Stored(lv[side], p, r.level))
      /\ locations' = Without(locations, id)
      /\ next_sequence' = next_sequence /\ call' = call /\ call = Null /\ trades' = <<>>
  BY <1>1 DEF Cancel, Idle, Put
<1>5. /\ Kept(levels', node_pool', next_sequence', own2)
      /\ Erased(pl, Used(own), At(pl.block, own[side], p), node, r)
  <2>1. /\ Kept(lv, pl, next_sequence, own) /\ side \in Sides /\ node \in own[side]
        /\ p = pl.block[node].order.price /\ r = erase(pl, lv[side][p], node) /\ S2 = own[side] \ {node}
    BY <1>1, <1>2, <1>3
  <2>2. /\ Kept(Put(lv, side, Stored(lv[side], p, r.level)), r.pool, next_sequence, Put(own, side, S2))
        /\ Erased(pl, Used(own), At(pl.block, own[side], p), node, r)
    BY <2>1, OrderLeaves
  <2> QED
    BY <2>2, <1>1, <1>4
<1>6. /\ Located(locations', node_pool', own2)
      /\ Found(locations, pl, own) => Found(locations', node_pool', own2)
  <2>1. SameOrders(pl, r.pool, Used(own) \ {node})
    BY <1>5 DEF Erased, SameOrders
  <2>2. own \in [Sides -> SUBSET Nat] /\ own["Buy"] \cap own["Sell"] = {}
    BY <1>2 DEF Kept
  <2>3. /\ Located(Without(locations, id), r.pool, Put(own, side, S2))
        /\ Found(locations, pl, own) => Found(Without(locations, id), r.pool, Put(own, side, S2))
    BY <2>1, <2>2, <1>1, <1>2, <1>3, LocationLeaves, ZenonT(60)
  <2> QED
    BY <2>3, <1>1, <1>4
<1>7. NoEmptyLevel(lv) => NoEmptyLevel(levels')
  <2>1. PICK level2, map2 : level2 = r.level /\ map2 = Stored(lv[side], p, r.level)
    OBVIOUS
  <2>2. DOMAIN lv = Sides /\ map2 = Stored(lv[side], p, level2)
    BY <2>1, <1>2 DEF Kept
  <2>3. NoEmptyLevel(lv) => NoEmptyLevel(Put(lv, side, map2))
    BY <2>2, <1>3, LevelsStayFilled
  <2> QED
    BY <2>1, <2>3, <1>4
<1>8. Uncrossed'
  <2>1. p \in DOMAIN lv[side]
    BY <1>2, <1>3, KeptFacts
  <2>2. \A t \in Sides : DOMAIN levels'[t] \subseteq DOMAIN levels[t]
    BY <2>1, <1>1, <1>2, <1>3, <1>4 DEF Put, Stored, With, Without, Restrict, Kept
  <2> QED
    BY <2>2 DEF Uncrossed, Sound, Sides
<1>9. TradesSound' /\ CallSound'
  <2>1. next_sequence \in Nat /\ TradesSound
    BY <1>2 DEF Kept, Sound
  <2> QED
    BY <2>1, <1>4, CallEnds
<1>10. Sound(own2)'
  BY <1>2, <1>5, <1>6, <1>7, <1>8, <1>9 DEF Sound
<1>11. NodeLeft(own, side, node, own2)
  BY <1>1, <1>4, <1>5 DEF NodeLeft, Erased, SameOrders
<1> QED
  BY <1>1, <1>3, <1>10, <1>11

--------------------------------------------------------------------------------
(* Folds.  The provers take no operator as an argument of a lemma, so what *)
(* the book folds with has a name here: it adds up quantities, and returns *)
(* nodes and levels to the pool.                                           *)
Made(op, value, x) ==
    CASE op = "add"          -> value + x
      [] op = "add before"   -> x + value
      [] op = "return node"  -> deallocate(value, x)
      [] op = "return level" -> FoldLeft(deallocate, value, Nodes(value, x))

(* The folds of the community modules recurse through a function on the    *)
(* subsets of what they fold over: w is this function on the set s.        *)
FoldAt(op, w, base, f, pick, s) ==
    IF s = {} THEN base ELSE Made(op, w[s \ {pick[s]}], f[pick[s]])
FoldsTo(op, w, base, f, pick, S) == w = [s \in SUBSET S |-> FoldAt(op, w, base, f, pick, s)]
FoldsUpTo(op, w, base, f, pick, S, k) ==
    \A s \in SUBSET S : Cardinality(s) <= k => w[s] = FoldAt(op, w, base, f, pick, s)
Picks(pick, S) == \A s \in SUBSET S : s # {} => pick[s] \in s

LEMMA OneElementLess ==
    ASSUME NEW S, IsFiniteSet(S), NEW s \in SUBSET S, NEW x \in s
    PROVE  /\ IsFiniteSet(s) /\ Cardinality(s) \in Nat /\ Cardinality(s) > 0
           /\ s \ {x} \in SUBSET S /\ Cardinality(s \ {x}) = Cardinality(s) - 1
BY FS_Subset, FS_RemoveElement, FS_CardinalityType, FS_EmptySet

(* It exists on the sets of k + 1 elements when it does on those of k.     *)
LEMMA FoldExtends ==
    ASSUME NEW op, NEW base, NEW f, NEW pick, NEW S, IsFiniteSet(S), Picks(pick, S),
           NEW k \in Nat, NEW w, FoldsUpTo(op, w, base, f, pick, S, k)
    PROVE  \E h : FoldsUpTo(op, h, base, f, pick, S, k + 1)
<1> DEFINE h == [s \in SUBSET S |-> IF Cardinality(s) <= k THEN w[s] ELSE FoldAt(op, w, base, f, pick, s)]
<1>1. ASSUME NEW s \in SUBSET S, Cardinality(s) <= k + 1
      PROVE  h[s] = FoldAt(op, h, base, f, pick, s)
  <2>1. CASE s = {}
    BY <2>1 DEF FoldsUpTo, FoldAt
  <2>2. CASE s # {}
    <3>1. PICK e : e = pick[s]
      OBVIOUS
    <3>2. /\ Cardinality(s) \in Nat /\ s \ {e} \in SUBSET S
          /\ Cardinality(s \ {e}) = Cardinality(s) - 1
      BY <2>2, <3>1, OneElementLess DEF Picks
    <3>3. h[s \ {e}] = w[s \ {e}]
      BY <3>2, <1>1
    <3>4. h[s] = FoldAt(op, w, base, f, pick, s)
      BY <1>1 DEF FoldsUpTo
    <3> QED
      BY <2>2, <3>1, <3>3, <3>4 DEF FoldAt
  <2> QED
    BY <2>1, <2>2
<1> HIDE DEF h
<1>2. FoldsUpTo(op, h, base, f, pick, S, k + 1)
  BY <1>1 DEF FoldsUpTo
<1> QED
  BY <1>2

LEMMA FoldExists ==
    ASSUME NEW op, NEW base, NEW f, NEW pick, NEW S, IsFiniteSet(S), Picks(pick, S)
    PROVE  \E w : FoldsTo(op, w, base, f, pick, S)
<1> DEFINE Fails == {k \in Nat : ~ \E w : FoldsUpTo(op, w, base, f, pick, S, k)}
<1>1. Fails = {}
  <2> SUFFICES ASSUME Fails # {} PROVE FALSE
    OBVIOUS
  <2>1. PICK k \in Fails : \A m \in Fails : k <= m
    <3>1. Fails \subseteq Nat
      OBVIOUS
    <3> HIDE DEF Fails
    <3> QED
      BY <3>1, LeastNatural
  <2>2. k # 0
    <3>1. PICK w : w = [s \in SUBSET S |-> base]
      OBVIOUS
    <3>2. \A s \in SUBSET S : Cardinality(s) <= 0 => s = {}
      BY FS_Subset, FS_CardinalityType, FS_EmptySet
    <3>3. FoldsUpTo(op, w, base, f, pick, S, 0)
      BY <3>1, <3>2 DEF FoldsUpTo, FoldAt
    <3> QED
      BY <2>1, <3>3
  <2>3. k - 1 \in Nat /\ k - 1 \notin Fails
    <3>1. k \in Nat
      BY <2>1
    <3>2. k - 1 \in Nat /\ ~(k <= k - 1)
      BY <2>2, <3>1
    <3> HIDE DEF Fails
    <3> QED
      BY <2>1, <3>2
  <2>4. PICK w : FoldsUpTo(op, w, base, f, pick, S, k - 1)
    BY <2>3
  <2>5. \E h : FoldsUpTo(op, h, base, f, pick, S, (k - 1) + 1)
    BY <2>3, <2>4, FoldExtends
  <2>6. (k - 1) + 1 = k
    BY <2>3
  <2> QED
    BY <2>1, <2>5, <2>6
<1>2. Cardinality(S) \in Nat
  BY FS_CardinalityType
<1>3. PICK w : FoldsUpTo(op, w, base, f, pick, S, Cardinality(S))
  BY <1>1, <1>2
<1> DEFINE h == [s \in SUBSET S |-> w[s]]
<1>4. ASSUME NEW s \in SUBSET S PROVE h[s] = FoldAt(op, h, base, f, pick, s)
  <2>1. h[s] = FoldAt(op, w, base, f, pick, s)
    BY <1>3, FS_Subset DEF FoldsUpTo
  <2>2. s # {} => s \ {pick[s]} \in SUBSET S
    OBVIOUS
  <2> QED
    BY <2>1, <2>2 DEF FoldAt
<1>5. FoldsTo(op, h, base, f, pick, S)
  BY <1>4 DEF FoldsTo
<1> QED
  BY <1>5

(* A fold along a sequence takes its elements from the first on.           *)
LastOf(n) == [s \in SUBSET (1 .. n) |-> Max(s)]
FoldsAlong(op, w, base, x, n) == FoldsTo(op, w, base, x, LastOf(n), 1 .. n)
Along(op, h, base, x, n) ==
    DOMAIN h = 0 .. n /\ h[0] = base /\ \A k \in 1 .. n : h[k] = Made(op, h[k - 1], x[k])

LEMMA LastOfPrefix ==
    ASSUME NEW n \in Nat, NEW k \in 1 .. n, NEW s, s = 1 .. k
    PROVE  s \in SUBSET (1 .. n) /\ s # {} /\ Max(s) = k /\ s \ {k} = 1 .. k - 1
<1>1. k \in s /\ (\A y \in s : k >= y) /\ s \subseteq Int
  OBVIOUS
<1>2. \A m \in s : (\A y \in s : m >= y) => m = k
  BY <1>1
<1>3. Max(s) = k
  BY <1>1, <1>2 DEF Max
<1> QED
  BY <1>1, <1>3

LEMMA LastIsPicked ==
    ASSUME NEW n \in Nat
    PROVE  IsFiniteSet(1 .. n) /\ Picks(LastOf(n), 1 .. n)
<1>1. IsFiniteSet(1 .. n)
  BY 1 \in Int, n \in Int, FS_Interval
<1>2. ASSUME NEW s \in SUBSET (1 .. n), s # {} PROVE Max(s) \in s
  <2>1. IsFiniteSet(s)
    BY <1>1, FS_Subset
  <2>2. s \subseteq Int
    OBVIOUS
  <2> QED
    BY <1>2, <2>1, <2>2, FiniteExtremes
<1> QED
  BY <1>1, <1>2 DEF Picks, LastOf

LEMMA PrefixesFold ==
    ASSUME NEW op, NEW base, NEW x, NEW n \in Nat, NEW w, FoldsAlong(op, w, base, x, n)
    PROVE  \E h : Along(op, h, base, x, n) /\ h[n] = w[1 .. n]
<1>1. ASSUME NEW s \in SUBSET (1 .. n) PROVE w[s] = FoldAt(op, w, base, x, LastOf(n), s)
  <2>1. PICK g : g = [u \in SUBSET (1 .. n) |-> FoldAt(op, w, base, x, LastOf(n), u)]
    OBVIOUS
  <2> QED
    BY <2>1 DEF FoldsAlong, FoldsTo
<1> DEFINE h == [k \in 0 .. n |-> w[1 .. k]]
<1>2. h[0] = base
  <2>1. 1 .. 0 = {} /\ {} \in SUBSET (1 .. n) /\ 0 \in 0 .. n
    OBVIOUS
  <2>2. w[{}] = base
    BY <1>1, <2>1 DEF FoldAt
  <2> QED
    BY <2>1, <2>2
<1>3. ASSUME NEW k \in 1 .. n PROVE h[k] = Made(op, h[k - 1], x[k])
  <2>1. PICK s : s = 1 .. k
    OBVIOUS
  <2>2. s \in SUBSET (1 .. n) /\ s # {} /\ Max(s) = k /\ s \ {k} = 1 .. k - 1
    BY <2>1, LastOfPrefix
  <2>3. w[s] = FoldAt(op, w, base, x, LastOf(n), s) /\ LastOf(n)[s] = k
    BY <1>1, <2>2 DEF LastOf
  <2>4. w[s] = Made(op, w[1 .. k - 1], x[k])
    BY <2>2, <2>3 DEF FoldAt
  <2>5. k \in 0 .. n /\ k - 1 \in 0 .. n
    OBVIOUS
  <2> QED
    BY <2>1, <2>4, <2>5
<1>4. n \in 0 .. n
  OBVIOUS
<1>5. Along(op, h, base, x, n)
  BY <1>2, <1>3 DEF Along
<1> QED
  BY <1>4, <1>5

(* FoldLeft of the community modules is such a fold.                       *)
LEMMA NodesReturned ==
    ASSUME NEW pl, NEW n \in Nat, NEW q, DOMAIN q = 1 .. n
    PROVE  \E h : Along("return node", h, pl, q, n) /\ h[n] = FoldLeft(deallocate, pl, q)
<1> DEFINE S == 1 .. n
           Solves(g) == g = [s \in SUBSET S |-> IF s = {} THEN pl ELSE deallocate(g[s \ {Max(s)}], q[Max(s)])]
<1>1. ASSUME NEW g PROVE Solves(g) <=> FoldsTo("return node", g, pl, q, LastOf(n), S)
  <2>1. ASSUME NEW s \in SUBSET S
        PROVE  FoldAt("return node", g, pl, q, LastOf(n), s) =
                 IF s = {} THEN pl ELSE deallocate(g[s \ {Max(s)}], q[Max(s)])
    BY Zenon DEF FoldAt, Made, LastOf
  <2> QED
    BY <2>1 DEF FoldsTo
<1>2. PICK w : FoldsTo("return node", w, pl, q, LastOf(n), S)
  BY LastIsPicked, FoldExists
<1>3. PICK g : g = CHOOSE v : Solves(v)
  OBVIOUS
<1>4. FoldLeft(deallocate, pl, q) = g[S]
  BY <1>3 DEF FoldLeft, MapThenFoldSet
<1>5. FoldsTo("return node", g, pl, q, LastOf(n), S)
  <2>1. Solves(w)
    BY <1>1, <1>2
  <2> HIDE DEF Solves
  <2>2. Solves(g)
    BY <1>3, <2>1
  <2> QED
    BY <1>1, <2>2
<1>6. PICK h : Along("return node", h, pl, q, n) /\ h[n] = g[1 .. n]
  <2>1. PICK op : op = "return node"
    OBVIOUS
  <2>2. FoldsAlong(op, g, pl, q, n)
    BY <1>5, <2>1 DEF FoldsAlong
  <2>3. \E h : Along(op, h, pl, q, n) /\ h[n] = g[1 .. n]
    BY <2>2, PrefixesFold
  <2> QED
    BY <2>1, <2>3
<1> QED
  BY <1>4, <1>6

LEMMA LevelsReturned ==
    ASSUME NEW pl, NEW n \in Nat, NEW q, DOMAIN q = 1 .. n
    PROVE  \E h : /\ Along("return level", h, pl, q, n)
                  /\ h[n] = FoldLeft(LAMBDA p, level : FoldLeft(deallocate, p, Nodes(p, level)), pl, q)
<1> DEFINE S == 1 .. n
           Returned(p, level) == FoldLeft(deallocate, p, Nodes(p, level))
           Solves(g) == g = [s \in SUBSET S |-> IF s = {} THEN pl ELSE Returned(g[s \ {Max(s)}], q[Max(s)])]
<1>1. ASSUME NEW g PROVE Solves(g) <=> FoldsTo("return level", g, pl, q, LastOf(n), S)
  <2>1. ASSUME NEW s \in SUBSET S
        PROVE  FoldAt("return level", g, pl, q, LastOf(n), s) =
                 IF s = {} THEN pl ELSE Returned(g[s \ {Max(s)}], q[Max(s)])
    BY Zenon DEF FoldAt, Made, LastOf
  <2> QED
    BY <2>1 DEF FoldsTo
<1>2. PICK w : FoldsTo("return level", w, pl, q, LastOf(n), S)
  BY LastIsPicked, FoldExists
<1>3. PICK g : g = CHOOSE v : Solves(v)
  OBVIOUS
<1>4. FoldLeft(LAMBDA p, level : FoldLeft(deallocate, p, Nodes(p, level)), pl, q) = g[S]
  BY <1>3 DEF FoldLeft, MapThenFoldSet
<1>5. FoldsTo("return level", g, pl, q, LastOf(n), S)
  <2>1. Solves(w)
    BY <1>1, <1>2
  <2> HIDE DEF Solves
  <2>2. Solves(g)
    BY <1>3, <2>1
  <2> QED
    BY <1>1, <2>2
<1>6. PICK h : Along("return level", h, pl, q, n) /\ h[n] = g[1 .. n]
  <2>1. PICK op : op = "return level"
    OBVIOUS
  <2>2. FoldsAlong(op, g, pl, q, n)
    BY <1>5, <2>1 DEF FoldsAlong
  <2>3. \E h : Along(op, h, pl, q, n) /\ h[n] = g[1 .. n]
    BY <2>2, PrefixesFold
  <2> QED
    BY <2>1, <2>3
<1> QED
  BY <1>4, <1>6

(* S is what is to be returned of the blocks in use.                       *)
GivenBack(pl, used, S, p) == PoolOf(OrderNodes, p, used \ S) /\ Same(pl.block, p.block, used \ S)

(* All the nodes of a level are returned, and the others stay as they are. *)
LEMMA LevelGivenBack ==
    ASSUME NEW pl, NEW used, PoolOf(OrderNodes, pl, used),
           NEW level, NEW S, S \subseteq used, LevelOf(pl.block, level, S)
    PROVE  GivenBack(pl, used, S, FoldLeft(deallocate, pl, Nodes(pl, level)))
<1>1. PICK n, q : n = Cardinality(S) /\ q = Nodes(pl, level)
  OBVIOUS
<1>2. n \in Nat /\ InOrder(pl.block, S, q, n) /\ Null \notin S
  <2>1. /\ pl.total_capacity \in Nat /\ IsFiniteSet(used) /\ Cardinality(used) <= pl.total_capacity
        /\ Null \notin used
    BY PoolOfFacts
  <2>2. IsFiniteSet(S) /\ Cardinality(S) <= Cardinality(used) /\ Cardinality(S) \in Nat /\ Cardinality(used) \in Nat
    BY <2>1, FS_Subset, FS_CardinalityType
  <2>3. PICK cap \in Nat : cap = pl.total_capacity
    BY <2>1
  <2>4. Cardinality(S) <= cap /\ Null \notin S
    BY <2>1, <2>2, <2>3
  <2> QED
    BY <1>1, <2>2, <2>3, <2>4, WalkInOrder
<1>3. /\ q \in [1 .. n -> S] /\ DOMAIN q = 1 .. n
      /\ \A b \in S : \E i \in 1 .. n : q[i] = b
      /\ \A i, j \in 1 .. n : q[i] = q[j] => i = j
  <2>1. PICK block : block = pl.block
    OBVIOUS
  <2>2. \A i, j \in 1 .. n : q[i] = q[j] => i = j
    BY <1>2, <2>1, LinksInOrder
  <2>3. q \in [1 .. n -> S] /\ \A b \in S : \E i \in 1 .. n : q[i] = b
    BY <1>2, <2>1, SMTT(30) DEF InOrder
  <2>4. DOMAIN q = 1 .. n
    BY <2>3
  <2> QED
    BY <2>2, <2>3, <2>4, Zenon
<1>4. PICK h : Along("return node", h, pl, q, n) /\ h[n] = FoldLeft(deallocate, pl, q)
  <2>1. n \in Nat
    BY <1>2
  <2>2. DOMAIN q = 1 .. n
    BY <1>3
  <2> QED
    BY <2>1, <2>2, NodesReturned, ZenonT(60)
<1>5. h[0] = pl /\ \A k \in 1 .. n : h[k] = deallocate(h[k - 1], q[k])
  BY <1>4 DEF Along, Made
<1> DEFINE upTo(k) == {q[i] : i \in 1 .. k}
           Fails == {k \in 0 .. n : ~GivenBack(pl, used, upTo(k), h[k])}
<1>6. Fails = {}
  <2> SUFFICES ASSUME Fails # {} PROVE FALSE
    OBVIOUS
  <2>1. PICK k \in Fails : \A m \in Fails : k <= m
    <3>1. Fails \subseteq Nat
      BY <1>2
    <3> HIDE DEF Fails
    <3> QED
      BY <3>1, LeastNatural
  <2>2. k \in 0 .. n /\ ~GivenBack(pl, used, upTo(k), h[k])
    BY <2>1
  <2>3. k - 1 \in 0 .. n => GivenBack(pl, used, upTo(k - 1), h[k - 1])
    <3>1. k - 1 \in 0 .. n => k - 1 \notin Fails
      <4>1. ~(k <= k - 1)
        BY <1>2, <2>2
      <4> HIDE DEF Fails
      <4> QED
        BY <2>1, <4>1
    <3> QED
      BY <3>1
  <2> HIDE DEF Fails
  <2>4. k # 0
    <3> SUFFICES ASSUME k = 0 PROVE FALSE
      OBVIOUS
    <3>1. upTo(0) = {} /\ used \ {} = used
      OBVIOUS
    <3>2. GivenBack(pl, used, upTo(0), h[0])
      BY <3>1, <1>5 DEF GivenBack, Same
    <3> QED
      BY <2>2, <3>2
  <2>5. k \in 1 .. n /\ k - 1 \in 0 .. n
    BY <1>2, <2>2, <2>4
  <2>6. PICK b, p, r, back : b = q[k] /\ p = h[k - 1] /\ r = h[k] /\ back = upTo(k - 1)
    OBVIOUS
  <2>7. upTo(k) = back \cup {b} /\ b \in used \ back
    <3>1. \A i \in 1 .. k : i \in 1 .. n /\ (i = k \/ i \in 1 .. k - 1)
      BY <1>2, <2>5
    <3>2. \A i \in 1 .. k - 1 : i \in 1 .. k /\ i \in 1 .. n /\ i # k
      BY <1>2, <2>5
    <3>3. k \in 1 .. k
      BY <2>5
    <3>4. upTo(k) = back \cup {b}
      BY <2>6, <3>1, <3>2, <3>3
    <3>5. b \in used /\ b \notin back
      BY <2>5, <2>6, <3>2, <1>3
    <3> QED
      BY <3>4, <3>5
  <2>8. PoolOf(OrderNodes, p, used \ back) /\ Same(pl.block, p.block, used \ back)
    BY <2>3, <2>5, <2>6 DEF GivenBack
  <2>9. r = deallocate(p, b)
    BY <1>5, <2>5, <2>6
  <2>10. PICK left : left = used \ back
    OBVIOUS
  <2>11. PoolOf(OrderNodes, r, left \ {b}) /\ \A c \in left \ {b} : r.block[c] = p.block[c]
    <3>1. PICK objects : objects = OrderNodes
      OBVIOUS
    <3>2. PoolOf(objects, p, left) /\ b \in left
      BY <2>7, <2>8, <2>10, <3>1
    <3>3. PoolOf(objects, r, left \ {b}) /\ \A c \in left \ {b} : r.block[c] = p.block[c]
      BY <2>9, <3>2, DeallocatedPool
    <3> QED
      BY <3>1, <3>3
  <2>12. left \ {b} = used \ upTo(k)
    BY <2>7, <2>10
  <2>13. GivenBack(pl, used, upTo(k), r)
    <3>1. PICK u : u = upTo(k)
      OBVIOUS
    <3>2. Same(pl.block, r.block, used \ u)
      BY <2>8, <2>10, <2>11, <2>12, <3>1 DEF Same
    <3> QED
      BY <2>11, <2>12, <3>1, <3>2 DEF GivenBack
  <2> QED
    BY <2>2, <2>6, <2>13
<1>7. n \in 0 .. n /\ upTo(n) = S
  BY <1>2, <1>3
<1> QED
  BY <1>1, <1>4, <1>6, <1>7

(* The levels in a row: the k-th has the nodes of(k).                       *)
LevelsInRow(pl, used, lists, of, n) ==
    /\ DOMAIN lists = 1 .. n /\ DOMAIN of = 1 .. n
    /\ \A k \in 1 .. n : of[k] \subseteq used /\ LevelOf(pl.block, lists[k], of[k])
    /\ \A i, j \in 1 .. n : i # j => of[i] \cap of[j] = {}

LevelsFreed(pl, lists) == FoldLeft(LAMBDA p, level : FoldLeft(deallocate, p, Nodes(p, level)), pl, lists)

LEMMA LevelsGivenBack ==
    ASSUME NEW pl, NEW used, PoolOf(OrderNodes, pl, used),
           NEW n \in Nat, NEW lists, NEW of, LevelsInRow(pl, used, lists, of, n),
           NEW all, all = UNION {of[i] : i \in 1 .. n},
           NEW back, back = LevelsFreed(pl, lists)
    PROVE  GivenBack(pl, used, all, back)
<1>1. /\ DOMAIN lists = 1 .. n
      /\ \A k \in 1 .. n : of[k] \subseteq used /\ LevelOf(pl.block, lists[k], of[k])
      /\ \A i, j \in 1 .. n : i # j => of[i] \cap of[j] = {}
  BY DEF LevelsInRow
<1>2. PICK h : /\ Along("return level", h, pl, lists, n)
               /\ h[n] = LevelsFreed(pl, lists)
  BY <1>1, LevelsReturned DEF LevelsFreed
<1>3. h[0] = pl /\ \A k \in 1 .. n : h[k] = FoldLeft(deallocate, h[k - 1], Nodes(h[k - 1], lists[k]))
  BY <1>2, Zenon DEF Along, Made
<1> DEFINE upTo(k) == UNION {of[i] : i \in 1 .. k}
           Fails == {k \in 0 .. n : ~GivenBack(pl, used, upTo(k), h[k])}
<1>6. Fails = {}
  <2> SUFFICES ASSUME Fails # {} PROVE FALSE
    OBVIOUS
  <2>1. PICK k \in Fails : \A m \in Fails : k <= m
    <3>1. Fails \subseteq Nat
      OBVIOUS
    <3> HIDE DEF Fails
    <3> QED
      BY <3>1, LeastNatural
  <2>2. k \in 0 .. n /\ ~GivenBack(pl, used, upTo(k), h[k])
    BY <2>1
  <2>3. k - 1 \in 0 .. n => GivenBack(pl, used, upTo(k - 1), h[k - 1])
    <3>1. k - 1 \in 0 .. n => k - 1 \notin Fails
      <4>1. ~(k <= k - 1)
        BY <2>2
      <4> HIDE DEF Fails
      <4> QED
        BY <2>1, <4>1
    <3> QED
      BY <3>1
  <2> HIDE DEF Fails
  <2>4. k # 0
    <3> SUFFICES ASSUME k = 0 PROVE FALSE
      OBVIOUS
    <3>1. upTo(0) = {} /\ used \ {} = used
      OBVIOUS
    <3>2. GivenBack(pl, used, upTo(0), h[0])
      BY <3>1, <1>3 DEF GivenBack, Same
    <3> QED
      BY <2>2, <3>2
  <2>5. k \in 1 .. n /\ k - 1 \in 0 .. n
    BY <2>2, <2>4
  <2>6. PICK S, level, p, r, gone :
          S = of[k] /\ level = lists[k] /\ p = h[k - 1] /\ r = h[k] /\ gone = upTo(k - 1)
    OBVIOUS
  <2>7. upTo(k) = gone \cup S /\ S \subseteq used \ gone
    <3>1. \A i \in 1 .. k : i \in 1 .. n /\ (i = k \/ i \in 1 .. k - 1)
      BY <2>5
    <3>2. \A i \in 1 .. k - 1 : i \in 1 .. k /\ i \in 1 .. n /\ i # k
      BY <2>5
    <3>3. k \in 1 .. k
      BY <2>5
    <3>4. upTo(k) = gone \cup S
      BY <2>6, <3>1, <3>2, <3>3
    <3>5. S \subseteq used /\ S \cap gone = {}
      BY <2>5, <2>6, <3>2, <1>1
    <3> QED
      BY <3>4, <3>5
  <2>8. PICK left : left = used \ gone
    OBVIOUS
  <2>9. PoolOf(OrderNodes, p, left) /\ \A c \in left : p.block[c] = pl.block[c]
    BY <2>3, <2>5, <2>6, <2>8 DEF GivenBack, Same
  <2>10. LevelOf(p.block, level, S)
    <3>1. LevelOf(pl.block, level, S)
      BY <1>1, <2>5, <2>6
    <3>2. \A b \in S : /\ Age(p.block, b) = Age(pl.block, b)
                       /\ p.block[b].prev = pl.block[b].prev /\ p.block[b].next = pl.block[b].next
      BY <2>7, <2>8, <2>9 DEF Age
    <3> QED
      BY <3>1, <3>2, LevelFrame
  <2>11. GivenBack(p, left, S, r)
    <3>1. r = FoldLeft(deallocate, p, Nodes(p, level))
      BY <1>3, <2>5, <2>6
    <3> QED
      BY <3>1, <2>7, <2>8, <2>9, <2>10, LevelGivenBack
  <2>12. left \ S = used \ upTo(k)
    BY <2>7, <2>8
  <2>13. GivenBack(pl, used, upTo(k), r)
    <3>1. PICK u : u = upTo(k)
      OBVIOUS
    <3>2. Same(pl.block, r.block, used \ u)
      BY <2>9, <2>11, <2>12, <3>1 DEF Same, GivenBack
    <3> QED
      BY <2>11, <2>12, <3>1, <3>2 DEF GivenBack
  <2> QED
    BY <2>2, <2>6, <2>13
<1>7. n \in 0 .. n
  OBVIOUS
<1> QED
  BY <1>2, <1>6, <1>7

(* To take for the k-th an element with k - 1 before it lists them so.     *)
LEMMA RankedByKey ==
    ASSUME NEW S, IsFiniteSet(S), NEW key \in [S -> Int], \A x, y \in S : key[x] = key[y] => x = y,
           NEW n, n = Cardinality(S), NEW q, q = [k \in 1 .. n |-> q[k]],
           \A k \in 1 .. n : (\E x \in S : Cardinality(Before(S, key, x)) = k - 1) =>
                                 q[k] \in S /\ Cardinality(Before(S, key, q[k])) = k - 1
    PROVE  ByKey(S, key, q, n)
<1>1. n \in Nat
  BY FS_CardinalityType
<1>0. PICK r : ByKey(S, key, r, n)
  BY ByAge
<1>2. /\ r \in [1 .. n -> S]
      /\ \A x \in S : \E i \in 1 .. n : r[i] = x
      /\ \A i \in 1 .. n : Cardinality(Before(S, key, r[i])) = i - 1
  BY <1>0 DEF ByKey
<1>3. ASSUME NEW k \in 1 .. n PROVE q[k] = r[k]
  <2>1. PICK x : x = q[k]
    OBVIOUS
  <2>2. r[k] \in S /\ Cardinality(Before(S, key, r[k])) = k - 1
    BY <1>2
  <2>3. x \in S /\ Cardinality(Before(S, key, x)) = k - 1
    BY <2>1, <2>2
  <2>4. PICK i \in 1 .. n : r[i] = x
    BY <1>2, <2>3
  <2>5. Cardinality(Before(S, key, x)) = i - 1
    BY <1>2, <2>4
  <2>6. i = k
    BY <1>1, <2>3, <2>5
  <2> QED
    BY <2>1, <2>4, <2>6
<1>4. q = r
  BY <1>2, <1>3
<1> QED
  BY <1>0, <1>4

--------------------------------------------------------------------------------
(* The prices of a side from the best one on.                              *)
PriceKey(side, S) == [p \in S |-> IF side = "Buy" THEN -p ELSE p]

LEMMA PricesInOrder ==
    ASSUME NEW side, NEW S, S = DOMAIN levels[side], IsFiniteSet(S), S \subseteq Int
    PROVE  ByKey(S, PriceKey(side, S), BestFirst(side), Cardinality(S))
<1>1. PICK q, n, key : q = BestFirst(side) /\ n = Cardinality(S) /\ key = PriceKey(side, S)
  OBVIOUS
<1>2. key \in [S -> Int] /\ \A x, y \in S : key[x] = key[y] => x = y
  BY <1>1 DEF PriceKey
<1>3. ASSUME NEW x \in S
      PROVE  {y \in S : (IF side = "Buy" THEN -y ELSE y) < (IF side = "Buy" THEN -x ELSE x)} = Before(S, key, x)
  BY <1>1 DEF PriceKey, Before
<1>4. q = [k \in 1 .. n |->
             CHOOSE x \in S : Cardinality({y \in S : (IF side = "Buy" THEN -y ELSE y) <
                                                     (IF side = "Buy" THEN -x ELSE x)}) = k - 1]
  BY <1>1 DEF BestFirst, InOrderOf
<1>5. ASSUME NEW k \in 1 .. n, NEW x \in S, Cardinality(Before(S, key, x)) = k - 1
      PROVE  q[k] \in S /\ Cardinality(Before(S, key, q[k])) = k - 1
  <2>1. PICK c : c = CHOOSE z \in S : Cardinality({y \in S : (IF side = "Buy" THEN -y ELSE y) <
                                                     (IF side = "Buy" THEN -z ELSE z)}) = k - 1
    OBVIOUS
  <2>2. Cardinality({y \in S : (IF side = "Buy" THEN -y ELSE y) < (IF side = "Buy" THEN -x ELSE x)}) = k - 1
    BY <1>3, <1>5
  <2>3. c \in S /\ Cardinality({y \in S : (IF side = "Buy" THEN -y ELSE y) <
                                          (IF side = "Buy" THEN -c ELSE c)}) = k - 1
    BY <2>1, <2>2
  <2>4. q[k] = c
    BY <1>4, <2>1
  <2> QED
    BY <1>3, <2>3, <2>4
<1>6. q = [k \in 1 .. n |-> q[k]]
  <2> DEFINE best(k) == CHOOSE x \in S : Cardinality({y \in S : (IF side = "Buy" THEN -y ELSE y) <
                                                           (IF side = "Buy" THEN -x ELSE x)}) = k - 1
  <2>1. q = [k \in 1 .. n |-> best(k)]
    BY <1>4
  <2> HIDE DEF best
  <2> QED
    BY <2>1
<1>7. ByKey(S, key, q, n)
  BY <1>1, <1>2, <1>5, <1>6, RankedByKey
<1> QED
  BY <1>1, <1>7

(* Orders from the oldest one on.                                          *)
SequenceKey(orders) == [o \in orders |-> o.sequence]

LEMMA OrdersByAge ==
    ASSUME NEW S, IsFiniteSet(S), \A o \in S : o.sequence \in Int,
           \A o, r \in S : o.sequence = r.sequence => o = r
    PROVE  ByKey(S, SequenceKey(S), InOrderOf(S, LAMBDA o : o.sequence), Cardinality(S))
<1>1. PICK q, n, key : q = InOrderOf(S, LAMBDA o : o.sequence) /\ n = Cardinality(S) /\ key = SequenceKey(S)
  OBVIOUS
<1>2. key \in [S -> Int] /\ \A x, y \in S : key[x] = key[y] => x = y
  BY <1>1 DEF SequenceKey
<1>3. ASSUME NEW x \in S
      PROVE  {y \in S : y.sequence < x.sequence} = Before(S, key, x)
  BY <1>1 DEF SequenceKey, Before
<1>4. q = [k \in 1 .. n |-> CHOOSE x \in S : Cardinality({y \in S : y.sequence < x.sequence}) = k - 1]
  BY <1>1 DEF InOrderOf
<1>5. ASSUME NEW k \in 1 .. n, NEW x \in S, Cardinality(Before(S, key, x)) = k - 1
      PROVE  q[k] \in S /\ Cardinality(Before(S, key, q[k])) = k - 1
  <2>1. PICK c : c = CHOOSE z \in S : Cardinality({y \in S : y.sequence < z.sequence}) = k - 1
    OBVIOUS
  <2>2. Cardinality({y \in S : y.sequence < x.sequence}) = k - 1
    BY <1>3, <1>5
  <2>3. c \in S /\ Cardinality({y \in S : y.sequence < c.sequence}) = k - 1
    BY <2>1, <2>2
  <2>4. q[k] = c
    BY <1>4, <2>1
  <2> QED
    BY <1>3, <2>3, <2>4
<1>6. q = [k \in 1 .. n |-> q[k]]
  <2> DEFINE oldest(k) == CHOOSE x \in S : Cardinality({y \in S : y.sequence < x.sequence}) = k - 1
  <2>1. q = [k \in 1 .. n |-> oldest(k)]
    BY <1>4
  <2> HIDE DEF oldest
  <2> QED
    BY <2>1
<1>7. ByKey(S, key, q, n)
  BY <1>1, <1>2, <1>5, <1>6, RankedByKey
<1> QED
  BY <1>1, <1>7

--------------------------------------------------------------------------------
(* ~OrderBook gives every node of a side back.                             *)
LEMMA SideGivenBack ==
    ASSUME NEW pl, NEW used, PoolOf(OrderNodes, pl, used),
           NEW side, NEW S, S \subseteq used, SideOf(pl.block, levels[side], S)
    PROVE  GivenBack(pl, used, S, Emptied(pl, side))
<1>1. PICK T, n, q : T = DOMAIN levels[side] /\ n = Cardinality(T) /\ q = BestFirst(side)
  OBVIOUS
<1>2. /\ IsFiniteSet(T) /\ T \subseteq Int
      /\ \A b \in S : pl.block[b].order.price \in T
      /\ \A p \in T : LevelOf(pl.block, levels[side][p], At(pl.block, S, p))
  BY <1>1, PricesAssumption DEF SideOf
<1>3. PICK key : key = PriceKey(side, T)
  OBVIOUS
<1>4. ByKey(T, key, q, n)
  BY <1>1, <1>2, <1>3, PricesInOrder
<1>5. /\ n \in Nat /\ q \in [1 .. n -> T] /\ DOMAIN q = 1 .. n
      /\ \A p \in T : \E i \in 1 .. n : q[i] = p
      /\ \A i, j \in 1 .. n : i # j => q[i] # q[j]
  <2>1. \A p \in T : key[p] \in Int
    BY <1>2, <1>3 DEF PriceKey
  <2>2. n \in Nat /\ q \in [1 .. n -> T] /\ \A i, j \in 1 .. n : i < j => key[q[i]] < key[q[j]]
    BY <1>4 DEF ByKey
  <2>3. ASSUME NEW i \in 1 .. n, NEW j \in 1 .. n, i # j PROVE q[i] # q[j]
    <3>1. i < j \/ j < i
      BY <2>2, <2>3
    <3>2. q[i] \in T /\ q[j] \in T
      BY <2>2
    <3>3. key[q[i]] < key[q[j]] \/ key[q[j]] < key[q[i]]
      BY <2>2, <3>1
    <3>4. key[q[i]] \in Int /\ key[q[j]] \in Int
      BY <2>1, <3>2
    <3>5. key[q[i]] # key[q[j]]
      BY <3>3, <3>4
    <3> QED
      BY <3>5
  <2> QED
    BY <1>4, <2>2, <2>3 DEF ByKey
<1>6. PICK lists, of : lists = LevelsInOrder(side) /\ of = [i \in 1 .. n |-> At(pl.block, S, q[i])]
  OBVIOUS
<1>7. lists = [i \in 1 .. n |-> levels[side][q[i]]]
  BY <1>1, <1>5, <1>6 DEF LevelsInOrder
<1>8. LevelsInRow(pl, used, lists, of, n)
  <2>1. ASSUME NEW k \in 1 .. n PROVE of[k] \subseteq used /\ LevelOf(pl.block, lists[k], of[k])
    <3>1. q[k] \in T /\ of[k] = At(pl.block, S, q[k]) /\ lists[k] = levels[side][q[k]]
      BY <1>5, <1>6, <1>7
    <3> QED
      BY <3>1, <1>2 DEF At
  <2>2. ASSUME NEW i \in 1 .. n, NEW j \in 1 .. n, i # j PROVE of[i] \cap of[j] = {}
    BY <1>5, <1>6, <2>2 DEF At
  <2> QED
    BY <1>6, <1>7, <2>1, <2>2 DEF LevelsInRow
<1>9. UNION {of[i] : i \in 1 .. n} = S
  <2>1. ASSUME NEW b \in S PROVE \E i \in 1 .. n : b \in of[i]
    <3>1. PICK i \in 1 .. n : q[i] = pl.block[b].order.price
      BY <1>2, <1>5
    <3> QED
      BY <3>1, <1>6 DEF At
  <2>2. \A i \in 1 .. n : of[i] \subseteq S
    BY <1>6 DEF At
  <2> QED
    BY <2>1, <2>2
<1>10. PICK p : p = LevelsFreed(pl, lists)
  OBVIOUS
<1>11. Emptied(pl, side) = p
  BY <1>6, <1>10 DEF Emptied, LevelsFreed
<1>12. GivenBack(pl, used, S, p)
  BY <1>5, <1>8, <1>9, <1>10, LevelsGivenBack
<1> QED
  BY <1>11, <1>12

LEMMA AllGivenBack ==
    ASSUME NEW own, Kept(levels, node_pool, next_sequence, own)
    PROVE  PoolOf(OrderNodes, Emptied(Emptied(node_pool, "Buy"), "Sell"), {})
<1>1. PICK pl, B, S, used : /\ pl = node_pool /\ B = own["Buy"] /\ S = own["Sell"]
                            /\ used = B \cup S
  OBVIOUS
<1>2. /\ PoolOf(OrderNodes, pl, used) /\ B \cap S = {}
      /\ SideOf(pl.block, levels["Buy"], B) /\ SideOf(pl.block, levels["Sell"], S)
  BY <1>1 DEF Kept, Used, Sides
<1>3. PICK p : p = Emptied(pl, "Buy")
  OBVIOUS
<1>4. PoolOf(OrderNodes, p, S) /\ \A b \in S : p.block[b] = pl.block[b]
  <2>1. GivenBack(pl, used, B, p)
    BY <1>1, <1>2, <1>3, SideGivenBack
  <2>2. used \ B = S
    BY <1>1, <1>2
  <2> QED
    BY <2>1, <2>2 DEF GivenBack, Same
<1>5. SideOf(p.block, levels["Sell"], S)
  <2>1. Alike(pl.block, p.block, S)
    BY <1>4 DEF Alike, Age
  <2> QED
    BY <1>2, <2>1, SideFrame
<1>6. GivenBack(p, S, S, Emptied(p, "Sell"))
  BY <1>4, <1>5, SideGivenBack
<1>7. S \ S = {}
  OBVIOUS
<1> QED
  BY <1>1, <1>3, <1>6, <1>7 DEF GivenBack

--------------------------------------------------------------------------------
(* Every step keeps the invariant.                                         *)
LEMMA NextHolds == IInv /\ [Next]_vars => IInv'
<1> SUFFICES ASSUME IInv, [Next]_vars PROVE IInv'
  OBVIOUS
<1>1. CASE UNCHANGED vars
  <2>1. CASE outcome = "destroyed"
    BY <1>1, <2>1 DEF vars, IInv, Gone
  <2>2. CASE outcome # "destroyed"
    <3>1. PICK own : Sound(own)
      BY <2>2 DEF IInv
    <3>2. Sound(own)'
      BY <1>1, <3>1 DEF vars, Sound, CallSound, Uncrossed, TradesSound
    <3> QED
      BY <1>1, <2>2, <3>2 DEF IInv, vars
  <2> QED
    BY <2>1, <2>2
<1>2. CASE Next /\ outcome = "destroyed"
  <2>1. call = Null /\ ~Idle /\ Gone
    BY <1>2 DEF IInv, Gone, Idle
  <2> QED
    BY <1>2, <2>1 DEF Next, Continue, Submit, SubmitThrows, Consume, ConsumePart, DropEmptyLevel, Return, Rest,
        TradeThrows, LevelThrows, NodeThrows, LocationThrows, Cancel, CancelUnknown, Destroy, Matching, Resting
<1>3. CASE Next /\ outcome # "destroyed"
  <2>1. PICK own : Sound(own)
    BY <1>3 DEF IInv
  <2>2. ASSUME NEW id \in OrderIds, NEW side \in Sides, NEW price \in Prices, NEW quantity \in Quantities,
               Submit(id, side, price, quantity)
        PROVE  IInv'
    <3>1. Sound(own)'
      BY <2>1, <2>2, SubmitStep
    <3> QED
      BY <3>1, <2>2 DEF Submit, IInv
  <2>3. ASSUME NEW id \in OrderIds, NEW quantity \in Quantities, SubmitThrows(id, quantity)
        PROVE  IInv'
    <3>1. Sound(own)'
      BY <2>1, <2>3, QuietStep DEF SubmitThrows, Idle
    <3> QED
      BY <3>1, <2>3 DEF SubmitThrows, IInv
  <2>4. CASE Consume
    BY <2>1, <2>4, <1>3, ConsumeStep DEF Consume, IInv
  <2>5. CASE ConsumePart
    BY <2>1, <2>5, <1>3, ConsumePartStep DEF ConsumePart, IInv
  <2>6. CASE DropEmptyLevel
    BY <2>1, <2>6, <1>3, DropEmptyLevelStep DEF DropEmptyLevel, IInv
  <2>7. CASE Return
    BY <2>1, <2>7, QuietStep DEF Return, IInv
  <2>8. CASE Rest \/ LocationThrows
    BY <2>1, <2>8, RestStep DEF Rest, LocationThrows, Throw, IInv
  <2>9. CASE TradeThrows \/ LevelThrows
    BY <2>1, <2>9, QuietStep DEF TradeThrows, LevelThrows, Throw, IInv
  <2>10. CASE NodeThrows
    BY <2>1, <2>10, NodeThrowsStep DEF NodeThrows, Throw, IInv
  <2>11. ASSUME NEW id \in OrderIds, Cancel(id)
         PROVE  IInv'
    BY <2>1, <2>11, CancelStep DEF Cancel, IInv
  <2>12. ASSUME NEW id \in OrderIds, CancelUnknown(id)
         PROVE  IInv'
    <3>1. Sound(own)'
      BY <2>1, <2>12, QuietStep DEF CancelUnknown, Idle
    <3> QED
      BY <3>1, <2>12 DEF CancelUnknown, IInv
  <2>13. CASE Destroy
    <3>1. next_sequence \in Nat
      BY <2>1 DEF Sound, Kept
    <3>2. PoolOf(OrderNodes, node_pool', {})
      BY <2>1, <2>13, AllGivenBack DEF Sound, Destroy
    <3> QED
      BY <2>13, <3>1, <3>2 DEF Destroy, Idle, IInv, Gone
  <2> QED
    BY <1>3, <2>2, <2>3, <2>4, <2>5, <2>6, <2>7, <2>8, <2>9, <2>10, <2>11, <2>12, <2>13 DEF Next, Continue
<1> QED
  BY <1>1, <1>2, <1>3

(* The nodes of each side, the maps, lists, locations and trades agree in  *)
(* every reachable state (order_book.cpp:27-183).                          *)
THEOREM Invariance == Spec => []IInv
<1>1. Init => IInv
  BY InitHolds
<1>2. IInv /\ [Next]_vars => IInv'
  BY NextHolds
<1> QED
  BY <1>1, <1>2, PTL DEF Spec

--------------------------------------------------------------------------------
(* What the walks over the levels visit.                                   *)
LEMMA QueueInOrder ==
    ASSUME NEW own, Kept(levels, node_pool, next_sequence, own),
           NEW side \in Sides, NEW price \in DOMAIN levels[side],
           NEW S, S = At(node_pool.block, own[side], price), NEW q, q = Queue(side, price)
    PROVE  /\ LevelOf(node_pool.block, levels[side][price], S) /\ Null \notin S
           /\ \E n \in Nat : InOrder(node_pool.block, S, q, n)
           /\ LinkedAt(side, price) = S
<1>1. PICK used : used = Used(own)
  OBVIOUS
<1>2. /\ S \subseteq own[side] /\ own[side] \subseteq used /\ Null \notin used
      /\ LevelOf(node_pool.block, levels[side][price], S)
  BY <1>1, KeptFacts DEF At
<1>3. PoolOf(OrderNodes, node_pool, used)
  BY <1>1 DEF Kept
<1>4. /\ node_pool.total_capacity \in Nat /\ IsFiniteSet(used) /\ Cardinality(used) <= node_pool.total_capacity
  BY <1>3, PoolOfFacts
<1>5. IsFiniteSet(S) /\ Cardinality(S) <= node_pool.total_capacity
  <2>1. S \subseteq used
    BY <1>2
  <2>2. IsFiniteSet(S) /\ Cardinality(S) <= Cardinality(used) /\ Cardinality(S) \in Nat /\ Cardinality(used) \in Nat
    BY <2>1, <1>4, FS_Subset, FS_CardinalityType
  <2> QED
    BY <2>2, <1>4
<1>6. PICK n \in Nat : InOrder(node_pool.block, S, q, n)
  <2>1. PICK pl, level, cap : pl = node_pool /\ level = levels[side][price] /\ cap = pl.total_capacity
    OBVIOUS
  <2>2. /\ cap \in Nat /\ LevelOf(pl.block, level, S) /\ Null \notin S
        /\ IsFiniteSet(S) /\ Cardinality(S) <= cap
    BY <2>1, <1>2, <1>4, <1>5
  <2>3. /\ Cardinality(S) \in Nat
        /\ InOrder(pl.block, S, Nodes(pl, level), Cardinality(S))
    BY <2>1, <2>2, WalkInOrder
  <2> QED
    BY <2>1, <2>3 DEF Queue
<1>7. LinkedAt(side, price) = S
  <2>1. DOMAIN q = 1 .. n /\ (\A i \in 1 .. n : q[i] \in S) /\ \A b \in S : \E i \in 1 .. n : q[i] = b
    BY <1>6 DEF InOrder
  <2> QED
    BY <2>1 DEF LinkedAt, Range
<1> QED
  BY <1>2, <1>6, <1>7

LEMMA LinkedNodes ==
    ASSUME NEW own, Kept(levels, node_pool, next_sequence, own), NEW side \in Sides
    PROVE  Linked(side) = own[side]
<1>1. \A price \in DOMAIN levels[side] : LinkedAt(side, price) = At(node_pool.block, own[side], price)
  BY QueueInOrder
<1>2. \A b \in own[side] : node_pool.block[b].order.price \in DOMAIN levels[side]
  BY KeptFacts
<1> QED
  BY <1>1, <1>2 DEF Linked, At

(* Nothing is linked any more.                                             *)
LEMMA GoneFacts ==
    ASSUME Gone
    PROVE  /\ DOMAIN levels = Sides /\ \A side \in Sides : DOMAIN levels[side] = {} /\ Linked(side) = {}
           /\ DOMAIN locations = {} /\ DOMAIN trades = {}
BY DEF Gone, Linked

--------------------------------------------------------------------------------
(* The links of a level, one node after the other.                         *)
LEMMA ListOfLevel ==
    ASSUME NEW own, Kept(levels, node_pool, next_sequence, own),
           NEW side \in Sides, NEW price \in DOMAIN levels[side],
           NEW q, q = Queue(side, price)
    PROVE  /\ IsInjective(q)
           /\ levels[side][price].tail = (IF q = <<>> THEN Null ELSE Last(q))
           /\ \A i \in DOMAIN q :
                 /\ node_pool.block[q[i]].prev = (IF i = 1 THEN Null ELSE q[i - 1])
                 /\ node_pool.block[q[i]].next = (IF i = Len(q) THEN Null ELSE q[i + 1])
                 /\ node_pool.block[q[i]].order.price = price
           /\ \A i, j \in DOMAIN q : i < j =>
                 node_pool.block[q[i]].order.sequence < node_pool.block[q[j]].order.sequence
<1>1. PICK S, block, level : /\ S = At(node_pool.block, own[side], price)
                             /\ block = node_pool.block /\ level = levels[side][price]
  OBVIOUS
<1>2. LevelOf(block, level, S) /\ Null \notin S /\ \E n \in Nat : InOrder(block, S, q, n)
  BY <1>1, QueueInOrder
<1>3. PICK n \in Nat : InOrder(block, S, q, n)
  BY <1>2
<1>4. /\ level.tail = (IF n = 0 THEN Null ELSE q[n])
      /\ \A i, j \in 1 .. n : q[i] = q[j] => i = j
      /\ \A i \in 1 .. n : /\ block[q[i]].prev = (IF i = 1 THEN Null ELSE q[i - 1])
                           /\ block[q[i]].next = (IF i = n THEN Null ELSE q[i + 1])
  BY <1>2, <1>3, LinksInOrder
<1>5. /\ q \in [1 .. n -> S] /\ DOMAIN q = 1 .. n
      /\ \A i, j \in 1 .. n : i < j => Age(block, q[i]) < Age(block, q[j])
  BY <1>3 DEF InOrder
<1>6. q \in Seq(S) /\ Len(q) = n /\ (q = <<>> <=> n = 0)
  BY <1>5
<1>7. \A i \in 1 .. n : block[q[i]].order.price = price
  BY <1>1, <1>5 DEF At
<1>8. IsInjective(q)
  BY <1>4, <1>5 DEF IsInjective
<1>9. level.tail = (IF q = <<>> THEN Null ELSE Last(q))
  BY <1>4, <1>6 DEF Last
<1>10. \A i, j \in DOMAIN q : i < j => block[q[i]].order.sequence < block[q[j]].order.sequence
  BY <1>5 DEF Age
<1> QED
  BY <1>1, <1>4, <1>5, <1>6, <1>7, <1>8, <1>9, <1>10, SMTT(60)

LEMMA ListsHold == IInv => ListsWellFormed
<1> SUFFICES ASSUME IInv PROVE ListsWellFormed
  OBVIOUS
<1>1. CASE outcome = "destroyed"
  BY <1>1, GoneFacts DEF IInv, ListsWellFormed
<1>2. CASE outcome # "destroyed"
  <2>1. PICK own : Kept(levels, node_pool, next_sequence, own)
    BY <1>2 DEF IInv, Sound
  <2>2. \A side \in Sides : \A price \in DOMAIN levels[side] :
           LinkedAt(side, price) = At(node_pool.block, own[side], price)
    BY <2>1, QueueInOrder
  <2>3. own["Buy"] \cap own["Sell"] = {}
    BY <2>1 DEF Kept
  <2>4. ASSUME NEW side \in Sides, NEW price \in DOMAIN levels[side],
               NEW other \in Sides, NEW p \in DOMAIN levels[other], <<other, p>> # <<side, price>>
        PROVE  LinkedAt(other, p) \cap LinkedAt(side, price) = {}
    <3>1. CASE other = side
      BY <3>1, <2>2, <2>4 DEF At
    <3>2. CASE other # side
      BY <3>2, <2>2, <2>3, <2>4 DEF At, Sides
    <3> QED
      BY <3>1, <3>2
  <2>5. ASSUME NEW side \in Sides, NEW price \in DOMAIN levels[side]
        PROVE  LET q == Queue(side, price)
               IN  /\ IsInjective(q)
                   /\ levels[side][price].tail = (IF q = <<>> THEN Null ELSE Last(q))
                   /\ \A i \in DOMAIN q :
                         /\ node_pool.block[q[i]].prev = (IF i = 1 THEN Null ELSE q[i - 1])
                         /\ node_pool.block[q[i]].next = (IF i = Len(q) THEN Null ELSE q[i + 1])
                         /\ node_pool.block[q[i]].order.price = price
    BY <2>1, ListOfLevel
  <2> QED
    BY <2>4, <2>5 DEF ListsWellFormed
<1> QED
  BY <1>1, <1>2

LEMMA PriorityHolds == IInv => TimePriority
<1> SUFFICES ASSUME IInv PROVE TimePriority
  OBVIOUS
<1>1. CASE outcome = "destroyed"
  BY <1>1, GoneFacts DEF IInv, TimePriority
<1>2. CASE outcome # "destroyed"
  <2>1. PICK own : Kept(levels, node_pool, next_sequence, own)
    BY <1>2 DEF IInv, Sound
  <2> QED
    BY <2>1, ListOfLevel DEF TimePriority, OrderIn
<1> QED
  BY <1>1, <1>2

LEMMA PoolHolds == IInv => PoolIsLinkedOrFree
<1> SUFFICES ASSUME IInv PROVE PoolIsLinkedOrFree
  OBVIOUS
<1>1. PICK used : PoolOf(OrderNodes, node_pool, used) /\ Linked("Buy") \cup Linked("Sell") = used
  <2>1. CASE outcome = "destroyed"
    BY <2>1, GoneFacts DEF IInv, Gone, Sides
  <2>2. CASE outcome # "destroyed"
    <3>1. PICK own : Kept(levels, node_pool, next_sequence, own)
      BY <2>2 DEF IInv, Sound
    <3>2. PICK used : used = Used(own)
      OBVIOUS
    <3>3. Linked("Buy") \cup Linked("Sell") = used
      BY <3>1, <3>2, LinkedNodes DEF Used, Sides
    <3> QED
      BY <3>1, <3>2, <3>3 DEF Kept
  <2> QED
    BY <2>1, <2>2
<1>2. FreeListIs(node_pool, (0 .. node_pool.total_capacity - 1) \ used)
  BY <1>1, FreeListVisits
<1>3. DOMAIN node_pool.block = 0 .. node_pool.total_capacity - 1 /\ node_pool.in_use = Cardinality(used)
  BY <1>1, PoolOfFacts
<1> QED
  BY <1>1, <1>2, <1>3 DEF PoolIsLinkedOrFree

LEMMA LocationsHold == IInv => NoDanglingLocation
<1> SUFFICES ASSUME IInv PROVE NoDanglingLocation
  OBVIOUS
<1>1. CASE outcome = "destroyed"
  BY <1>1, GoneFacts DEF IInv, NoDanglingLocation
<1>2. CASE outcome # "destroyed"
  <2>1. PICK own : Kept(levels, node_pool, next_sequence, own) /\ Located(locations, node_pool, own)
    BY <1>2 DEF IInv, Sound
  <2>2. ASSUME NEW id \in DOMAIN locations
        PROVE  LET loc == locations[id]
               IN /\ loc.price \in DOMAIN levels[loc.side]
                  /\ loc.node \in LinkedAt(loc.side, loc.price)
                  /\ OrderIn(loc.node).id = id
    <3>1. PICK side, price, node : side = locations[id].side /\ price = locations[id].price /\ node = locations[id].node
      OBVIOUS
    <3>2. /\ side \in Sides /\ node \in own[side] /\ node_pool.block[node].order.id = id
          /\ node_pool.block[node].order.price = price
      BY <2>1, <3>1 DEF Located
    <3>3. price \in DOMAIN levels[side]
      BY <2>1, <3>2, KeptFacts
    <3>4. LinkedAt(side, price) = At(node_pool.block, own[side], price)
      BY <2>1, <3>2, <3>3, QueueInOrder
    <3> QED
      BY <3>1, <3>2, <3>3, <3>4 DEF At, OrderIn
  <2> QED
    BY <2>2 DEF NoDanglingLocation
<1> QED
  BY <1>1, <1>2

LEMMA ExactHolds == IInv /\ ~AllocationFails => LocationsExact
<1> SUFFICES ASSUME IInv, ~AllocationFails PROVE LocationsExact
  OBVIOUS
<1>1. NoDanglingLocation
  BY LocationsHold
<1>2. CASE outcome = "destroyed"
  BY <1>1, <1>2, GoneFacts DEF IInv, LocationsExact
<1>3. CASE outcome # "destroyed"
  <2>1. PICK own : Kept(levels, node_pool, next_sequence, own) /\ Found(locations, node_pool, own)
    BY <1>3 DEF IInv, Sound
  <2>2. \A side \in Sides : Linked(side) = own[side]
    BY <2>1, LinkedNodes
  <2> QED
    BY <1>1, <2>1, <2>2 DEF LocationsExact, Found, OrderIn
<1> QED
  BY <1>2, <1>3

LEMMA PricesHold == IInv => NotCrossed /\ TradesBestFirst
<1> SUFFICES ASSUME IInv PROVE NotCrossed /\ TradesBestFirst
  OBVIOUS
<1>1. CASE outcome = "destroyed"
  BY <1>1, GoneFacts DEF IInv, Gone, NotCrossed, TradesBestFirst, Sides
<1>2. CASE outcome # "destroyed"
  BY <1>2 DEF IInv, Sound, Uncrossed, TradesSound, NoBetter, NotCrossed, TradesBestFirst
<1> QED
  BY <1>1, <1>2

LEMMA TypesHold == IInv => TypeOK
<1> SUFFICES ASSUME IInv PROVE TypeOK
  OBVIOUS
<1>1. CASE outcome = "destroyed"
  BY <1>1, GoneFacts DEF IInv, Gone, TypeOK
<1>2. CASE outcome # "destroyed"
  <2>1. PICK own : /\ Kept(levels, node_pool, next_sequence, own) /\ Located(locations, node_pool, own)
                   /\ CallSound
    BY <1>2 DEF IInv, Sound
  <2>2. /\ DOMAIN levels = Sides /\ next_sequence \in Nat
        /\ Used(own) \subseteq DOMAIN node_pool.block
        /\ \A side \in Sides : own[side] \subseteq Used(own)
    BY <2>1, NodesOfPool DEF Kept, Used, Sides
  <2>3. ASSUME NEW side \in Sides
        PROVE  /\ DOMAIN levels[side] \subseteq Prices
               /\ \A price \in DOMAIN levels[side] :
                     levels[side][price] \in [head : DOMAIN node_pool.block \cup {Null},
                                              tail : DOMAIN node_pool.block \cup {Null}]
               /\ \A node \in Linked(side) :
                     OrderIn(node) \in [id : OrderIds, price : Prices,
                                        quantity : Nat \ {0}, sequence : 0 .. next_sequence - 1]
    <3>1. DOMAIN levels[side] \subseteq Prices
      BY <2>1, KeptFacts
    <3>2. ASSUME NEW price \in DOMAIN levels[side]
          PROVE  levels[side][price] \in [head : DOMAIN node_pool.block \cup {Null},
                                          tail : DOMAIN node_pool.block \cup {Null}]
      <4>1. PICK S : S = At(node_pool.block, own[side], price)
        OBVIOUS
      <4>2. LevelOf(node_pool.block, levels[side][price], S)
        BY <2>1, <4>1, KeptFacts
      <4>3. levels[side][price] \in [head : S \cup {Null}, tail : S \cup {Null}]
        BY <4>2 DEF LevelOf
      <4>4. S \subseteq DOMAIN node_pool.block
        BY <2>2, <4>1 DEF At
      <4> QED
        BY <4>3, <4>4
    <3>3. ASSUME NEW node \in Linked(side)
          PROVE  OrderIn(node) \in [id : OrderIds, price : Prices,
                                    quantity : Nat \ {0}, sequence : 0 .. next_sequence - 1]
      <4>1. node \in own[side]
        BY <2>1, LinkedNodes
      <4>2. OrderIn(node) \in RestingOrders /\ OrderIn(node).sequence < next_sequence
        BY <2>1, <4>1, KeptFacts DEF OrderIn
      <4> QED
        BY <2>2, <4>2 DEF RestingOrders
    <3> QED
      BY <3>1, <3>2, <3>3
  <2>4. \A id \in DOMAIN locations :
           locations[id] \in [side : Sides, price : Prices, node : DOMAIN node_pool.block]
    <3> SUFFICES ASSUME NEW id \in DOMAIN locations
                 PROVE  locations[id] \in [side : Sides, price : Prices, node : DOMAIN node_pool.block]
      OBVIOUS
    <3>1. locations[id] \in [side : Sides, price : Prices, node : Nat] /\ locations[id].node \in own[locations[id].side]
      BY <2>1 DEF Located
    <3>2. locations[id].node \in DOMAIN node_pool.block
      BY <3>1, <2>2
    <3> QED
      BY <3>1, <3>2
  <2>5. DOMAIN locations \subseteq OrderIds
    BY <2>1 DEF Located
  <2> QED
    BY <2>1, <2>2, <2>3, <2>4, <2>5 DEF TypeOK, CallSound, Calls
<1> QED
  BY <1>1, <1>2

--------------------------------------------------------------------------------
(* Every variable has its type, and a resting order has something left.    *)
THEOREM TypeCorrect == Spec => []TypeOK
BY Invariance, TypesHold, PTL

(* The intrusive lists stay doubly linked, and no node is in two levels    *)
(* (order_book.cpp:27-64).                                                 *)
THEOREM ListsStayLinked == Spec => []ListsWellFormed
BY Invariance, ListsHold, PTL

(* The blocks of the pool are the linked nodes and the free list, and all  *)
(* are free once the destructor has run (order_book.cpp:9-64,              *)
(* slab_allocator.hpp:148-168).                                            *)
THEOREM NoNodeIsLost == Spec => []PoolIsLinkedOrFree
BY Invariance, PoolHolds, PTL

(* What cancel_order follows is a node of the level named in locations_,   *)
(* whatever allocation failed before (order_book.cpp:161-183).             *)
THEOREM LocationsAreValid == Spec => []NoDanglingLocation
BY Invariance, LocationsHold, PTL

(* locations_ and the lists are the same set of orders as long as no       *)
(* allocation fails (order_book.cpp:86-88, 150, 154, 161-183).             *)
THEOREM LocationsAreExact ==
    ASSUME ~AllocationFails
    PROVE  Spec => []LocationsExact
<1>1. IInv => LocationsExact
  BY ExactHolds
<1> QED
  BY <1>1, Invariance, PTL

(* Within a level the orders stand in the order of their arrival           *)
(* (order_book.hpp:93-95, 192).                                            *)
THEOREM TimePriorityKept == Spec => []TimePriority
BY Invariance, PriorityHolds, PTL

(* Between calls every bid is below every ask (order_book.cpp:93-156).     *)
THEOREM NeverCrossed == Spec => []NotCrossed
BY Invariance, PricesHold, PTL

(* The trades of one call go from the best price to the worst, never       *)
(* beyond the limit of the order (order_book.hpp:93-97).                   *)
THEOREM BestPriceFirst == Spec => []TradesBestFirst
BY Invariance, PricesHold, PTL

--------------------------------------------------------------------------------
(* As long as no allocation fails, the book implements PriceTimeBook.  The *)
(* order of node n, on a side, and all the orders of the book.             *)
OrderOf(block, side, n) ==
    [id |-> block[n].order.id, side |-> side, price |-> block[n].order.price,
     quantity |-> block[n].order.quantity, sequence |-> block[n].order.sequence]

IsOrder(block, own, o) == \E side \in Sides : \E n \in own[side] : o = OrderOf(block, side, n)

LEMMA BookOrdersAre ==
    ASSUME NEW own, Kept(levels, node_pool, next_sequence, own)
    PROVE  \A o : o \in BookOrders <=> IsOrder(node_pool.block, own, o)
<1>1. \A side \in Sides : Linked(side) = own[side]
  BY LinkedNodes
<1>2. \A o : o \in BookOrders <=>
         \E side \in Sides : \E n \in Linked(side) :
             o = [id |-> OrderIn(n).id, side |-> side, price |-> OrderIn(n).price,
                  quantity |-> OrderIn(n).quantity, sequence |-> OrderIn(n).sequence]
  BY DEF BookOrders
<1> QED
  BY <1>1, <1>2 DEF IsOrder, OrderOf, OrderIn

(* An id has one node, which is on one side.                               *)
OneNodePerId(block, own) ==
    \A s, t \in Sides : \A b \in own[s], c \in own[t] :
        block[b].order.id = block[c].order.id => b = c /\ s = t

LEMMA FoundIsUnique ==
    ASSUME NEW locs, NEW pl, NEW own, Found(locs, pl, own), own["Buy"] \cap own["Sell"] = {}
    PROVE  OneNodePerId(pl.block, own)
<1> SUFFICES ASSUME NEW s \in Sides, NEW t \in Sides, NEW b \in own[s], NEW c \in own[t],
                    pl.block[b].order.id = pl.block[c].order.id
             PROVE  b = c /\ s = t
  BY DEF OneNodePerId
<1>1. b = c
  BY DEF Found
<1> QED
  BY <1>1 DEF Sides

(* The orders when one leaves, one joins, or one shrinks.                  *)
LEMMA OrdersLeft ==
    ASSUME NEW own, own \in [Sides -> SUBSET Nat], OneNodePerId(node_pool.block, own),
           NEW side \in Sides, NEW node \in own[side],
           NEW own2, NodeLeft(own, side, node, own2)
    PROVE  \A o : IsOrder(node_pool'.block, own2, o) <=>
                  IsOrder(node_pool.block, own, o) /\ o.id # node_pool.block[node].order.id
<1>1. PICK block, block2 : block = node_pool.block /\ block2 = node_pool'.block
  OBVIOUS
<1>2. \A t \in Sides : (own2[t] = own[t] \ {node} /\ own2[t] \subseteq Used(own) \ {node}) \/ (t # side /\ node \in own[t])
  BY DEF NodeLeft, Put, Used, Sides
<1>3. \A t \in Sides : t # side => node \notin own[t]
  BY DEF OneNodePerId
<1>4. \A t \in Sides : own2[t] = own[t] \ {node} /\ own2[t] \subseteq Used(own) \ {node}
  BY <1>2, <1>3
<1>5. \A t \in Sides : \A b \in own2[t] : b \in own[t] /\ b # node /\ block2[b].order = block[b].order
  BY <1>1, <1>4 DEF NodeLeft, SameOrders
<1>6. \A t \in Sides : \A b \in own2[t] : OrderOf(block2, t, b) = OrderOf(block, t, b)
                                          /\ OrderOf(block, t, b).id = block[b].order.id
  BY <1>5 DEF OrderOf
<1>7. \A t \in Sides : \A b \in own[t] : b # node <=> block[b].order.id # block[node].order.id
  BY <1>1 DEF OneNodePerId
<1>8. ASSUME NEW o, IsOrder(block2, own2, o)
      PROVE  IsOrder(block, own, o) /\ o.id # block[node].order.id
  <2>0. PICK t \in Sides : \E b \in own2[t] : o = OrderOf(block2, t, b)
    BY <1>8 DEF IsOrder
  <2>1. PICK b \in own2[t] : o = OrderOf(block2, t, b)
    BY <2>0
  <2>2. o = OrderOf(block, t, b) /\ o.id = block[b].order.id /\ b \in own[t] /\ b # node
    BY <2>1, <1>5, <1>6
  <2> QED
    BY <2>2, <1>7 DEF IsOrder
<1>9. ASSUME NEW o, IsOrder(block, own, o), o.id # block[node].order.id
      PROVE  IsOrder(block2, own2, o)
  <2>0. PICK t \in Sides : \E b \in own[t] : o = OrderOf(block, t, b)
    BY <1>9 DEF IsOrder
  <2>1. PICK b \in own[t] : o = OrderOf(block, t, b)
    BY <2>0
  <2>2. o.id = block[b].order.id
    BY <2>1 DEF OrderOf
  <2>3. b # node /\ b \in own2[t]
    BY <2>2, <1>4, <1>9
  <2> QED
    BY <2>1, <2>3, <1>6 DEF IsOrder
<1> QED
  BY <1>1, <1>8, <1>9

LEMMA OrdersJoined ==
    ASSUME NEW own, own \in [Sides -> SUBSET Nat], NEW side \in Sides, NEW order \in RestingOrders, NEW node,
           NEW own2, NodeJoined(own, side, node, order, own2),
           NEW new, new = [id |-> order.id, side |-> side, price |-> order.price,
                           quantity |-> order.quantity, sequence |-> order.sequence]
    PROVE  \A o : IsOrder(node_pool'.block, own2, o) <=> IsOrder(node_pool.block, own, o) \/ o = new
<1>1. PICK block, block2 : block = node_pool.block /\ block2 = node_pool'.block
  OBVIOUS
<1>2. /\ own2[side] = own[side] \cup {node} /\ \A t \in Sides : t # side => own2[t] = own[t]
      /\ \A t \in Sides : own[t] \subseteq Used(own)
  BY DEF NodeJoined, Put, Used, Sides
<1>3. block2[node].order = order /\ \A b \in Used(own) : block2[b].order = block[b].order
  BY <1>1 DEF NodeJoined, SameOrders
<1>4. OrderOf(block2, side, node) = new
  BY <1>3 DEF OrderOf
<1>5. \A t \in Sides : \A b \in own[t] : OrderOf(block2, t, b) = OrderOf(block, t, b)
  BY <1>2, <1>3 DEF OrderOf
<1> QED
  BY <1>1, <1>2, <1>4, <1>5 DEF IsOrder

LEMMA OrdersShrunk ==
    ASSUME NEW own, own \in [Sides -> SUBSET Nat], OneNodePerId(node_pool.block, own),
           NEW side \in Sides, NEW node \in own[side],
           \A b \in Used(own) : b # node => node_pool'.block[b] = node_pool.block[b],
           node_pool'.block[node].order.id = node_pool.block[node].order.id
    PROVE  \A o : IsOrder(node_pool'.block, own, o) <=>
                  \/ IsOrder(node_pool.block, own, o) /\ o.id # node_pool.block[node].order.id
                  \/ o = OrderOf(node_pool'.block, side, node)
<1>1. PICK block, block2 : block = node_pool.block /\ block2 = node_pool'.block
  OBVIOUS
<1>2. \A t \in Sides : \A b \in own[t] :
         /\ b # node => block2[b] = block[b]
         /\ b # node <=> block[b].order.id # block[node].order.id
         /\ b = node => t = side
  BY <1>1 DEF OneNodePerId, Used, Sides
<1>3. \A t \in Sides : \A b \in own[t] :
         /\ b # node => OrderOf(block2, t, b) = OrderOf(block, t, b)
         /\ OrderOf(block, t, b).id = block[b].order.id
  BY <1>2 DEF OrderOf
<1> QED
  BY <1>1, <1>2, <1>3 DEF IsOrder


(* The same of the next state.                                             *)
Described(own) ==
    Kept(levels, node_pool, next_sequence, own) =>
        \A o : o \in BookOrders <=> IsOrder(node_pool.block, own, o)

LEMMA BookDescribed == \A own : Described(own)
BY BookOrdersAre DEF Described

LEMMA BookDescribedNext == (\A own : Described(own))'
BY BookDescribed, PTL

LEMMA BookOrdersNext ==
    ASSUME NEW own, Kept(levels', node_pool', next_sequence', own)
    PROVE  \A o : o \in BookOrders' <=> IsOrder(node_pool'.block, own, o)
BY BookDescribedNext DEF Described

(* An id is in locations_ when it is that of a resting order.              *)
LEMMA IdsResting ==
    ASSUME NEW own, Sound(own), Found(locations, node_pool, own), NEW id
    PROVE  id \in DOMAIN locations <=> Book!IsResting(id)
<1>1. PICK block, locs : block = node_pool.block /\ locs = locations
  OBVIOUS
<1>2. \A o : o \in BookOrders <=> IsOrder(block, own, o)
  BY <1>1, BookOrdersAre DEF Sound
<1>3. ASSUME id \in DOMAIN locs
      PROVE  \E o \in BookOrders : o.id = id
  <2>1. PICK side, b : side = locs[id].side /\ b = locs[id].node
    OBVIOUS
  <2>2. side \in Sides /\ b \in own[side] /\ block[b].order.id = id
    BY <1>1, <1>3, <2>1 DEF Sound, Located
  <2>3. OrderOf(block, side, b).id = id /\ IsOrder(block, own, OrderOf(block, side, b))
    BY <2>2 DEF OrderOf, IsOrder
  <2> QED
    BY <2>3, <1>2
<1>4. ASSUME NEW o \in BookOrders, o.id = id
      PROVE  id \in DOMAIN locs
  <2>1. PICK side \in Sides : \E b \in own[side] : o = OrderOf(block, side, b)
    BY <1>2 DEF IsOrder
  <2>2. PICK b \in own[side] : o = OrderOf(block, side, b)
    BY <2>1
  <2> QED
    BY <1>1, <1>4, <2>2 DEF OrderOf, Found
<1> QED
  BY <1>1, <1>3, <1>4 DEF Book!IsResting

(* The order in progress, as PriceTimeBook has it.                         *)
LEMMA IncomingIs ==
    ASSUME call \in Calls
    PROVE  /\ call # Null /\ IncomingOrder # Null
           /\ IncomingOrder = [id |-> call.id, side |-> call.side, price |-> call.price, quantity |-> call.remaining]
<1>1. call # Null
  BY NoCallAssumption DEF Calls, Sides
<1>2. IncomingOrder = [id |-> call.id, side |-> call.side, price |-> call.price, quantity |-> call.remaining]
  BY <1>1 DEF IncomingOrder
<1>3. IncomingOrder \in [id : OrderIds, side : {"Buy", "Sell"}, price : Prices, quantity : Int]
  BY <1>2 DEF Calls, Sides
<1> QED
  BY <1>1, <1>2, <1>3, NoCallAssumption

(* The order met by the call is ahead of all others that cross.            *)
LEMMA FrontIsAhead ==
    ASSUME NEW own, Kept(levels, node_pool, next_sequence, own),
           NEW side, NEW best, NEW node, Meets(own, side, best, node),
           NEW r, r = OrderOf(node_pool.block, side, node)
    PROVE  /\ r \in Book!Crossing
           /\ \A s \in Book!Crossing : s = r \/ Book!Ahead(r, s)
<1>1. PICK block, lv, c : block = node_pool.block /\ lv = levels /\ c = call
  OBVIOUS
<1>2. /\ c \in Calls /\ side \in Sides /\ side # c.side /\ best \in Int
      /\ \A p \in DOMAIN lv[side] : NoBetter(c.side, best, p)
      /\ NoBetter(c.side, best, c.price)
      /\ node \in own[side] /\ block[node].order.price = best
      /\ \A b \in own[side] : block[b].order.price = best =>
            b = node \/ block[node].order.sequence < block[b].order.sequence
  BY <1>1 DEF Meets
<1>3. PICK inc : inc = IncomingOrder
  OBVIOUS
<1>4. inc.side = c.side /\ inc.price = c.price
  BY <1>1, <1>2, <1>3, IncomingIs
<1>5. \A o : o \in BookOrders <=> IsOrder(block, own, o)
  BY <1>1, BookOrdersAre
<1>6. r.side = side /\ r.price = best /\ r.sequence = block[node].order.sequence
  BY <1>1, <1>2 DEF OrderOf
<1>7. r \in BookOrders
  BY <1>1, <1>2, <1>5 DEF IsOrder
<1>8. Book!Crosses(inc, r)
  BY <1>2, <1>4, <1>6 DEF Book!Crosses, NoBetter, Sides, Calls
<1>9. ASSUME NEW s \in BookOrders, Book!Crosses(inc, s)
      PROVE  s = r \/ Book!Ahead(r, s)
  <2>1. PICK t \in Sides : \E b \in own[t] : s = OrderOf(block, t, b)
    BY <1>5 DEF IsOrder
  <2>2. PICK b \in own[t] : s = OrderOf(block, t, b)
    BY <2>1
  <2>3. s.side = t /\ s.price = block[b].order.price /\ s.sequence = block[b].order.sequence
    BY <2>2 DEF OrderOf
  <2>4. t = side
    BY <1>2, <1>4, <1>9, <2>3 DEF Book!Crosses, Sides, Calls
  <2>5. s.price \in DOMAIN lv[side] /\ s.price \in Int
    BY <1>1, <1>2, <2>3, <2>4, KeptFacts
  <2>6. CASE s.price = best
    <3>1. b = node \/ r.sequence < s.sequence
      BY <1>2, <1>6, <2>3, <2>4, <2>6
    <3> QED
      BY <3>1, <1>1, <1>6, <2>2, <2>4, <2>6 DEF Book!Ahead
  <2>7. CASE s.price # best
    <3>1. NoBetter(c.side, best, s.price)
      BY <1>2, <2>5
    <3> QED
      BY <3>1, <1>2, <1>6, <2>5, <2>7 DEF NoBetter, Book!Ahead, Book!BetterPrice, Sides, Calls
  <2> QED
    BY <2>6, <2>7
<1> QED
  BY <1>3, <1>7, <1>8, <1>9 DEF Book!Crossing


(* A trade with it is a Match.                                             *)
LEMMA TradeIsMatch ==
    ASSUME NEW own, Kept(levels, node_pool, next_sequence, own),
           NEW side, NEW best, NEW node, Meets(own, side, best, node), call.remaining > 0,
           NEW r, r = OrderOf(node_pool.block, side, node),
           NEW x, x = (IF call.remaining < r.quantity THEN call.remaining ELSE r.quantity),
           RecordTrade(x), outcome' = outcome,
           BookOrders' = (BookOrders \ {r}) \cup
               (IF r.quantity - x = 0 THEN {} ELSE {[r EXCEPT !.quantity = r.quantity - x]})
    PROVE  Book!Match
<1>1. /\ call \in Calls /\ side = Opposite(call.side) /\ best = Best(side)
      /\ FrontOrder = node_pool.block[node].order /\ node_pool.block[node].order.price = best
      /\ node_pool.block[node].order \in RestingOrders
  BY DEF Meets
<1>2. /\ r = [id |-> FrontOrder.id, side |-> side, price |-> best,
              quantity |-> FrontOrder.quantity, sequence |-> FrontOrder.sequence]
  BY <1>1 DEF OrderOf
<1>3. PICK inc : inc = IncomingOrder
  OBVIOUS
<1>4. /\ inc # Null
      /\ inc = [id |-> call.id, side |-> call.side, price |-> call.price, quantity |-> call.remaining]
  BY <1>1, <1>3, IncomingIs
<1>5. r.quantity \in Nat /\ call.remaining \in Nat /\ x \in Nat /\ x <= call.remaining
  BY <1>1, <1>2 DEF RestingOrders, Calls
<1>6. /\ call' = [call EXCEPT !.remaining = @ - x] /\ next_sequence' = next_sequence + 1
      /\ trades' = Append(trades,
              [aggressor |-> call.id, resting |-> FrontOrder.id, side |-> call.side,
               price |-> best, quantity |-> x, sequence |-> next_sequence])
  BY <1>1 DEF RecordTrade
<1>7. /\ call'.id = call.id /\ call'.side = call.side /\ call'.price = call.price
      /\ call'.remaining = call.remaining - x /\ call' \in Calls
  BY <1>1, <1>5, <1>6 DEF Calls
<1>8. call' # Null
  BY <1>7, NoCallAssumption DEF Calls, Sides
<1>9. IncomingOrder' = [inc EXCEPT !.quantity = inc.quantity - x]
  <2>1. IncomingOrder' = [id |-> call.id, side |-> call.side, price |-> call.price, quantity |-> call.remaining - x]
    BY <1>7, <1>8 DEF IncomingOrder
  <2> QED
    BY <2>1, <1>4
<1>10. x = (IF inc.quantity < r.quantity THEN inc.quantity ELSE r.quantity)
  BY <1>4
<1>11. trades' = Append(trades,
              [aggressor |-> inc.id, resting |-> r.id, side |-> inc.side,
               price |-> r.price, quantity |-> x, sequence |-> next_sequence])
  <2>1. inc.id = call.id /\ r.id = FrontOrder.id /\ inc.side = call.side /\ r.price = best
    BY <1>2, <1>4
  <2> QED
    BY <2>1, <1>6, Zenon
<1>12. Book!Trade(r)
  <2>1. PICK left : left = [r EXCEPT !.quantity = r.quantity - x]
    OBVIOUS
  <2>2. left.quantity = r.quantity - x
    BY <1>2, <2>1
  <2>3. BookOrders' = (BookOrders \ {r}) \cup (IF left.quantity = 0 THEN {} ELSE {left})
    BY <2>1, <2>2
  <2> QED
    BY <2>1, <2>3, <1>3, <1>6, <1>9, <1>10, <1>11 DEF Book!Trade
<1>13. /\ r \in Book!Crossing
       /\ \A s \in Book!Crossing : s = r \/ Book!Ahead(r, s)
  BY FrontIsAhead
<1> QED
  BY <1>3, <1>4, <1>5, <1>12, <1>13 DEF Book!Match


(* Each step of a call is one of PriceTimeBook, or none.                   *)
Simple(own) == Sound(own) /\ Found(locations, node_pool, own) /\ NoEmptyLevel(levels)

LEMMA SimpleFacts ==
    ASSUME NEW own, Simple(own)
    PROVE  /\ Kept(levels, node_pool, next_sequence, own)
           /\ own \in [Sides -> SUBSET Nat] /\ OneNodePerId(node_pool.block, own)
           /\ \A o : o \in BookOrders <=> IsOrder(node_pool.block, own, o)
<1>1. /\ Kept(levels, node_pool, next_sequence, own) /\ Found(locations, node_pool, own)
      /\ own \in [Sides -> SUBSET Nat] /\ own["Buy"] \cap own["Sell"] = {}
  BY DEF Simple, Sound, Kept
<1>2. OneNodePerId(node_pool.block, own)
  BY <1>1, FoundIsUnique
<1> QED
  BY <1>1, <1>2, BookOrdersAre

LEMMA OneOrderPerId ==
    ASSUME NEW block, NEW own, OneNodePerId(block, own), NEW o, NEW p,
           IsOrder(block, own, o), IsOrder(block, own, p), o.id = p.id
    PROVE  o = p
<1>1. PICK s \in Sides : \E b \in own[s] : o = OrderOf(block, s, b)
  BY DEF IsOrder
<1>2. PICK b \in own[s] : o = OrderOf(block, s, b)
  BY <1>1
<1>3. PICK t \in Sides : \E c \in own[t] : p = OrderOf(block, t, c)
  BY DEF IsOrder
<1>4. PICK c \in own[t] : p = OrderOf(block, t, c)
  BY <1>3
<1>5. block[b].order.id = block[c].order.id
  BY <1>2, <1>4 DEF OrderOf
<1>6. b = c /\ s = t
  BY <1>5 DEF OneNodePerId
<1> QED
  BY <1>2, <1>4, <1>6

LEMMA ConsumeMatches ==
    ASSUME NEW own, Simple(own), Consume
    PROVE  Book!Match
<1>1. /\ Kept(levels, node_pool, next_sequence, own)
      /\ own \in [Sides -> SUBSET Nat] /\ OneNodePerId(node_pool.block, own)
      /\ \A o : o \in BookOrders <=> IsOrder(node_pool.block, own, o)
  BY SimpleFacts
<1>2. PICK side, best, node, own2 :
         Meets(own, side, best, node) /\ NodeLeft(own, side, node, own2) /\ Sound(own2)'
  BY ConsumeStep DEF Simple
<1>3. PICK r : r = OrderOf(node_pool.block, side, node)
  OBVIOUS
<1>4. /\ side \in Sides /\ node \in own[side] /\ FrontOrder = node_pool.block[node].order
      /\ r.id = node_pool.block[node].order.id /\ r.quantity = FrontOrder.quantity /\ r.quantity \in Nat
      /\ call \in Calls
  BY <1>2, <1>3 DEF Meets, OrderOf, RestingOrders
<1>5. IsOrder(node_pool.block, own, r)
  BY <1>3, <1>4 DEF IsOrder
<1>6. \A o : IsOrder(node_pool'.block, own2, o) <=> IsOrder(node_pool.block, own, o) /\ o.id # r.id
  BY <1>1, <1>2, <1>4, OrdersLeft
<1>7. Kept(levels', node_pool', next_sequence', own2)
  BY <1>2 DEF Sound
<1>8. \A o : o \in BookOrders' <=> IsOrder(node_pool'.block, own2, o)
  BY <1>7, BookOrdersNext
<1>9. \A o : o \in BookOrders' <=> o \in BookOrders /\ o # r
  BY <1>1, <1>5, <1>6, <1>8, OneOrderPerId
<1>10. BookOrders' = BookOrders \ {r}
  BY <1>9
<1>11. FrontOrder.quantity <= call.remaining /\ call.remaining > 0 /\ call.remaining \in Nat
       /\ RecordTrade(r.quantity) /\ outcome' = outcome
  BY <1>4 DEF Consume, Matching, Calls
<1>12. PICK x : x = r.quantity
  OBVIOUS
<1>13. /\ x = (IF call.remaining < r.quantity THEN call.remaining ELSE r.quantity)
       /\ RecordTrade(x)
       /\ BookOrders' = (BookOrders \ {r}) \cup
               (IF r.quantity - x = 0 THEN {} ELSE {[r EXCEPT !.quantity = r.quantity - x]})
  <2>1. r.quantity - x = 0
    BY <1>4, <1>12
  <2>2. ~(call.remaining < r.quantity)
    BY <1>4, <1>11
  <2> QED
    BY <2>1, <2>2, <1>10, <1>11, <1>12
<1> QED
  BY <1>1, <1>2, <1>3, <1>11, <1>13, TradeIsMatch

LEMMA ConsumePartMatches ==
    ASSUME NEW own, Simple(own), ConsumePart
    PROVE  Book!Match
<1>1. /\ Kept(levels, node_pool, next_sequence, own)
      /\ own \in [Sides -> SUBSET Nat] /\ OneNodePerId(node_pool.block, own)
      /\ \A o : o \in BookOrders <=> IsOrder(node_pool.block, own, o)
  BY SimpleFacts
<1>2. PICK side, best, node : Meets(own, side, best, node)
  BY FrontOrderIsOldest DEF ConsumePart, Simple
<1>3. Sound(own)'
  BY ConsumePartStep DEF Simple
<1>4. PICK r, x, q, order :
         /\ r = OrderOf(node_pool.block, side, node) /\ x = call.remaining
         /\ q = FilledBy(node_pool, node, x) /\ order = node_pool.block[node].order
  OBVIOUS
<1>5. /\ side \in Sides /\ node \in own[side] /\ FrontOrder = order /\ order \in RestingOrders
      /\ call \in Calls /\ node = BestLevel.head
  BY <1>2, <1>4 DEF Meets
<1>6. x \in Nat /\ x > 0 /\ x < order.quantity /\ RecordTrade(x) /\ outcome' = outcome /\ node_pool' = q
  BY <1>4, <1>5 DEF ConsumePart, Matching, Calls, FilledBy
<1>7. /\ \A b \in Used(own) : b # node => q.block[b] = node_pool.block[b]
      /\ q.block[node].order = [id |-> order.id, price |-> order.price,
                                quantity |-> order.quantity - x, sequence |-> order.sequence]
  BY <1>1, <1>4, <1>5, <1>6, OrderShrinks, SMTT(60)
<1>8. q.block[node].order.id = node_pool.block[node].order.id
  BY <1>4, <1>7
<1>9. \A o : IsOrder(q.block, own, o) <=>
                  \/ IsOrder(node_pool.block, own, o) /\ o.id # node_pool.block[node].order.id
                  \/ o = OrderOf(q.block, side, node)
  BY <1>1, <1>5, <1>6, <1>7, <1>8, OrdersShrunk
<1>10. /\ r = [id |-> order.id, side |-> side, price |-> order.price,
               quantity |-> order.quantity, sequence |-> order.sequence]
       /\ OrderOf(q.block, side, node) =
              [id |-> order.id, side |-> side, price |-> order.price,
               quantity |-> order.quantity - x, sequence |-> order.sequence]
  BY <1>4, <1>7 DEF OrderOf
<1>11. OrderOf(q.block, side, node) = [r EXCEPT !.quantity = r.quantity - x] /\ r.id = order.id /\ r.quantity = order.quantity
  BY <1>10
<1>12. IsOrder(node_pool.block, own, r)
  BY <1>4, <1>5 DEF IsOrder
<1>13. \A o : o \in BookOrders' <=> IsOrder(q.block, own, o)
  <2>1. Kept(levels', node_pool', next_sequence', own)
    BY <1>3 DEF Sound
  <2> QED
    BY <2>1, <1>6, BookOrdersNext
<1>14. \A o : o \in BookOrders' <=> (o \in BookOrders /\ o # r) \/ o = [r EXCEPT !.quantity = r.quantity - x]
  BY <1>1, <1>4, <1>9, <1>11, <1>12, <1>13, OneOrderPerId
<1>15. /\ x = (IF call.remaining < r.quantity THEN call.remaining ELSE r.quantity)
       /\ call.remaining > 0
       /\ BookOrders' = (BookOrders \ {r}) \cup
               (IF r.quantity - x = 0 THEN {} ELSE {[r EXCEPT !.quantity = r.quantity - x]})
  <2>1. r.quantity - x # 0 /\ call.remaining < r.quantity
    BY <1>4, <1>5, <1>6, <1>11 DEF RestingOrders
  <2>2. BookOrders' = (BookOrders \ {r}) \cup {[r EXCEPT !.quantity = r.quantity - x]}
    BY <1>14
  <2> QED
    BY <2>1, <2>2, <1>4, <1>6
<1> QED
  BY <1>1, <1>2, <1>4, <1>6, <1>15, TradeIsMatch


(* What is left of an order rests when no order crosses it.                *)
LEMMA RestingIsAlone ==
    ASSUME NEW own, Simple(own), Resting
    PROVE  /\ call \in Calls /\ Book!Crossing = {}
<1>1. PICK side, lv, block, c : side = Opposite(call.side) /\ lv = levels /\ block = node_pool.block /\ c = call
  OBVIOUS
<1>2. /\ Kept(lv, node_pool, next_sequence, own)
      /\ \A o : o \in BookOrders <=> IsOrder(block, own, o)
  BY <1>1, SimpleFacts
<1>3. /\ c \in Calls /\ c.side \in Sides /\ side \in Sides /\ side # c.side /\ c.price \in Int
  BY <1>1, PricesAssumption DEF Resting, Simple, Sound, CallSound, Calls, Sides, Opposite
<1>4. PICK inc : inc = IncomingOrder
  OBVIOUS
<1>5. inc.side = c.side /\ inc.price = c.price
  BY <1>1, <1>3, <1>4, IncomingIs
<1>6. ASSUME NEW s \in BookOrders, Book!Crosses(inc, s)
      PROVE  FALSE
  <2>1. PICK t \in Sides : \E b \in own[t] : s = OrderOf(block, t, b)
    BY <1>2 DEF IsOrder
  <2>2. PICK b \in own[t] : s = OrderOf(block, t, b)
    BY <2>1
  <2>3. s.side = t /\ s.price = block[b].order.price
    BY <2>2 DEF OrderOf
  <2>4. t = side
    BY <1>3, <1>5, <1>6, <2>3 DEF Book!Crosses, Sides
  <2>5. s.price \in DOMAIN lv[side] /\ DOMAIN lv[side] \subseteq Int
    BY <1>1, <1>2, <2>3, <2>4, KeptFacts
  <2>6. PICK best : best = Best(side)
    OBVIOUS
  <2>7. /\ best \in DOMAIN lv[side]
        /\ \A p \in DOMAIN lv[side] : IF side = "Buy" THEN p <= best ELSE best <= p
    BY <1>1, <1>2, <1>3, <2>5, <2>6, BestIsBest
  <2>8. ~(IF c.side = "Buy" THEN best <= c.price ELSE best >= c.price)
    BY <1>1, <2>5, <2>6 DEF Resting, Crosses
  <2> QED
    BY <1>3, <1>5, <1>6, <2>3, <2>4, <2>5, <2>7, <2>8 DEF Book!Crosses, Sides
<1> QED
  BY <1>1, <1>3, <1>4, <1>6 DEF Book!Crossing

LEMMA RestRests ==
    ASSUME NEW own, Simple(own), Rest
    PROVE  Book!Rest
<1>1. /\ call \in Calls /\ Book!Crossing = {} /\ Resting
  BY RestingIsAlone DEF Rest
<1>2. /\ own \in [Sides -> SUBSET Nat] /\ next_sequence \in Nat
      /\ \A o : o \in BookOrders <=> IsOrder(node_pool.block, own, o)
  BY SimpleFacts DEF Kept
<1>3. PICK node, own2 : NodeJoined(own, call.side, node, Remainder, own2) /\ Sound(own2)'
  BY RestStep DEF Simple
<1>4. PICK order, new, side :
         /\ order = Remainder /\ side = call.side
         /\ new = [id |-> order.id, side |-> side, price |-> order.price,
                   quantity |-> order.quantity, sequence |-> order.sequence]
  OBVIOUS
<1>5. order \in RestingOrders /\ side \in Sides
  BY <1>1, <1>2, <1>4 DEF Remainder, RestingOrders, Calls, Resting
<1>6. \A o : IsOrder(node_pool'.block, own2, o) <=> IsOrder(node_pool.block, own, o) \/ o = new
  <2>1. NodeJoined(own, side, node, order, own2)
    BY <1>3, <1>4
  <2> QED
    BY <2>1, <1>2, <1>4, <1>5, OrdersJoined
<1>7. \A o : o \in BookOrders' <=> IsOrder(node_pool'.block, own2, o)
  <2>1. Kept(levels', node_pool', next_sequence', own2)
    BY <1>3 DEF Sound
  <2> QED
    BY <2>1, BookOrdersNext
<1>8. BookOrders' = BookOrders \cup {new}
  BY <1>2, <1>6, <1>7
<1>9. PICK inc : inc = IncomingOrder
  OBVIOUS
<1>10. /\ inc # Null /\ inc.quantity > 0
       /\ inc = [id |-> call.id, side |-> call.side, price |-> call.price, quantity |-> call.remaining]
  BY <1>1, <1>9, IncomingIs DEF Resting
<1>11. new = [id |-> inc.id, side |-> inc.side, price |-> inc.price,
              quantity |-> inc.quantity, sequence |-> next_sequence]
  BY <1>4, <1>10 DEF Remainder
<1>12. next_sequence' = next_sequence + 1 /\ IncomingOrder' = Null /\ outcome' = "trades" /\ trades' = trades
  BY DEF Rest, IncomingOrder
<1> QED
  BY <1>1, <1>8, <1>9, <1>10, <1>11, <1>12 DEF Book!Rest

(* The rest of a call, and its beginning.                                  *)
LEMMA SameBook ==
    ASSUME NEW own, Simple(own), UNCHANGED <<levels, node_pool, next_sequence>>
    PROVE  BookOrders' = BookOrders
<1>1. /\ Kept(levels, node_pool, next_sequence, own)
      /\ \A o : o \in BookOrders <=> IsOrder(node_pool.block, own, o)
  BY SimpleFacts
<1>2. \A o : o \in BookOrders' <=> IsOrder(node_pool'.block, own, o)
  BY <1>1, BookOrdersNext
<1> QED
  BY <1>1, <1>2

LEMMA ReturnReturns ==
    ASSUME NEW own, Simple(own), Return
    PROVE  Book!Return
<1>1. call \in Calls
  BY DEF Return, Simple, Sound, CallSound
<1>2. IncomingOrder # Null /\ IncomingOrder.quantity = 0
  BY <1>1, IncomingIs DEF Return
<1>3. BookOrders' = BookOrders
  BY SameBook DEF Return
<1> QED
  BY <1>2, <1>3 DEF Book!Return, Return, IncomingOrder

LEMMA SubmitSubmits ==
    ASSUME NEW own, Simple(own),
           NEW id \in OrderIds, NEW side \in Sides, NEW price \in Prices, NEW quantity \in Quantities,
           Submit(id, side, price, quantity)
    PROVE  Book!Submit([id |-> id, side |-> side, price |-> price, quantity |-> quantity])
<1>1. call' \in Calls /\ call'.id = id /\ call'.side = side /\ call'.price = price /\ call'.remaining = quantity
  BY PricesAssumption DEF Submit, Calls
<1>2. call' # Null
  BY <1>1, NoCallAssumption DEF Calls, Sides
<1>3. IncomingOrder' = [id |-> id, side |-> side, price |-> price, quantity |-> quantity]
  BY <1>1, <1>2 DEF IncomingOrder
<1>4. BookOrders' = BookOrders
  BY SameBook DEF Submit
<1>5. ~Book!IsResting(id)
  BY IdsResting DEF Submit, Simple
<1> QED
  BY <1>3, <1>4, <1>5 DEF Submit, Book!Submit, Idle, Book!Idle, IncomingOrder

LEMMA SubmitThrowsRefuses ==
    ASSUME NEW own, Simple(own), NEW order, NEW id, NEW quantity, order.id = id, order.quantity = quantity,
           SubmitThrows(id, quantity)
    PROVE  Book!Refuse(order)
<1>1. BookOrders' = BookOrders
  BY SameBook DEF SubmitThrows
<1>2. quantity <= 0 \/ Book!IsResting(id)
  BY IdsResting DEF SubmitThrows, Simple
<1> QED
  BY <1>1, <1>2 DEF SubmitThrows, Book!Refuse, Idle, Book!Idle, IncomingOrder


LEMMA CancelCancels ==
    ASSUME NEW own, Simple(own), NEW id \in OrderIds, Cancel(id)
    PROVE  Book!Cancel(id)
<1>1. /\ own \in [Sides -> SUBSET Nat] /\ OneNodePerId(node_pool.block, own)
      /\ \A o : o \in BookOrders <=> IsOrder(node_pool.block, own, o)
  BY SimpleFacts
<1>2. PICK side \in Sides : \E node, own2 :
              /\ node \in own[side] /\ node_pool.block[node].order.id = id
              /\ NodeLeft(own, side, node, own2) /\ Sound(own2)'
  BY CancelStep DEF Simple
<1>3. PICK node, own2 :
              /\ node \in own[side] /\ node_pool.block[node].order.id = id
              /\ NodeLeft(own, side, node, own2) /\ Sound(own2)'
  BY <1>2
<1>4. \A o : IsOrder(node_pool'.block, own2, o) <=> IsOrder(node_pool.block, own, o) /\ o.id # id
  BY <1>1, <1>3, OrdersLeft
<1>5. \A o : o \in BookOrders' <=> IsOrder(node_pool'.block, own2, o)
  <2>1. Kept(levels', node_pool', next_sequence', own2)
    BY <1>3 DEF Sound
  <2> QED
    BY <2>1, BookOrdersNext
<1>6. BookOrders' = {o \in BookOrders : o.id # id}
  BY <1>1, <1>4, <1>5
<1>7. Book!IsResting(id)
  BY IdsResting DEF Cancel, Simple
<1> QED
  BY <1>6, <1>7 DEF Cancel, Book!Cancel, Idle, Book!Idle, IncomingOrder

LEMMA CancelUnknownIsUnknown ==
    ASSUME NEW own, Simple(own), NEW id \in OrderIds, CancelUnknown(id)
    PROVE  Book!CancelUnknown(id)
<1>1. BookOrders' = BookOrders
  BY SameBook DEF CancelUnknown
<1>2. ~Book!IsResting(id)
  BY IdsResting DEF CancelUnknown, Simple
<1> QED
  BY <1>1, <1>2 DEF CancelUnknown, Book!CancelUnknown, Idle, Book!Idle, IncomingOrder

(* A book without levels has no orders.                                    *)
Bare == levels = [side \in Sides |-> <<>>] => BookOrders = {}

LEMMA NoLevelsNoOrders == Bare
BY DEF Bare, BookOrders, Linked

LEMMA NoLevelsNoOrdersNext == Bare'
BY NoLevelsNoOrders, PTL

LEMMA DestroyDestroys ==
    ASSUME Destroy
    PROVE  Book!Destroy
BY NoLevelsNoOrdersNext DEF Bare, Destroy, Book!Destroy, Idle, Book!Idle, IncomingOrder

(* Every level has a node, so none is met without.                         *)
LEMMA NoLevelToDrop ==
    ASSUME NEW own, Simple(own)
    PROVE  ~DropEmptyLevel
<1> SUFFICES ASSUME DropEmptyLevel PROVE FALSE
  OBVIOUS
<1>1. PICK side, best : side = Opposite(call.side) /\ best = Best(side)
  OBVIOUS
<1>2. /\ Matching /\ levels[side][best].head = Null /\ DOMAIN levels[side] # {}
  BY <1>1 DEF DropEmptyLevel, BestLevel, Matching, Crosses
<1>3. side \in Sides
  BY <1>1 DEF Opposite, Sides
<1>4. best \in DOMAIN levels[side]
  BY <1>1, <1>2, <1>3, SimpleFacts, BestIsBest
<1> QED
  BY <1>2, <1>3, <1>4 DEF Simple, NoEmptyLevel

LEMMA StepImplements ==
    ASSUME ~AllocationFails, Prices # {}, IInv, [Next]_vars
    PROVE  [Book!Next]_(Book!vars)
<1>1. CASE UNCHANGED vars
  <2>1. BookOrders' = BookOrders
    BY <1>1 DEF vars, BookOrders, Linked, LinkedAt, Queue, OrderIn
  <2> QED
    BY <1>1, <2>1 DEF vars, Book!vars, IncomingOrder
<1>2. CASE Next /\ outcome = "destroyed"
  <2>1. call = Null /\ ~Idle
    BY <1>2 DEF IInv, Gone, Idle
  <2> QED
    BY <1>2, <2>1 DEF Next, Continue, Submit, SubmitThrows, Consume, ConsumePart, DropEmptyLevel, Return, Rest,
        TradeThrows, LevelThrows, NodeThrows, LocationThrows, Cancel, CancelUnknown, Destroy, Matching, Resting
<1>3. CASE Next /\ outcome # "destroyed"
  <2>1. PICK own : Simple(own)
    BY <1>3 DEF IInv, Sound, Simple
  <2>2. ASSUME NEW id \in OrderIds, NEW side \in Sides, NEW price \in Prices, NEW quantity \in Quantities,
               Submit(id, side, price, quantity)
        PROVE  Book!Next
    BY <2>1, <2>2, SubmitSubmits DEF Book!Next, Sides, Book!Sides
  <2>3. ASSUME NEW id \in OrderIds, NEW quantity \in Quantities, SubmitThrows(id, quantity)
        PROVE  Book!Next
    <3>1. PICK price \in Prices : TRUE
      OBVIOUS
    <3>2. Book!Refuse([id |-> id, side |-> "Buy", price |-> price, quantity |-> quantity])
      BY <2>1, <2>3, SubmitThrowsRefuses
    <3> QED
      BY <3>1, <3>2 DEF Book!Next, Book!Sides
  <2>4. CASE Continue
    <3>1. ~DropEmptyLevel
      BY <2>1, NoLevelToDrop
    <3>2. Book!Match \/ Book!Return \/ Book!Rest
      BY <3>1, <2>1, <2>4, ConsumeMatches, ConsumePartMatches, ReturnReturns, RestRests
        DEF Continue, TradeThrows, LevelThrows, NodeThrows, LocationThrows, Throw
    <3> QED
      BY <3>2 DEF Book!Next
  <2>5. ASSUME NEW id \in OrderIds, Cancel(id) \/ CancelUnknown(id)
        PROVE  Book!Next
    BY <2>1, <2>5, CancelCancels, CancelUnknownIsUnknown DEF Book!Next
  <2>6. CASE Destroy
    BY <2>6, DestroyDestroys DEF Book!Next
  <2> QED
    BY <1>3, <2>2, <2>3, <2>4, <2>5, <2>6 DEF Next
<1> QED
  BY <1>1, <1>2, <1>3

(* The lists, levels and locations are an implementation of the set of     *)
(* orders that the header promises, in price-time priority                 *)
(* (order_book.hpp:90-115).                                                *)
THEOREM BookImplementsSpec ==
    ASSUME ~AllocationFails, Prices # {}
    PROVE  Spec => Book!Spec
<1>1. Init => Book!Init
  BY NoLevelsNoOrders DEF Bare, Init, Book!Init, IncomingOrder
<1>2. IInv /\ [Next]_vars => [Book!Next]_(Book!vars)
  BY StepImplements
<1> QED
  BY <1>1, <1>2, Invariance, PTL DEF Spec, Book!Spec

--------------------------------------------------------------------------------
(* The queries answer from the resting orders.  First, sums: w[s] is the   *)
(* sum of f over s, taken in the order in which CHOOSE takes them.         *)
SumAt(w, f, s) == IF s = {} THEN 0 ELSE f[CHOOSE x \in s : TRUE] + w[s \ {CHOOSE x \in s : TRUE}]
SumsOver(w, f, S) == \A s \in SUBSET S : w[s] = SumAt(w, f, s)
AnyFirst(w, f, s) == w[s] \in Int /\ \A x \in s : w[s] = f[x] + w[s \ {x}]

(* A sum takes the elements in an order of its own; any may come first.    *)
LEMMA SumInAnyOrder ==
    ASSUME NEW S, IsFiniteSet(S), NEW f \in [S -> Int], NEW w, SumsOver(w, f, S)
    PROVE  w[{}] = 0 /\ \A s \in SUBSET S : AnyFirst(w, f, s)
<1> DEFINE Fails == {k \in Nat : \E s \in SUBSET S : Cardinality(s) = k /\ ~AnyFirst(w, f, s)}
<1>1. w[{}] = 0
  BY DEF SumsOver, SumAt
<1>2. Fails = {}
  <2> SUFFICES ASSUME Fails # {} PROVE FALSE
    OBVIOUS
  <2>1. PICK k \in Fails : \A m \in Fails : k <= m
    <3>1. Fails \subseteq Nat
      OBVIOUS
    <3> HIDE DEF Fails
    <3> QED
      BY <3>1, LeastNatural
  <2>2. PICK s \in SUBSET S : Cardinality(s) = k /\ ~AnyFirst(w, f, s)
    OBVIOUS
  <2>3. k \in Nat /\ \A u \in SUBSET S : Cardinality(u) \in Nat /\ Cardinality(u) < k => AnyFirst(w, f, u)
    BY <2>1
  <2> HIDE DEF Fails
  <2>4. s # {}
    BY <1>1, <2>2 DEF AnyFirst
  <2>5. PICK e : e \in s /\ w[s] = f[e] + w[s \ {e}]
    <3>1. PICK e : e = CHOOSE x \in s : TRUE
      OBVIOUS
    <3>2. e \in s
      BY <2>4, <3>1
    <3> QED
      BY <2>4, <3>1, <3>2 DEF SumsOver, SumAt
  <2>6. ASSUME NEW x \in s PROVE AnyFirst(w, f, s \ {x}) /\ s \ {x} \in SUBSET S
    <3>1. PICK u : u = s \ {x}
      OBVIOUS
    <3>2. u \in SUBSET S /\ Cardinality(u) = k - 1
      BY <2>2, <3>1, OneElementLess
    <3>3. Cardinality(s) > 0
      BY OneElementLess
    <3> QED
      BY <2>2, <2>3, <3>1, <3>2, <3>3
  <2>7. ASSUME NEW x \in s PROVE w[s] = f[x] + w[s \ {x}]
    <3>1. CASE x = e
      BY <2>5, <3>1
    <3>2. CASE x # e
      <4>1. PICK a, b, c, d : /\ a = w[s \ {e}] /\ b = w[s \ {x}] /\ c = w[(s \ {e}) \ {x}]
                              /\ d = w[(s \ {x}) \ {e}]
        OBVIOUS
      <4>2. a = f[x] + c /\ b = f[e] + d
        <5>1. x \in s \ {e} /\ e \in s \ {x}
          BY <2>5, <3>2
        <5> QED
          BY <2>5, <2>6, <4>1, <5>1 DEF AnyFirst
      <4>3. (s \ {e}) \ {x} = (s \ {x}) \ {e}
        OBVIOUS
      <4>4. c = d
        BY <4>1, <4>3
      <4>5. f[x] \in Int /\ f[e] \in Int /\ a \in Int /\ b \in Int
        BY <2>5, <2>6, <4>1 DEF AnyFirst
      <4>6. c \in Int
        <5>1. PICK u : u = s \ {e}
          OBVIOUS
        <5>2. u \in SUBSET S /\ x \in u /\ Cardinality(u) = k - 1 /\ Cardinality(u) > 0
          <6>1. Cardinality(s \ {e}) = k - 1 /\ s \ {e} \in SUBSET S
            BY <2>2, <2>5, OneElementLess
          <6>2. x \in u /\ u \in SUBSET S
            BY <3>2, <5>1, <6>1
          <6>3. Cardinality(u) > 0
            BY <6>2, OneElementLess
          <6> QED
            BY <5>1, <6>1, <6>2, <6>3
        <5>3. PICK v : v = u \ {x}
          OBVIOUS
        <5>4. v \in SUBSET S /\ Cardinality(v) = (k - 1) - 1 /\ Cardinality(v) \in Nat
          <6>1. v \in SUBSET S /\ Cardinality(v) = Cardinality(u) - 1 /\ Cardinality(u) \in Nat
            BY <5>2, <5>3, OneElementLess
          <6> QED
            BY <5>2, <6>1, <2>3
        <5>5. AnyFirst(w, f, v)
          BY <2>3, <5>2, <5>4
        <5> QED
          BY <4>1, <5>1, <5>3, <5>5 DEF AnyFirst
      <4> QED
        BY <2>5, <4>1, <4>2, <4>4, <4>5, <4>6
    <3> QED
      BY <3>1, <3>2
  <2>8. w[s] \in Int
    <3>1. f[e] \in Int /\ w[s \ {e}] \in Int
      BY <2>5, <2>6 DEF AnyFirst
    <3> QED
      BY <2>5, <3>1
  <2> QED
    BY <2>2, <2>7, <2>8 DEF AnyFirst
<1>3. ASSUME NEW s \in SUBSET S PROVE AnyFirst(w, f, s)
  <2>1. Cardinality(s) \in Nat
    BY FS_Subset, FS_CardinalityType
  <2> QED
    BY <2>1, <1>2
<1> QED
  BY <1>1, <1>3

(* A running total of the numbers x of the positions 1 .. n.               *)
RunningTotal(t, x, n) == t \in [0 .. n -> Int] /\ t[0] = 0 /\ \A k \in 1 .. n : t[k] = t[k - 1] + x[k]

(* q lists the n elements of S, each once; x are the numbers f of them.    *)
Lists(S, q, n) ==
    /\ n \in Nat /\ q \in [1 .. n -> S]
    /\ \A b \in S : \E i \in 1 .. n : q[i] = b
    /\ \A i, j \in 1 .. n : q[i] = q[j] => i = j
Images(x, f, q, n) == \A k \in 1 .. n : x[k] = f[q[k]]

(* The sum over a set is the total along any enumeration of it.            *)
LEMMA SumAlong ==
    ASSUME NEW S, IsFiniteSet(S), NEW f \in [S -> Int], NEW w, SumsOver(w, f, S),
           NEW n, NEW q, Lists(S, q, n), NEW x, Images(x, f, q, n), NEW t, RunningTotal(t, x, n)
    PROVE  w[S] = t[n]
<1>4. /\ n \in Nat /\ q \in [1 .. n -> S]
      /\ \A b \in S : \E i \in 1 .. n : q[i] = b
      /\ \A i, j \in 1 .. n : q[i] = q[j] => i = j
      /\ \A k \in 1 .. n : x[k] = f[q[k]]
  BY DEF Lists, Images
<1> DEFINE upTo(k) == {q[i] : i \in 1 .. k}
           Fails == {k \in 0 .. n : w[upTo(k)] # t[k]}
<1>1. w[{}] = 0 /\ \A s \in SUBSET S : AnyFirst(w, f, s)
  BY SumInAnyOrder
<1>2. Fails = {}
  <2> SUFFICES ASSUME Fails # {} PROVE FALSE
    OBVIOUS
  <2>1. PICK k \in Fails : \A m \in Fails : k <= m
    <3>1. Fails \subseteq Nat
      BY <1>4
    <3> HIDE DEF Fails
    <3> QED
      BY <3>1, LeastNatural
  <2>2. k \in 0 .. n /\ w[upTo(k)] # t[k] /\ (k - 1 \in 0 .. n => w[upTo(k - 1)] = t[k - 1])
    <3>1. k \in 0 .. n /\ w[upTo(k)] # t[k]
      BY <2>1
    <3>2. k - 1 \in 0 .. n => k - 1 \notin Fails
      <4>1. ~(k <= k - 1)
        BY <1>4, <3>1
      <4> HIDE DEF Fails
      <4> QED
        BY <2>1, <4>1
    <3> QED
      BY <3>1, <3>2
  <2> HIDE DEF Fails
  <2>3. k # 0
    <3>1. upTo(0) = {}
      OBVIOUS
    <3> QED
      BY <1>1, <2>2, <3>1 DEF RunningTotal
  <2>4. k \in 1 .. n /\ k - 1 \in 0 .. n
    BY <1>4, <2>2, <2>3
  <2>5. upTo(k) \in SUBSET S /\ q[k] \in upTo(k) /\ upTo(k) \ {q[k]} = upTo(k - 1)
    <3>1. \A i \in 1 .. k : i \in 1 .. n /\ (i # k => i \in 1 .. k - 1)
      BY <1>4, <2>4
    <3>2. \A i \in 1 .. k - 1 : i \in 1 .. k /\ i # k
      BY <1>4, <2>4
    <3>3. k \in 1 .. k
      BY <1>4, <2>4
    <3> QED
      BY <1>4, <2>4, <3>1, <3>2, <3>3
  <2>6. w[upTo(k)] = f[q[k]] + w[upTo(k - 1)]
    <3>1. PICK s, e : s = upTo(k) /\ e = q[k]
      OBVIOUS
    <3>2. s \in SUBSET S /\ e \in s /\ s \ {e} = upTo(k - 1)
      BY <2>5, <3>1
    <3>3. w[s] = f[e] + w[s \ {e}]
      BY <1>1, <3>2 DEF AnyFirst
    <3> HIDE DEF upTo
    <3> QED
      BY <3>1, <3>2, <3>3
  <2>7. t[k] = t[k - 1] + x[k] /\ t[k - 1] \in Int /\ x[k] = f[q[k]] /\ f[q[k]] \in Int
    BY <1>4, <2>4 DEF RunningTotal
  <2> HIDE DEF upTo
  <2> QED
    BY <1>4, <2>2, <2>4, <2>6, <2>7
<1>3. n \in 0 .. n /\ upTo(n) = S
  BY <1>4
<1> QED
  BY <1>2, <1>3

LEMMA TotalsAreNumbers ==
    ASSUME NEW n \in Nat, NEW x, \A k \in 1 .. n : x[k] \in Int,
           NEW t, t = [k \in 0 .. n |-> t[k]], t[0] = 0, \A k \in 1 .. n : t[k] = t[k - 1] + x[k]
    PROVE  RunningTotal(t, x, n)
<1> DEFINE Fails == {k \in 0 .. n : t[k] \notin Int}
<1>1. Fails = {}
  <2> SUFFICES ASSUME Fails # {} PROVE FALSE
    OBVIOUS
  <2>1. PICK k \in Fails : \A m \in Fails : k <= m
    <3>1. Fails \subseteq Nat
      OBVIOUS
    <3> HIDE DEF Fails
    <3> QED
      BY <3>1, LeastNatural
  <2>2. k \in 1 .. n /\ t[k] \notin Int
    BY <2>1
  <2>3. ~(k <= k - 1) /\ k - 1 \in 0 .. n
    BY <2>2
  <2>4. k - 1 \notin Fails
    <3> HIDE DEF Fails
    <3> QED
      BY <2>1, <2>3
  <2>5. t[k - 1] \in Int
    BY <2>3, <2>4
  <2>6. t[k - 1] + x[k] \in Int
    BY <2>2, <2>5
  <2> QED
    BY <2>2, <2>6
<1>2. t \in [0 .. n -> Int]
  BY <1>1
<1> QED
  BY <1>2 DEF RunningTotal

--------------------------------------------------------------------------------
(* The sum of the quantities of some orders, as the properties take it.    *)
TotalOf(orders) == MapThenSumSet(LAMBDA o : o.quantity, orders)
QuantitiesOf(orders) == [o \in orders |-> o.quantity]
AnyOf(S) == [s \in SUBSET S |-> CHOOSE x \in s : TRUE]

LEMMA TotalIsSum ==
    ASSUME NEW T, IsFiniteSet(T), \A o \in T : o.quantity \in Int
    PROVE  \E w : SumsOver(w, QuantitiesOf(T), T) /\ TotalOf(T) = w[T]
<1> DEFINE f == QuantitiesOf(T)
           Solves(h) == h = [s \in SUBSET T |-> IF s = {} THEN 0
                                 ELSE (CHOOSE x \in s : TRUE).quantity + h[s \ {CHOOSE x \in s : TRUE}]]
<1>1. f \in [T -> Int] /\ \A o \in T : f[o] = o.quantity
  BY DEF QuantitiesOf
<1>2. ASSUME NEW h, NEW s \in SUBSET T
      PROVE  /\ FoldAt("add before", h, 0, f, AnyOf(T), s) = SumAt(h, f, s)
             /\ SumAt(h, f, s) = IF s = {} THEN 0
                   ELSE (CHOOSE x \in s : TRUE).quantity + h[s \ {CHOOSE x \in s : TRUE}]
  <2>1. CASE s = {}
    BY <2>1 DEF SumAt, FoldAt
  <2>2. CASE s # {}
    <3>1. PICK e : e = CHOOSE x \in s : TRUE
      OBVIOUS
    <3>2. e \in T
      BY <2>2, <3>1
    <3>3. f[e] = e.quantity /\ AnyOf(T)[s] = e
      BY <1>1, <3>1, <3>2 DEF AnyOf
    <3>4. Made("add before", h[s \ {e}], f[e]) = f[e] + h[s \ {e}]
      BY DEF Made
    <3> HIDE DEF f
    <3> QED
      BY <2>2, <3>1, <3>3, <3>4 DEF SumAt, FoldAt
  <2> QED
    BY <2>1, <2>2
<1>3. ASSUME NEW h PROVE Solves(h) <=> FoldsTo("add before", h, 0, f, AnyOf(T), T)
  <2> HIDE DEF f
  <2>1. ASSUME NEW s \in SUBSET T
        PROVE  FoldAt("add before", h, 0, f, AnyOf(T), s) =
                 IF s = {} THEN 0
                 ELSE (CHOOSE x \in s : TRUE).quantity + h[s \ {CHOOSE x \in s : TRUE}]
    BY <1>2
  <2> QED
    BY <2>1 DEF FoldsTo
<1>4. PICK solved : Solves(solved)
  <2>1. Picks(AnyOf(T), T)
    BY DEF Picks, AnyOf
  <2>2. PICK op, base, pick : op = "add before" /\ base = 0 /\ pick = AnyOf(T)
    OBVIOUS
  <2> HIDE DEF f
  <2>3. PICK w : FoldsTo(op, w, base, f, pick, T)
    BY <2>1, <2>2, FoldExists
  <2> HIDE DEF Solves
  <2> QED
    BY <1>3, <2>2, <2>3
<1>5. PICK g : g = CHOOSE h : Solves(h)
  OBVIOUS
<1>6. TotalOf(T) = g[T]
  BY <1>5 DEF TotalOf, MapThenSumSet, MapThenFoldSet
<1> HIDE DEF Solves, f
<1>7. FoldsTo("add before", g, 0, f, AnyOf(T), T)
  BY <1>3, <1>4, <1>5
<1>8. SumsOver(g, f, T)
  BY <1>2, <1>7 DEF SumsOver, FoldsTo
<1> QED
  BY <1>6, <1>8 DEF f

(* sum_quantity adds along the list.                                       *)
QuantitiesListed(level, x, n) ==
    /\ n \in Nat /\ DOMAIN Nodes(node_pool, level) = 1 .. n
    /\ x = [k \in 1 .. n |-> node_pool.block[Nodes(node_pool, level)[k]].order.quantity]
    /\ \A k \in 1 .. n : x[k] \in Int

LEMMA QuantityAlong ==
    ASSUME NEW level, NEW x, NEW n, QuantitiesListed(level, x, n)
    PROVE  \E t : RunningTotal(t, x, n) /\ sum_quantity(level) = t[n]
<1>0. PICK q : q = Nodes(node_pool, level)
  OBVIOUS
<1>10. /\ n \in Nat /\ DOMAIN q = 1 .. n /\ \A k \in 1 .. n : x[k] \in Int
      /\ x = [k \in 1 .. n |-> node_pool.block[q[k]].order.quantity]
  BY <1>0 DEF QuantitiesListed
<1> DEFINE S == 1 .. n
           Solves(h) == h = [s \in SUBSET S |-> IF s = {} THEN 0
                                ELSE h[s \ {Max(s)}] + node_pool.block[q[Max(s)]].order.quantity]
<1>1. ASSUME NEW h, NEW s \in SUBSET S
      PROVE  FoldAt("add", h, 0, x, LastOf(n), s) =
               IF s = {} THEN 0 ELSE h[s \ {Max(s)}] + node_pool.block[q[Max(s)]].order.quantity
  <2>1. CASE s = {}
    BY <2>1 DEF FoldAt
  <2>2. CASE s # {}
    <3>1. PICK e : e = Max(s)
      OBVIOUS
    <3>2. LastOf(n)[s] = e /\ e \in S
      BY <1>10, <2>2, <3>1, LastIsPicked DEF LastOf, Picks
    <3>3. x[e] = node_pool.block[q[e]].order.quantity
      BY <1>10, <3>2
    <3>4. Made("add", h[s \ {e}], x[e]) = h[s \ {e}] + x[e]
      BY DEF Made
    <3> QED
      BY <2>2, <3>1, <3>2, <3>3, <3>4 DEF FoldAt
  <2> QED
    BY <2>1, <2>2
<1>2. ASSUME NEW h PROVE Solves(h) <=> FoldsTo("add", h, 0, x, LastOf(n), S)
  BY <1>1 DEF FoldsTo
<1>3. PICK w : FoldsTo("add", w, 0, x, LastOf(n), S)
  <2>1. PICK op, base : op = "add" /\ base = 0
    OBVIOUS
  <2>2. \E w : FoldsTo(op, w, base, x, LastOf(n), S)
    BY <1>10, LastIsPicked, FoldExists
  <2> QED
    BY <2>1, <2>2
<1>4. PICK g : g = CHOOSE h : Solves(h)
  OBVIOUS
<1>5. sum_quantity(level) = g[S]
  BY <1>0, <1>10, <1>4 DEF sum_quantity, FoldLeft, MapThenFoldSet
<1>6. FoldsTo("add", g, 0, x, LastOf(n), S)
  <2>1. Solves(w)
    BY <1>2, <1>3
  <2> HIDE DEF Solves
  <2>2. Solves(g)
    BY <1>4, <2>1
  <2> QED
    BY <1>2, <2>2
<1>7. PICK t : Along("add", t, 0, x, n) /\ t[n] = g[S]
  <2>1. PICK op, base, y : op = "add" /\ base = 0 /\ y = x
    OBVIOUS
  <2>2. FoldsAlong(op, g, base, y, n)
    BY <1>6, <2>1 DEF FoldsAlong
  <2>3. \E h : Along(op, h, base, y, n) /\ h[n] = g[1 .. n]
    BY <1>10, <2>2, PrefixesFold
  <2> QED
    BY <2>1, <2>3
<1> DEFINE u == [k \in 0 .. n |-> t[k]]
<1>8. u[0] = 0 /\ (\A k \in 1 .. n : u[k] = u[k - 1] + x[k]) /\ u[n] = g[S] /\ u = [k \in 0 .. n |-> u[k]]
  <2>1. t[0] = 0 /\ \A k \in 1 .. n : t[k] = t[k - 1] + x[k]
    BY <1>10, <1>7 DEF Along, Made
  <2> QED
    BY <1>10, <1>7, <2>1
<1> HIDE DEF u
<1>9. RunningTotal(u, x, n)
  BY <1>10, <1>8, TotalsAreNumbers
<1> QED
  BY <1>5, <1>8, <1>9

--------------------------------------------------------------------------------
(* There is one way to list a set by ascending key.                        *)
Ascending(S, key, q, n) ==
    /\ n \in Nat /\ q \in [1 .. n -> S]
    /\ \A x \in S : \E i \in 1 .. n : q[i] = x
    /\ \A i, j \in 1 .. n : i < j => key[q[i]] < key[q[j]]

LEMMA AgreeAsFar ==
    ASSUME NEW S, NEW key, \A x \in S : key[x] \in Int,
           NEW q, NEW n, Ascending(S, key, q, n), NEW r, NEW m, Ascending(S, key, r, m)
    PROVE  \A k \in 1 .. n : k <= m => q[k] = r[k]
<1>1. /\ n \in Nat /\ q \in [1 .. n -> S]
      /\ \A x \in S : \E i \in 1 .. n : q[i] = x
      /\ \A i, j \in 1 .. n : i < j => key[q[i]] < key[q[j]]
  BY DEF Ascending
<1>2. /\ m \in Nat /\ r \in [1 .. m -> S]
      /\ \A x \in S : \E i \in 1 .. m : r[i] = x
      /\ \A i, j \in 1 .. m : i < j => key[r[i]] < key[r[j]]
  BY DEF Ascending
<1> DEFINE Fails == {k \in 1 .. n : k <= m /\ q[k] # r[k]}
<1>3. Fails = {}
  <2> SUFFICES ASSUME Fails # {} PROVE FALSE
    OBVIOUS
  <2>1. PICK k \in Fails : \A i \in Fails : k <= i
    <3>1. Fails \subseteq Nat
      BY <1>1
    <3> HIDE DEF Fails
    <3> QED
      BY <3>1, LeastNatural
  <2>2. k \in 1 .. n /\ k \in 1 .. m /\ q[k] # r[k]
    BY <1>1, <1>2, <2>1
  <2>3. \A i \in 1 .. n : i < k => q[i] = r[i]
    <3> SUFFICES ASSUME NEW i \in 1 .. n, i < k PROVE q[i] = r[i]
      OBVIOUS
    <3>1. i \notin Fails
      <4>1. ~(k <= i)
        BY <1>1, <2>2
      <4> HIDE DEF Fails
      <4> QED
        BY <2>1, <4>1
    <3> QED
      BY <3>1, <1>1, <1>2, <2>2
  <2> HIDE DEF Fails
  <2>4. PICK j \in 1 .. m : r[j] = q[k]
    BY <1>1, <1>2, <2>2
  <2>5. PICK i \in 1 .. n : q[i] = r[k]
    BY <1>1, <1>2, <2>2
  <2>6. k < j
    <3>1. j # k
      BY <2>2, <2>4
    <3>2. ~(j < k)
      <4> SUFFICES ASSUME j < k PROVE FALSE
        OBVIOUS
      <4>1. j \in 1 .. n /\ q[j] = r[j] /\ q[j] \in S
        BY <1>1, <1>2, <2>2, <2>3
      <4>2. key[q[j]] < key[q[k]] /\ key[q[j]] \in Int
        BY <1>1, <2>2, <4>1
      <4>3. key[q[j]] = key[q[k]]
        BY <2>4, <4>1
      <4> QED
        BY <4>2, <4>3
    <3> QED
      BY <3>1, <3>2, <1>1, <1>2, <2>2
  <2>7. k < i
    <3>1. i # k
      BY <2>2, <2>5
    <3>2. ~(i < k)
      <4> SUFFICES ASSUME i < k PROVE FALSE
        OBVIOUS
      <4>1. i \in 1 .. m /\ q[i] = r[i] /\ r[i] \in S
        BY <1>1, <1>2, <2>2, <2>3
      <4>2. key[r[i]] < key[r[k]] /\ key[r[i]] \in Int
        BY <1>2, <2>2, <4>1
      <4>3. key[r[i]] = key[r[k]]
        BY <2>5, <4>1
      <4> QED
        BY <4>2, <4>3
    <3> QED
      BY <3>1, <3>2, <1>1, <1>2, <2>2
  <2>8. PICK a, b : a = key[q[k]] /\ b = key[r[k]]
    OBVIOUS
  <2>9. a \in Int /\ b \in Int
    BY <1>1, <1>2, <2>2, <2>8
  <2>10. b < key[r[j]] /\ key[r[j]] = a
    BY <1>2, <2>2, <2>4, <2>6, <2>8
  <2>11. a < key[q[i]] /\ key[q[i]] = b
    BY <1>1, <2>2, <2>5, <2>7, <2>8
  <2> QED
    BY <2>9, <2>10, <2>11
<1> QED
  BY <1>3

LEMMA NotLonger ==
    ASSUME NEW S, NEW key, \A x \in S : key[x] \in Int,
           NEW q, NEW n, Ascending(S, key, q, n), NEW r, NEW m, Ascending(S, key, r, m)
    PROVE  m <= n
<1>1. n \in Nat /\ q \in [1 .. n -> S] /\ \A x \in S : \E i \in 1 .. n : q[i] = x
  BY DEF Ascending
<1>2. m \in Nat /\ r \in [1 .. m -> S] /\ \A i, j \in 1 .. m : i < j => key[r[i]] < key[r[j]]
  BY DEF Ascending
<1> SUFFICES ASSUME ~(m <= n) PROVE FALSE
  OBVIOUS
<1>3. n + 1 \in 1 .. m /\ r[n + 1] \in S
  BY <1>1, <1>2
<1>4. PICK i \in 1 .. n : q[i] = r[n + 1]
  BY <1>1, <1>3
<1>5. i \in 1 .. m /\ i < n + 1 /\ q[i] = r[i] /\ r[i] \in S
  <2>1. i \in 1 .. m /\ i < n + 1 /\ i <= m
    BY <1>1, <1>2
  <2>2. q[i] = r[i]
    BY <2>1, AgreeAsFar
  <2> QED
    BY <2>1, <2>2, <1>2
<1>6. key[r[i]] < key[r[n + 1]] /\ key[r[i]] \in Int
  BY <1>2, <1>3, <1>5
<1>7. key[r[i]] = key[r[n + 1]]
  BY <1>4, <1>5
<1> QED
  BY <1>6, <1>7

LEMMA OneAscendingList ==
    ASSUME NEW S, NEW key, \A x \in S : key[x] \in Int,
           NEW q, NEW n, Ascending(S, key, q, n), NEW r, NEW m, Ascending(S, key, r, m)
    PROVE  q = r
<1>1. m <= n /\ n <= m
  BY NotLonger
<1>2. n \in Nat /\ m \in Nat /\ q \in [1 .. n -> S] /\ r \in [1 .. m -> S]
  BY DEF Ascending
<1>3. n = m
  BY <1>1, <1>2
<1>4. \A k \in 1 .. n : q[k] = r[k]
  BY <1>1, <1>2, <1>3, AgreeAsFar
<1> QED
  BY <1>2, <1>3, <1>4

--------------------------------------------------------------------------------
(* The book between calls: the locations are the nodes of the lists, and   *)
(* no level is empty.                                                      *)
Shown(own) ==
    /\ Kept(levels, node_pool, next_sequence, own) /\ Located(locations, node_pool, own)
    /\ Found(locations, node_pool, own) /\ NoEmptyLevel(levels)

OrdersAt(side, price) == {o \in {r \in BookOrders : r.side = side} : o.price = price}
OldestFirst(orders) == InOrderOf(orders, LAMBDA o : o.sequence)

(* The orders at a price are the orders of its nodes.                      *)
LEMMA OrdersOfNodes ==
    ASSUME NEW own, Shown(own), NEW side \in Sides, NEW price,
           NEW S, S = At(node_pool.block, own[side], price)
    PROVE  \A o : o \in OrdersAt(side, price) <=> \E n \in S : o = OrderOf(node_pool.block, side, n)
<1>1. PICK block : block = node_pool.block
  OBVIOUS
<1>2. \A o : o \in BookOrders <=> IsOrder(block, own, o)
  BY <1>1, BookOrdersAre DEF Shown
<1>3. \A t, n : OrderOf(block, t, n).side = t /\ OrderOf(block, t, n).price = block[n].order.price
  BY DEF OrderOf
<1>4. ASSUME NEW o \in OrdersAt(side, price) PROVE \E n \in S : o = OrderOf(block, side, n)
  <2>1. o \in BookOrders /\ o.side = side /\ o.price = price
    BY DEF OrdersAt
  <2>2. PICK t \in Sides : \E n \in own[t] : o = OrderOf(block, t, n)
    BY <1>2, <2>1 DEF IsOrder
  <2>3. PICK n \in own[t] : o = OrderOf(block, t, n)
    BY <2>2
  <2>4. t = side /\ block[n].order.price = price
    BY <1>3, <2>1, <2>3
  <2> QED
    BY <1>1, <2>3, <2>4 DEF At
<1>5. ASSUME NEW n \in S, NEW o, o = OrderOf(block, side, n) PROVE o \in OrdersAt(side, price)
  <2>1. n \in own[side] /\ block[n].order.price = price
    BY <1>1 DEF At
  <2>2. o \in BookOrders /\ o.side = side /\ o.price = price
    BY <1>2, <1>3, <1>5, <2>1 DEF IsOrder
  <2> QED
    BY <2>2 DEF OrdersAt
<1> QED
  BY <1>1, <1>4, <1>5

(* The orders of a level, in the order of its list.                        *)
OrdersAlong(own, side, price, q, r, n) ==
    /\ n \in Nat /\ q = Queue(side, price) /\ DOMAIN q = 1 .. n
    /\ r = [k \in 1 .. n |-> OrderOf(node_pool.block, side, q[k])]
    /\ Ascending(OrdersAt(side, price), SequenceKey(OrdersAt(side, price)), r, n)
    /\ \A o \in OrdersAt(side, price) : o.sequence \in Nat /\ o.quantity \in Nat
    /\ \A k \in 1 .. n : r[k].id = node_pool.block[q[k]].order.id
                         /\ r[k].quantity = node_pool.block[q[k]].order.quantity

LEMMA LevelInOrder ==
    ASSUME NEW own, Shown(own), NEW side \in Sides, NEW price \in DOMAIN levels[side]
    PROVE  \E q, r, n : OrdersAlong(own, side, price, q, r, n)
<1>1. PICK block, S, q, OA : /\ block = node_pool.block /\ S = At(block, own[side], price)
                             /\ q = Queue(side, price) /\ OA = OrdersAt(side, price)
  OBVIOUS
<1>2. PICK n \in Nat : InOrder(block, S, q, n)
  BY <1>1, QueueInOrder DEF Shown
<1>3. /\ q \in [1 .. n -> S] /\ DOMAIN q = 1 .. n
      /\ \A b \in S : \E i \in 1 .. n : q[i] = b
      /\ \A i, j \in 1 .. n : i < j => block[q[i]].order.sequence < block[q[j]].order.sequence
  BY <1>2 DEF InOrder, Age
<1>4. PICK r : r = [k \in 1 .. n |-> OrderOf(block, side, q[k])]
  OBVIOUS
<1>5. \A o : o \in OA <=> \E b \in S : o = OrderOf(block, side, b)
  BY <1>1, OrdersOfNodes
<1>6. \A b \in S : /\ OrderOf(block, side, b).id = block[b].order.id
                   /\ OrderOf(block, side, b).sequence = block[b].order.sequence
                   /\ OrderOf(block, side, b).quantity = block[b].order.quantity
                   /\ block[b].order.sequence \in Nat /\ block[b].order.quantity \in Nat
  <2>1. \A b \in own[side] : block[b].order \in RestingOrders
    BY <1>1, KeptFacts DEF Shown
  <2> QED
    BY <2>1, <1>1 DEF At, RestingOrders, OrderOf
<1>7. \A o \in OA : o.sequence \in Nat /\ o.quantity \in Nat
  BY <1>5, <1>6
<1>8. ASSUME NEW k \in 1 .. n
      PROVE  /\ r[k] \in OA /\ r[k].id = block[q[k]].order.id /\ r[k].quantity = block[q[k]].order.quantity
             /\ r[k].sequence = block[q[k]].order.sequence
  <2>1. q[k] \in S /\ r[k] = OrderOf(block, side, q[k])
    BY <1>3, <1>4
  <2> QED
    BY <2>1, <1>5, <1>6
<1>9. PICK key : key = SequenceKey(OA)
  OBVIOUS
<1>10. Ascending(OA, key, r, n)
  <2>1. r \in [1 .. n -> OA]
    BY <1>4, <1>8
  <2>2. ASSUME NEW o \in OA PROVE \E i \in 1 .. n : r[i] = o
    <3>1. PICK b \in S : o = OrderOf(block, side, b)
      BY <1>5
    <3>2. PICK i \in 1 .. n : q[i] = b
      BY <1>3
    <3> QED
      BY <3>1, <3>2, <1>4
  <2>3. \A i, j \in 1 .. n : i < j => key[r[i]] < key[r[j]]
    <3>1. \A k \in 1 .. n : key[r[k]] = block[q[k]].order.sequence
      BY <1>8, <1>9 DEF SequenceKey
    <3> QED
      BY <3>1, <1>3
  <2> QED
    BY <2>1, <2>2, <2>3 DEF Ascending
<1>11. OrdersAlong(own, side, price, q, r, n)
  BY <1>1, <1>3, <1>4, <1>7, <1>8, <1>9, <1>10 DEF OrdersAlong
<1> QED
  BY <1>11

(* The orders at a price are finitely many, of different sequence numbers. *)
LEMMA OrdersAtAreFinite ==
    ASSUME NEW T, NEW r, NEW n, Ascending(T, SequenceKey(T), r, n), \A o \in T : o.sequence \in Nat
    PROVE  /\ IsFiniteSet(T) /\ (\A o, p \in T : o.sequence = p.sequence => o = p)
           /\ \A i, j \in 1 .. n : r[i] = r[j] => i = j
<1>1. /\ n \in Nat /\ r \in [1 .. n -> T] /\ \A x \in T : \E i \in 1 .. n : r[i] = x
      /\ \A i, j \in 1 .. n : i < j => r[i].sequence < r[j].sequence
  BY DEF Ascending, SequenceKey
<1>2. IsFiniteSet(T)
  <2>1. IsFiniteSet(1 .. n)
    BY <1>1, LastIsPicked
  <2>2. r \in Surjection(1 .. n, T)
    BY <1>1 DEF Surjection
  <2> QED
    BY <2>1, <2>2, FS_Surjection
<1>3. ASSUME NEW i \in 1 .. n, NEW j \in 1 .. n, r[i].sequence = r[j].sequence PROVE i = j
  <2>1. r[i].sequence \in Nat /\ r[j].sequence \in Nat
    BY <1>1
  <2>2. ~(i < j) /\ ~(j < i)
    BY <1>1, <1>3, <2>1
  <2> QED
    BY <1>1, <2>2
<1>4. ASSUME NEW o \in T, NEW p \in T, o.sequence = p.sequence PROVE o = p
  <2>1. PICK i \in 1 .. n, j \in 1 .. n : r[i] = o /\ r[j] = p
    BY <1>1
  <2>2. i = j
    BY <2>1, <1>3, <1>4
  <2> QED
    BY <2>1, <2>2
<1> QED
  BY <1>2, <1>3, <1>4

(* orders_at and quantity_at describe these orders.                        *)
QueriesAt(side, price) ==
    /\ quantity_at(side, price) = TotalOf(OrdersAt(side, price))
    /\ orders_at(side, price) =
          [i \in DOMAIN OldestFirst(OrdersAt(side, price)) |-> OldestFirst(OrdersAt(side, price))[i].id]

LEMMA LevelIsShown ==
    ASSUME NEW own, Shown(own), NEW side \in Sides, NEW price \in DOMAIN levels[side]
    PROVE  QueriesAt(side, price)
<1>1. PICK q, r, n : OrdersAlong(own, side, price, q, r, n)
  BY LevelInOrder
<1>2. PICK T, level : T = OrdersAt(side, price) /\ level = levels[side][price]
  OBVIOUS
<1>3. /\ n \in Nat /\ q = Nodes(node_pool, level) /\ DOMAIN q = 1 .. n
      /\ Ascending(T, SequenceKey(T), r, n)
      /\ \A o \in T : o.sequence \in Nat /\ o.quantity \in Nat
      /\ \A k \in 1 .. n : r[k].id = node_pool.block[q[k]].order.id
                           /\ r[k].quantity = node_pool.block[q[k]].order.quantity
  BY <1>1, <1>2 DEF OrdersAlong, Queue
<1>4. /\ IsFiniteSet(T) /\ (\A o, p \in T : o.sequence = p.sequence => o = p)
      /\ \A i, j \in 1 .. n : r[i] = r[j] => i = j
  BY <1>3, OrdersAtAreFinite
<1>5. r \in [1 .. n -> T] /\ \A o \in T : \E i \in 1 .. n : r[i] = o
  BY <1>3 DEF Ascending
<1>6. OldestFirst(T) = r
  <2>1. PICK oldest, key, m : oldest = OldestFirst(T) /\ key = SequenceKey(T) /\ m = Cardinality(T)
    OBVIOUS
  <2>2. ByKey(T, key, oldest, m)
    BY <1>3, <1>4, <2>1, OrdersByAge DEF OldestFirst
  <2>3. Ascending(T, key, oldest, m)
    BY <2>2 DEF ByKey, Ascending
  <2>4. \A o \in T : key[o] \in Int
    BY <1>3, <2>1 DEF SequenceKey
  <2>5. Ascending(T, key, r, n)
    BY <1>3, <2>1
  <2> QED
    BY <2>1, <2>3, <2>4, <2>5, OneAscendingList
<1>7. orders_at(side, price) = [i \in DOMAIN r |-> r[i].id]
  <2>1. orders_at(side, price) = [i \in 1 .. n |-> node_pool.block[q[i]].order.id]
    BY <1>2, <1>3 DEF orders_at, collect_ids
  <2> QED
    BY <2>1, <1>3, <1>5
<1>8. quantity_at(side, price) = TotalOf(T)
  <2>1. PICK x : x = [k \in 1 .. n |-> node_pool.block[q[k]].order.quantity]
    OBVIOUS
  <2>2. PICK f : f = QuantitiesOf(T)
    OBVIOUS
  <2>3. f \in [T -> Int] /\ \A o \in T : f[o] = o.quantity
    BY <1>3, <2>2 DEF QuantitiesOf
  <2>4. ASSUME NEW k \in 1 .. n PROVE x[k] = f[r[k]] /\ x[k] \in Int
    <3>1. r[k] \in T
      BY <1>5
    <3>2. f[r[k]] = r[k].quantity /\ r[k].quantity \in Nat
      BY <1>3, <2>3, <3>1
    <3>3. x[k] = r[k].quantity
      BY <1>3, <2>1
    <3> QED
      BY <3>2, <3>3
  <2>5. PICK t : RunningTotal(t, x, n) /\ sum_quantity(level) = t[n]
    <3>1. QuantitiesListed(level, x, n)
      BY <1>3, <2>1, <2>4 DEF QuantitiesListed
    <3> QED
      BY <3>1, QuantityAlong
  <2>6. PICK w : SumsOver(w, f, T) /\ TotalOf(T) = w[T]
    BY <1>3, <1>4, <2>2, TotalIsSum
  <2>7. w[T] = t[n]
    <3>1. Lists(T, r, n) /\ Images(x, f, r, n)
      BY <1>3, <1>4, <1>5, <2>4 DEF Lists, Images
    <3> QED
      BY <1>4, <2>3, <2>5, <2>6, <3>1, SumAlong
  <2> QED
    BY <1>2, <2>5, <2>6, <2>7 DEF quantity_at
<1> QED
  BY <1>2, <1>6, <1>7, <1>8 DEF QueriesAt

LEMMA NothingThere ==
    ASSUME NEW own, Shown(own), NEW side \in Sides, NEW price, price \notin DOMAIN levels[side]
    PROVE  OrdersAt(side, price) = {} /\ QueriesAt(side, price)
<1>1. PICK T : T = OrdersAt(side, price)
  OBVIOUS
<1>2. T = {}
  <2>1. At(node_pool.block, own[side], price) = {}
    BY KeptFacts DEF Shown, At
  <2> QED
    BY <1>1, <2>1, OrdersOfNodes
<1>3. TotalOf(T) = 0
  <2>1. IsFiniteSet(T)
    BY <1>2, FS_EmptySet
  <2>2. PICK w : SumsOver(w, QuantitiesOf(T), T) /\ TotalOf(T) = w[T]
    BY <1>2, <2>1, TotalIsSum
  <2> QED
    BY <1>2, <2>2 DEF SumsOver, SumAt
<1>4. DOMAIN OldestFirst(T) = {}
  <2>1. Cardinality(T) = 0
    BY <1>2, FS_EmptySet
  <2>2. DOMAIN OldestFirst(T) = 1 .. Cardinality(T)
    BY DEF OldestFirst, InOrderOf
  <2> QED
    BY <2>1, <2>2
<1>5. <<>> = [i \in DOMAIN OldestFirst(T) |-> OldestFirst(T)[i].id]
  BY <1>4
<1> QED
  BY <1>1, <1>2, <1>3, <1>5 DEF QueriesAt, quantity_at, orders_at

(* The prices of the resting orders are those of the levels.               *)
OrdersOn(side) == {o \in BookOrders : o.side = side}
PricesOn(side) == {o.price : o \in OrdersOn(side)}

LEMMA PricesAreLevels ==
    ASSUME NEW own, Shown(own), NEW side \in Sides
    PROVE  PricesOn(side) = DOMAIN levels[side] /\ (OrdersOn(side) = {} <=> DOMAIN levels[side] = {})
<1>1. PICK block : block = node_pool.block
  OBVIOUS
<1>2. ASSUME NEW o \in OrdersOn(side) PROVE o.price \in DOMAIN levels[side]
  <2>1. o \in OrdersAt(side, o.price)
    BY DEF OrdersOn, OrdersAt
  <2> QED
    BY <2>1, NothingThere
<1>3. ASSUME NEW price \in DOMAIN levels[side] PROVE \E o \in OrdersOn(side) : o.price = price
  <2>1. PICK S : S = At(block, own[side], price)
    OBVIOUS
  <2>2. LevelOf(block, levels[side][price], S) /\ levels[side][price].head # Null
    BY <1>1, <2>1, KeptFacts DEF Shown, NoEmptyLevel
  <2>3. PICK b : b \in S
    BY <2>2 DEF LevelOf
  <2>4. OrderOf(block, side, b) \in OrdersAt(side, price)
    BY <1>1, <2>1, <2>3, OrdersOfNodes
  <2> QED
    BY <2>4 DEF OrdersAt, OrdersOn
<1> QED
  BY <1>2, <1>3 DEF PricesOn

(* order_count is the number of resting orders: each has its id.           *)
LEMMA CountIsExact ==
    ASSUME NEW own, Shown(own)
    PROVE  order_count = Cardinality(BookOrders)
<1>1. PICK block, used, B, locs : /\ block = node_pool.block /\ used = Used(own) /\ B = BookOrders
                                  /\ locs = locations
  OBVIOUS
<1>2. \A o : o \in B <=> IsOrder(block, own, o)
  BY <1>1, BookOrdersAre DEF Shown
<1>3. OneNodePerId(block, own)
  BY <1>1, FoundIsUnique DEF Shown, Kept
<1>4. PICK node : node = [o \in B |-> locs[o.id].node]
  OBVIOUS
<1>5. ASSUME NEW o \in B
      PROVE  o.id \in DOMAIN locs /\ node[o] \in used /\ block[node[o]].order.id = o.id
  <2>1. PICK t \in Sides : \E b \in own[t] : o = OrderOf(block, t, b)
    BY <1>2 DEF IsOrder
  <2>2. PICK b \in own[t] : o = OrderOf(block, t, b)
    BY <2>1
  <2>3. o.id = block[b].order.id
    BY <2>2 DEF OrderOf
  <2>4. o.id \in DOMAIN locs /\ locs[o.id].node = b
    BY <1>1, <2>3 DEF Shown, Found
  <2> QED
    BY <1>1, <1>4, <2>3, <2>4 DEF Used, Sides
<1>6. ASSUME NEW o \in B, NEW p \in B, o.id = p.id PROVE o = p
  <2>1. PICK t \in Sides : \E b \in own[t] : o = OrderOf(block, t, b)
    BY <1>2 DEF IsOrder
  <2>2. PICK b \in own[t] : o = OrderOf(block, t, b)
    BY <2>1
  <2>3. PICK u \in Sides : \E c \in own[u] : p = OrderOf(block, u, c)
    BY <1>2 DEF IsOrder
  <2>4. PICK c \in own[u] : p = OrderOf(block, u, c)
    BY <2>3
  <2>5. block[b].order.id = block[c].order.id
    BY <1>6, <2>2, <2>4 DEF OrderOf
  <2>6. b = c /\ t = u
    BY <1>3, <2>5 DEF OneNodePerId
  <2> QED
    BY <2>2, <2>4, <2>6
<1>7. IsFiniteSet(B)
  <2>1. PoolOf(OrderNodes, node_pool, used) /\ IsFiniteSet(used)
    BY <1>1, PoolOfFacts DEF Shown, Kept
  <2>2. \A o, p \in B : node[o] = node[p] => o = p
    <3> SUFFICES ASSUME NEW o \in B, NEW p \in B, node[o] = node[p] PROVE o = p
      OBVIOUS
    <3>1. o.id = p.id
      BY <1>5
    <3> QED
      BY <3>1, <1>6
  <2>3. node \in [B -> used]
    BY <1>4, <1>5
  <2>4. node \in Injection(B, used)
    BY <2>2, <2>3 DEF Injection, IsInjective
  <2> QED
    BY <2>1, <2>4, FS_Injection
<1>8. PICK id : id = [o \in B |-> o.id]
  OBVIOUS
<1>9. id \in Bijection(B, DOMAIN locs)
  <2>1. id \in [B -> DOMAIN locs] /\ \A o, p \in B : id[o] = id[p] => o = p
    BY <1>5, <1>6, <1>8
  <2>2. ASSUME NEW i \in DOMAIN locs PROVE \E o \in B : id[o] = i
    <3>1. PICK side, b : side = locs[i].side /\ b = locs[i].node
      OBVIOUS
    <3>2. side \in Sides /\ b \in own[side] /\ block[b].order.id = i
      BY <1>1, <3>1 DEF Shown, Located
    <3>3. PICK o : o = OrderOf(block, side, b)
      OBVIOUS
    <3>4. o \in B /\ o.id = i
      BY <1>2, <3>2, <3>3 DEF IsOrder, OrderOf
    <3> QED
      BY <3>4, <1>8
  <2> QED
    BY <2>1, <2>2 DEF Bijection, Injection, Surjection, IsInjective
<1>10. Cardinality(DOMAIN locs) = Cardinality(B)
  BY <1>7, <1>9, FS_Bijection DEF ExistsBijection
<1> QED
  BY <1>1, <1>10 DEF order_count

(* bid_levels and ask_levels show every price once, the best one first.    *)
LEMMA SideIsShown ==
    ASSUME NEW own, Shown(own), NEW side \in Sides
    PROVE  /\ Range(levels_of(side)) = {<<price, TotalOf(OrdersAt(side, price))>> : price \in PricesOn(side)}
           /\ \A i, j \in DOMAIN levels_of(side) : i < j =>
                 IF side = "Buy" THEN levels_of(side)[i][1] > levels_of(side)[j][1]
                                 ELSE levels_of(side)[i][1] < levels_of(side)[j][1]
<1>1. PICK S, q, n, key : /\ S = DOMAIN levels[side] /\ q = BestFirst(side) /\ n = Cardinality(S)
                          /\ key = PriceKey(side, S)
  OBVIOUS
<1>2. IsFiniteSet(S) /\ S \subseteq Int
  BY <1>1, KeptFacts DEF Shown
<1>3. ByKey(S, key, q, n)
  BY <1>1, <1>2, PricesInOrder
<1>4. /\ n \in Nat /\ q \in [1 .. n -> S] /\ DOMAIN q = 1 .. n
      /\ \A p \in S : \E i \in 1 .. n : q[i] = p
      /\ \A i, j \in 1 .. n : i < j => key[q[i]] < key[q[j]]
  BY <1>3 DEF ByKey
<1>5. PICK shown : shown = levels_of(side)
  OBVIOUS
<1>6. DOMAIN shown = 1 .. n
  BY <1>1, <1>4, <1>5 DEF levels_of
<1>7. ASSUME NEW i \in 1 .. n PROVE shown[i] = <<q[i], TotalOf(OrdersAt(side, q[i]))>>
  <2>1. q[i] \in S /\ LevelsInOrder(side)[i] = levels[side][q[i]]
    BY <1>1, <1>4 DEF LevelsInOrder
  <2>2. shown[i] = <<q[i], sum_quantity(levels[side][q[i]])>>
    BY <1>1, <1>4, <1>5, <2>1 DEF levels_of
  <2>3. QueriesAt(side, q[i])
    BY <1>1, <2>1, LevelIsShown
  <2> QED
    BY <1>1, <2>1, <2>2, <2>3 DEF QueriesAt, quantity_at
<1>8. PricesOn(side) = S
  BY <1>1, PricesAreLevels
<1>9. Range(shown) = {<<price, TotalOf(OrdersAt(side, price))>> : price \in S}
  <2>1. PICK pair, prices : /\ \A p \in S : pair[p] = <<p, TotalOf(OrdersAt(side, p))>>
                            /\ prices = {pair[p] : p \in S}
    <3>1. \A p \in S : [x \in S |-> <<x, TotalOf(OrdersAt(side, x))>>][p] = <<p, TotalOf(OrdersAt(side, p))>>
      OBVIOUS
    <3> QED
      BY <3>1
  <2>2. prices = {<<price, TotalOf(OrdersAt(side, price))>> : price \in S}
    BY <2>1
  <2>3. \A i \in 1 .. n : shown[i] = pair[q[i]]
    BY <1>4, <1>7, <2>1
  <2>4. ASSUME NEW x \in Range(shown) PROVE x \in prices
    <3>1. PICK i \in 1 .. n : x = shown[i]
      BY <1>6 DEF Range
    <3> QED
      BY <1>4, <2>1, <2>3, <3>1
  <2>5. ASSUME NEW x \in prices PROVE x \in Range(shown)
    <3>1. PICK p \in S : x = pair[p]
      BY <2>1
    <3>2. PICK i \in 1 .. n : q[i] = p
      BY <1>4
    <3>3. shown[i] = x
      BY <2>3, <3>1, <3>2
    <3> QED
      BY <1>6, <3>3 DEF Range
  <2> QED
    BY <2>2, <2>4, <2>5
<1>10. ASSUME NEW i \in 1 .. n, NEW j \in 1 .. n, i < j
       PROVE  IF side = "Buy" THEN shown[i][1] > shown[j][1] ELSE shown[i][1] < shown[j][1]
  <2>1. shown[i][1] = q[i] /\ shown[j][1] = q[j]
    BY <1>7
  <2>2. q[i] \in S /\ q[j] \in S /\ key[q[i]] < key[q[j]]
    BY <1>4, <1>10
  <2>3. q[i] \in Int /\ q[j] \in Int
    BY <1>2, <2>2
  <2>4. IF side = "Buy" THEN q[i] > q[j] ELSE q[i] < q[j]
    BY <1>1, <2>2, <2>3 DEF PriceKey
  <2> QED
    BY <2>1, <2>4
<1> QED
  BY <1>5, <1>6, <1>8, <1>9, <1>10

LEMMA BookIsShown ==
    ASSUME IInv, ~AllocationFails
    PROVE  \E own : Shown(own)
<1>1. CASE outcome # "destroyed"
  BY <1>1 DEF IInv, Sound, Shown
<1>2. CASE outcome = "destroyed"
  <2>1. PICK own : own = [side \in Sides |-> {}]
    OBVIOUS
  <2>2. /\ levels = [side \in Sides |-> <<>>] /\ locations = <<>> /\ next_sequence \in Nat
        /\ PoolOf(OrderNodes, node_pool, {})
    BY <1>2 DEF IInv, Gone
  <2>3. own \in [Sides -> SUBSET Nat] /\ own["Buy"] = {} /\ own["Sell"] = {} /\ Used(own) = {}
    BY <2>1 DEF Sides, Used
  <2>4. ASSUME NEW side \in Sides PROVE SideOf(node_pool.block, levels[side], own[side])
    BY <2>1, <2>2, FS_EmptySet DEF SideOf
  <2>5. Kept(levels, node_pool, next_sequence, own)
    BY <2>2, <2>3, <2>4 DEF Kept, NodesOf
  <2>6. Located(locations, node_pool, own) /\ Found(locations, node_pool, own) /\ NoEmptyLevel(levels)
    BY <2>1, <2>2 DEF Located, Found, NoEmptyLevel
  <2> QED
    BY <2>5, <2>6 DEF Shown
<1> QED
  BY <1>1, <1>2

LEMMA QueriesHold == IInv /\ ~AllocationFails => QueriesDescribeOrders
<1> SUFFICES ASSUME IInv, ~AllocationFails PROVE QueriesDescribeOrders
  OBVIOUS
<1>1. PICK own : Shown(own)
  BY BookIsShown
<1>2. ASSUME NEW side \in Sides, NEW price
      PROVE  QueriesAt(side, price)
  BY <1>1, LevelIsShown, NothingThere
<1>3. /\ best_bid = (IF OrdersOn("Buy") = {} THEN Null ELSE Max(PricesOn("Buy")))
      /\ best_ask = (IF OrdersOn("Sell") = {} THEN Null ELSE Min(PricesOn("Sell")))
  BY <1>1, PricesAreLevels DEF best_bid, best_ask, Best, Sides
<1>4. order_count = Cardinality(BookOrders)
  BY <1>1, CountIsExact
<1>5. ASSUME NEW side \in Sides
      PROVE  /\ Range(levels_of(side)) = {<<price, TotalOf(OrdersAt(side, price))>> : price \in PricesOn(side)}
             /\ \A i, j \in DOMAIN levels_of(side) : i < j =>
                   IF side = "Buy" THEN levels_of(side)[i][1] > levels_of(side)[j][1]
                                   ELSE levels_of(side)[i][1] < levels_of(side)[j][1]
  BY <1>1, SideIsShown
<1> QED
  BY <1>2, <1>3, <1>4, <1>5 DEF QueriesDescribeOrders, QueriesAt, OrdersAt, OrdersOn, PricesOn, TotalOf, OldestFirst

(* As long as no allocation fails, between calls every query describes the *)
(* resting orders: best prices, order_count, the quantity and the ids at   *)
(* every price, the levels from the best one on (order_book.hpp:105-124).  *)
THEOREM QueriesAreTrue ==
    ASSUME ~AllocationFails
    PROVE  Spec => []QueriesDescribeOrders
<1>1. IInv => QueriesDescribeOrders
  BY QueriesHold
<1> QED
  BY <1>1, Invariance, PTL
================================================================================
