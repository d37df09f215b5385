------------------------------- MODULE OrderBook -------------------------------
(***************************************************************************)
(* The order book as src/order_book.cpp builds it: a map from price to     *)
(* PriceLevel on each side, each level an intrusive doubly-linked list of  *)
(* OrderNodes that live in the blocks of one slab pool, and locations_     *)
(* from an order id to its side, price and node.                           *)
(*                                                                         *)
(* The book is used by one thread.  A step is one call, except that        *)
(* add_limit_order takes a step per iteration of its matching loop: what   *)
(* is in between matters because an allocation may throw there and         *)
(* nothing is undone.                                                      *)
(***************************************************************************)
EXTENDS SlabPool, Integers, FiniteSets, SequencesExt

CONSTANTS OrderIds, Prices,
          Quantities,         \* what callers pass, invalid values included
          InitialCapacity,    \* blocks of node_pool_ (4096 in the code)
          AllocationFails,    \* whether an allocation may throw std::bad_alloc
          MaxSequence,        \* bound: sequence numbers used before the last submission
          MaxCapacity         \* bound: a submission starts while the pool is smaller,
                              \* or has a free block

ASSUME PricesAssumption == Prices \subseteq Int /\ Quantities \subseteq Int
ASSUME CapacityAssumption == InitialCapacity \in Nat
ASSUME FailureAssumption == AllocationFails \in BOOLEAN
ASSUME NoCallAssumption ==         \* Null stands for "no call": it is not one
    /\ Null \notin [id : OrderIds, side : {"Buy", "Sell"}, price : Prices, remaining : Nat]
    /\ Null \notin [id : OrderIds, side : {"Buy", "Sell"}, price : Prices, quantity : Int]

VARIABLES levels,             \* bids_ and asks_: [side -> [price -> PriceLevel]]
          locations,          \* locations_: [id -> OrderLocation]
          node_pool,          \* node_pool_
          next_sequence,      \* next_sequence_
          call,               \* locals of the add_limit_order in progress, or Null
          trades,             \* the trades of that call, and then of the last one
          outcome             \* what the last call returned or threw

vars == <<levels, locations, node_pool, next_sequence, call, trades, outcome>>

--------------------------------------------------------------------------------
Sides == {"Buy", "Sell"}
Opposite(side) == IF side = "Buy" THEN "Sell" ELSE "Buy"
EmptyLevel == [head |-> Null, tail |-> Null]

With(map, key, value) == [k \in DOMAIN map \cup {key} |-> IF k = key THEN value ELSE map[k]]
Without(map, key) == Restrict(map, DOMAIN map \ {key})

(* The elements of S, the k-th with k - 1 of smaller keys before it.       *)
InOrderOf(S, key(_)) ==
    [k \in 1 .. Cardinality(S) |->
        CHOOSE x \in S : Cardinality({y \in S : key(y) < key(x)}) = k - 1]

(* begin() of the side's map: bids_ descends, asks_ ascends.               *)
(* Variant: both maps ascend.                                              *)
BestAscending(side) == Min(DOMAIN levels[side])
Best(side) == IF side = "Buy" THEN Max(DOMAIN levels[side]) ELSE Min(DOMAIN levels[side])

(* Variant: the order jumps the queue of its level.                        *)
push_front(pool, level, order) ==
    LET node == NextBlock(pool)
        taken == allocate(pool)
        built == [taken EXCEPT !.block[node] = [order |-> order, prev |-> Null, next |-> level.head]]
    IN IF level.head # Null
       THEN [node |-> node, pool |-> [built EXCEPT !.block[level.head].prev = node],
             level |-> [level EXCEPT !.head = node]]
       ELSE [node |-> node, pool |-> built, level |-> [head |-> node, tail |-> node]]

(* Lines 27-37.                                                            *)
push_back(pool, level, order) ==
    LET node == NextBlock(pool)
        taken == allocate(pool)
        built == [taken EXCEPT !.block[node] = [order |-> order, prev |-> level.tail, next |-> Null]]
    IN IF level.tail # Null
       THEN [node |-> node, pool |-> [built EXCEPT !.block[level.tail].next = node],
             level |-> [level EXCEPT !.tail = node]]
       ELSE [node |-> node, pool |-> built, level |-> [head |-> node, tail |-> node]]

(* Variant: the new head keeps its link to the order that is gone.         *)
pop_front_keeps_prev(pool, level) ==
    LET second == pool.block[level.head].next
    IN [pool |-> deallocate(pool, level.head),
        level |-> IF second # Null THEN [level EXCEPT !.head = second] ELSE EmptyLevel]

(* Lines 39-49.                                                            *)
pop_front(pool, level) ==
    LET second == pool.block[level.head].next
    IN IF second # Null
       THEN [pool |-> deallocate([pool EXCEPT !.block[second].prev = Null], level.head),
             level |-> [level EXCEPT !.head = second]]
       ELSE [pool |-> deallocate(pool, level.head), level |-> EmptyLevel]

(* Lines 51-64.                                                            *)
erase(pool, level, node) ==
    LET before == pool.block[node].prev
        after == pool.block[node].next
        bridged ==
            [pool EXCEPT !.block = [b \in DOMAIN @ |->
                CASE b = before -> [@[b] EXCEPT !.next = after]
                  [] b = after  -> [@[b] EXCEPT !.prev = before]
                  [] OTHER      -> @[b]]]
    IN [pool |-> deallocate(bridged, node),
        level |-> [head |-> IF before = Null THEN after ELSE level.head,
                   tail |-> IF after = Null THEN before ELSE level.tail]]

(* The nodes of a level in list order, from the head to a null pointer     *)
(* (lines 66-80).                                                          *)
Nodes(pool, level) ==
    LET nth[k \in 1 .. pool.total_capacity] ==
            IF k = 1 THEN level.head
            ELSE IF nth[k - 1] = Null THEN Null ELSE pool.block[nth[k - 1]].next
    IN [k \in {j \in DOMAIN nth : nth[j] # Null} |-> nth[k]]

(* A map entry that is left without orders is erased (114-116, 172-174).   *)
Stored(side_levels, price, level) ==
    IF level.head = Null THEN Without(side_levels, price) ELSE With(side_levels, price, level)

Init ==
    /\ levels = [side \in Sides |-> <<>>]
    /\ locations = <<>>
    /\ node_pool = NewPool(InitialCapacity)
    /\ next_sequence = 0
    /\ call = Null /\ trades = <<>> /\ outcome = "none"

Idle == call = Null /\ outcome # "destroyed"

--------------------------------------------------------------------------------
(* add_limit_order.                                                        *)

(* Variant: the id is not looked up.                                       *)
SubmitUnchecked(id, side, price, quantity) ==
    /\ Idle /\ next_sequence < MaxSequence
    /\ Exhausted(node_pool) => node_pool.total_capacity < MaxCapacity
    /\ quantity > 0
    /\ call' = [id |-> id, side |-> side, price |-> price, remaining |-> quantity]
    /\ trades' = <<>> /\ outcome' = "none"
    /\ UNCHANGED <<levels, locations, node_pool, next_sequence>>

(* Lines 83-91.                                                            *)
Submit(id, side, price, quantity) ==
    /\ Idle /\ next_sequence < MaxSequence
    /\ Exhausted(node_pool) => node_pool.total_capacity < MaxCapacity
    /\ quantity > 0 /\ id \notin DOMAIN locations
    /\ call' = [id |-> id, side |-> side, price |-> price, remaining |-> quantity]
    /\ trades' = <<>> /\ outcome' = "none"
    /\ UNCHANGED <<levels, locations, node_pool, next_sequence>>

SubmitThrows(id, quantity) ==
    /\ Idle
    /\ quantity <= 0 \/ id \in DOMAIN locations
    /\ trades' = <<>> /\ outcome' = "invalid_argument"
    /\ UNCHANGED <<levels, locations, node_pool, next_sequence, call>>

(* Variant: an equal price does not cross.                                 *)
CrossesStrictly ==
    LET side == Opposite(call.side)
    IN /\ DOMAIN levels[side] # {}
       /\ IF call.side = "Buy" THEN Best(side) < call.price ELSE Best(side) > call.price

(* Lines 96-102, 121-127: the best opposite level is within the limit.     *)
Crosses ==
    LET side == Opposite(call.side)
    IN /\ DOMAIN levels[side] # {}
       /\ IF call.side = "Buy" THEN Best(side) <= call.price ELSE Best(side) >= call.price

Matching == call # Null /\ call.remaining > 0 /\ Crosses
BestLevel == levels[Opposite(call.side)][Best(Opposite(call.side))]
FrontOrder == node_pool.block[BestLevel.head].order

RecordTrade(traded) ==
    /\ trades' = Append(trades,
          [aggressor |-> call.id, resting |-> FrontOrder.id, side |-> call.side,
           price |-> Best(Opposite(call.side)), quantity |-> traded,
           sequence |-> next_sequence])
    /\ next_sequence' = next_sequence + 1
    /\ call' = [call EXCEPT !.remaining = @ - traded]

(* Variant: a filled order stays in locations_.                            *)
ConsumeKeepsLocation ==
    /\ Matching /\ BestLevel.head # Null
    /\ FrontOrder.quantity <= call.remaining
    /\ RecordTrade(FrontOrder.quantity)
    /\ LET side == Opposite(call.side)
           popped == pop_front(node_pool, BestLevel)
       IN /\ node_pool' = popped.pool
          /\ levels' = [levels EXCEPT ![side] = Stored(@, Best(side), popped.level)]
    /\ UNCHANGED <<locations, outcome>>

(* Lines 104-116, 129-141: the oldest order of the level is consumed.      *)
Consume ==
    /\ Matching /\ BestLevel.head # Null
    /\ FrontOrder.quantity <= call.remaining
    /\ RecordTrade(FrontOrder.quantity)
    /\ locations' = Without(locations, FrontOrder.id)
    /\ LET side == Opposite(call.side)
           popped == pop_front(node_pool, BestLevel)
       IN /\ node_pool' = popped.pool
          /\ levels' = [levels EXCEPT ![side] = Stored(@, Best(side), popped.level)]
    /\ UNCHANGED outcome

(* Variant: an order filled to the last unit is left in its level.         *)
ConsumePartOrAll ==
    /\ Matching /\ BestLevel.head # Null
    /\ FrontOrder.quantity >= call.remaining
    /\ RecordTrade(call.remaining)
    /\ node_pool' = [node_pool EXCEPT !.block[BestLevel.head].order.quantity = @ - call.remaining]
    /\ UNCHANGED <<levels, locations, outcome>>

(* Lines 104-108, 129-133: the incoming order is filled first.             *)
ConsumePart ==
    /\ Matching /\ BestLevel.head # Null
    /\ FrontOrder.quantity > call.remaining
    /\ RecordTrade(call.remaining)
    /\ node_pool' = [node_pool EXCEPT !.block[BestLevel.head].order.quantity = @ - call.remaining]
    /\ UNCHANGED <<levels, locations, outcome>>

(* Variant: only a level emptied by this call is erased.                   *)
MeetEmptyLevel ==
    /\ Matching /\ BestLevel.head = Null
    /\ UNCHANGED vars

(* Lines 114-116, 139-141: a level left without orders by an earlier       *)
(* failure is erased when it is met.                                       *)
DropEmptyLevel ==
    /\ Matching /\ BestLevel.head = Null
    /\ levels' = [levels EXCEPT ![Opposite(call.side)] = Without(@, Best(Opposite(call.side)))]
    /\ UNCHANGED <<locations, node_pool, next_sequence, call, trades, outcome>>

(* Line 158, with nothing left to rest.                                    *)
Return ==
    /\ call # Null /\ call.remaining = 0
    /\ call' = Null /\ outcome' = "trades"
    /\ UNCHANGED <<levels, locations, node_pool, next_sequence, trades>>

(* Lines 145-158: the remainder rests at the back of its level.            *)
LevelAt(side, price) ==
    IF price \in DOMAIN levels[side] THEN levels[side][price] ELSE EmptyLevel

Remainder ==
    [id |-> call.id, price |-> call.price, quantity |-> call.remaining, sequence |-> next_sequence]

Resting == call # Null /\ call.remaining > 0 /\ ~Crosses

RestUntracked ==               \* variant: locations_ is not told
    /\ Resting
    /\ LET pushed == push_back(node_pool, LevelAt(call.side, call.price), Remainder)
       IN /\ node_pool' = pushed.pool
          /\ levels' = [levels EXCEPT ![call.side] = With(@, call.price, pushed.level)]
    /\ next_sequence' = next_sequence + 1
    /\ call' = Null /\ outcome' = "trades"
    /\ UNCHANGED <<locations, trades>>

Rest ==
    /\ Resting
    /\ LET pushed == push_back(node_pool, LevelAt(call.side, call.price), Remainder)
       IN /\ node_pool' = pushed.pool
          /\ levels' = [levels EXCEPT ![call.side] = With(@, call.price, pushed.level)]
          /\ locations' = With(locations, call.id,
                [side |-> call.side, price |-> call.price, node |-> pushed.node])
    /\ next_sequence' = next_sequence + 1
    /\ call' = Null /\ outcome' = "trades"
    /\ UNCHANGED trades

--------------------------------------------------------------------------------
(* std::bad_alloc leaves add_limit_order: the vector of trades is gone,    *)
(* and whatever the call has changed so far stays.                         *)
Throw ==
    /\ AllocationFails
    /\ call' = Null /\ trades' = <<>> /\ outcome' = "bad_alloc"
    /\ next_sequence' = next_sequence + 1

(* Lines 106, 131: trades.push_back.                                       *)
TradeThrows ==
    /\ Matching /\ BestLevel.head # Null /\ Throw
    /\ UNCHANGED <<levels, locations, node_pool>>

(* Lines 148, 152: the new entry of the map.                               *)
LevelThrows ==
    /\ Resting /\ call.price \notin DOMAIN levels[call.side] /\ Throw
    /\ UNCHANGED <<levels, locations, node_pool>>

(* Lines 149, 153: the pool is exhausted and cannot grow; the level that   *)
(* operator[] made stays.                                                  *)
NodeThrows ==
    /\ Resting /\ Exhausted(node_pool) /\ Throw
    /\ levels' = [levels EXCEPT ![call.side] = With(@, call.price, LevelAt(call.side, call.price))]
    /\ UNCHANGED <<locations, node_pool>>

(* Lines 150, 154: locations_.emplace; the node stays linked.              *)
LocationThrows ==
    /\ Resting /\ Throw
    /\ LET pushed == push_back(node_pool, LevelAt(call.side, call.price), Remainder)
       IN /\ node_pool' = pushed.pool
          /\ levels' = [levels EXCEPT ![call.side] = With(@, call.price, pushed.level)]
    /\ UNCHANGED locations

--------------------------------------------------------------------------------
(* cancel_order, lines 161-183.                                            *)
Cancel(id) ==
    /\ Idle /\ id \in DOMAIN locations
    /\ LET loc == locations[id]
           erased == erase(node_pool, levels[loc.side][loc.price], loc.node)
       IN /\ node_pool' = erased.pool
          /\ levels' = [levels EXCEPT ![loc.side] = Stored(@, loc.price, erased.level)]
    /\ locations' = Without(locations, id)
    /\ trades' = <<>> /\ outcome' = "cancelled"
    /\ UNCHANGED <<next_sequence, call>>

CancelUnknown(id) ==
    /\ Idle /\ id \notin DOMAIN locations
    /\ trades' = <<>> /\ outcome' = "not_found"
    /\ UNCHANGED <<levels, locations, node_pool, next_sequence, call>>

(* ~OrderBook, lines 9-25: every node of every level goes back to the pool.*)
BestFirst(side) == InOrderOf(DOMAIN levels[side], LAMBDA p : IF side = "Buy" THEN -p ELSE p)
LevelsInOrder(side) == [i \in DOMAIN BestFirst(side) |-> levels[side][BestFirst(side)[i]]]

Emptied(pool, side) ==
    FoldLeft(LAMBDA p, level : FoldLeft(deallocate, p, Nodes(p, level)), pool, LevelsInOrder(side))

DestroyBids ==                 \* variant: the asks are forgotten
    /\ Idle
    /\ node_pool' = Emptied(node_pool, "Buy")
    /\ levels' = [side \in Sides |-> <<>>] /\ locations' = <<>>
    /\ trades' = <<>> /\ outcome' = "destroyed"
    /\ UNCHANGED <<next_sequence, call>>

Destroy ==
    /\ Idle
    /\ node_pool' = Emptied(Emptied(node_pool, "Buy"), "Sell")
    /\ levels' = [side \in Sides |-> <<>>] /\ locations' = <<>>
    /\ trades' = <<>> /\ outcome' = "destroyed"
    /\ UNCHANGED <<next_sequence, call>>

--------------------------------------------------------------------------------
(* The queries, lines 66-80 and 185-237.  They change nothing.             *)

sum_to_tail(level) ==          \* variant: the walk stops at the tail
    FoldLeft(LAMBDA total, node : total + node_pool.block[node].order.quantity,
             0, Front(Nodes(node_pool, level)))
sum_quantity(level) ==
    FoldLeft(LAMBDA total, node : total + node_pool.block[node].order.quantity,
             0, Nodes(node_pool, level))
collect_ids(level) ==
    [i \in DOMAIN Nodes(node_pool, level) |-> node_pool.block[Nodes(node_pool, level)[i]].order.id]

best_bid == IF DOMAIN levels["Buy"] = {} THEN Null ELSE Best("Buy")
best_ask == IF DOMAIN levels["Sell"] = {} THEN Null ELSE Best("Sell")
quantity_at(side, price) ==
    IF price \in DOMAIN levels[side] THEN sum_quantity(levels[side][price]) ELSE 0
orders_at(side, price) ==
    IF price \in DOMAIN levels[side] THEN collect_ids(levels[side][price]) ELSE <<>>
order_count == Cardinality(DOMAIN locations)

(* bid_levels and ask_levels.                                              *)
levels_of(side) ==
    [i \in DOMAIN BestFirst(side) |->
        <<BestFirst(side)[i], sum_quantity(LevelsInOrder(side)[i])>>]

--------------------------------------------------------------------------------
Continue ==
    \/ Consume \/ ConsumePart \/ DropEmptyLevel \/ Return \/ Rest
    \/ TradeThrows \/ LevelThrows \/ NodeThrows \/ LocationThrows

Next ==
    \/ \E id \in OrderIds, side \in Sides, price \in Prices, quantity \in Quantities :
          Submit(id, side, price, quantity)
    \/ \E id \in OrderIds, quantity \in Quantities : SubmitThrows(id, quantity)
    \/ Continue
    \/ \E id \in OrderIds : Cancel(id) \/ CancelUnknown(id)
    \/ Destroy

Spec == Init /\ [][Next]_vars

(* The matching loop runs on in its thread: a call that can take a step    *)
(* takes one.  Whether a caller submits, cancels or destroys is its choice.*)
FairSpec == Spec /\ WF_vars(Continue)

--------------------------------------------------------------------------------
Queue(side, price) == Nodes(node_pool, levels[side][price])
LinkedAt(side, price) == Range(Queue(side, price))
Linked(side) == UNION {LinkedAt(side, price) : price \in DOMAIN levels[side]}
OrderIn(node) == node_pool.block[node].order

(* Every variable has its type, and a resting order has something left.    *)
TypeOK ==
    /\ DOMAIN levels = Sides
    /\ \A side \in Sides :
          /\ DOMAIN levels[side] \subseteq Prices
          /\ \A price \in DOMAIN levels[side] :
                levels[side][price] \in [head : DOMAIN node_pool.block \cup {Null},
                                         tail : DOMAIN node_pool.block \cup {Null}]
          /\ \A node \in Linked(side) :
                OrderIn(node) \in [id : OrderIds, price : Prices,
                                   quantity : Nat \ {0}, sequence : 0 .. next_sequence - 1]
    /\ \A id \in DOMAIN locations :
          locations[id] \in [side : Sides, price : Prices, node : DOMAIN node_pool.block]
    /\ DOMAIN locations \subseteq OrderIds
    /\ next_sequence \in Nat
    /\ call = Null \/ call \in [id : OrderIds, side : Sides, price : Prices,
                                remaining : Nat]

(* The intrusive lists stay doubly linked through every push_back,         *)
(* pop_front and erase (order_book.cpp:27-64): from head to tail each node *)
(* is its neighbours' neighbour, and no node is in two levels.             *)
ListsWellFormed ==
    /\ \A side \in Sides : \A price \in DOMAIN levels[side] :
          LET q == Queue(side, price)
              level == levels[side][price]
              node == node_pool.block
          IN /\ IsInjective(q)
             /\ level.tail = (IF q = <<>> THEN Null ELSE Last(q))
             /\ \A i \in DOMAIN q :
                   /\ node[q[i]].prev = (IF i = 1 THEN Null ELSE q[i - 1])
                   /\ node[q[i]].next = (IF i = Len(q) THEN Null ELSE q[i + 1])
                   /\ node[q[i]].order.price = price
             /\ \A other \in Sides : \A p \in DOMAIN levels[other] :
                   <<other, p>> # <<side, price>> => LinkedAt(other, p) \cap LinkedAt(side, price) = {}

(* No node is lost and none is both in the book and free: the blocks of    *)
(* the pool are the linked nodes and the free list, which in_use() counts. *)
(* A node used after its return, returned twice, or never returned         *)
(* (~OrderBook included) breaks this, and no sanitizer would see it        *)
(* (slab_allocator.hpp:91-103).                                            *)
PoolIsLinkedOrFree ==
    LET linked == Linked("Buy") \cup Linked("Sell")
    IN /\ FreeListIs(node_pool, DOMAIN node_pool.block \ linked)
       /\ node_pool.in_use = Cardinality(linked)

(* locations_ never holds a pointer to a node that is gone: what           *)
(* cancel_order (order_book.cpp:161-183) follows is a node of the level    *)
(* named there, with the order of that id, whatever failed before.         *)
NoDanglingLocation ==
    \A id \in DOMAIN locations :
        LET loc == locations[id]
        IN /\ loc.price \in DOMAIN levels[loc.side]
           /\ loc.node \in LinkedAt(loc.side, loc.price)
           /\ OrderIn(loc.node).id = id

(* Every resting order can be found: locations_ and the lists are the same *)
(* set of orders (order_count, cancel_order and the duplicate check of     *)
(* add_limit_order answer from locations_ alone).                          *)
LocationsExact ==
    /\ NoDanglingLocation
    /\ \A side \in Sides : \A node \in Linked(side) :
          /\ OrderIn(node).id \in DOMAIN locations
          /\ locations[OrderIn(node).id].node = node

(* Within a level, an order that arrived earlier is nearer the front       *)
(* (order_book.hpp:93-95, 192).                                            *)
TimePriority ==
    \A side \in Sides : \A price \in DOMAIN levels[side] :
        LET q == Queue(side, price)
        IN \A i, j \in DOMAIN q : i < j => OrderIn(q[i]).sequence < OrderIn(q[j]).sequence

(* Between calls the book is not crossed: every bid is below every ask.    *)
NotCrossed ==
    call = Null => \A bid \in DOMAIN levels["Buy"], ask \in DOMAIN levels["Sell"] : bid < ask

(* The trades of one call, in the order they occurred, go from the best    *)
(* price to the worst, at the resting order's price and never beyond the   *)
(* incoming order's limit (order_book.hpp:93-97).                          *)
TradesBestFirst ==
    /\ \A i, j \in DOMAIN trades : i < j =>
          /\ trades[i].sequence < trades[j].sequence
          /\ IF trades[i].side = "Buy" THEN trades[i].price <= trades[j].price
                                       ELSE trades[i].price >= trades[j].price
    /\ call # Null => \A i \in DOMAIN trades :
          IF call.side = "Buy" THEN trades[i].price <= call.price ELSE trades[i].price >= call.price

(* A submission always returns to its caller, also over the levels that an *)
(* earlier failure left without orders (order_book.cpp:96, 114-116).       *)
CallsReturn == call # Null ~> call = Null

(* What the header promises: the lists, levels and locations implement the *)
(* set of orders of PriceTimeBook, matched in price-time priority.         *)
BookOrders ==
    UNION {{[id |-> OrderIn(n).id, side |-> side, price |-> OrderIn(n).price,
             quantity |-> OrderIn(n).quantity, sequence |-> OrderIn(n).sequence]
            : n \in Linked(side)} : side \in Sides}

IncomingOrder ==
    IF call = Null THEN Null
    ELSE [id |-> call.id, side |-> call.side, price |-> call.price, quantity |-> call.remaining]

Book == INSTANCE PriceTimeBook WITH
            resting <- BookOrders, incoming <- IncomingOrder, None <- Null

ImplementsBook == Book!FairSpec

(* Between calls every query describes the set of resting orders, although *)
(* one answers from the keys of a map, one from the index, and the others  *)
(* walk lists: the best price of each side, the quantity and the ids (the  *)
(* oldest first) at every price, the levels from the best one on, and the  *)
(* number of orders (order_book.hpp:105-124).                              *)
QueriesDescribeOrders ==
    LET of(side) == {o \in BookOrders : o.side = side}
        at(side, price) == {o \in of(side) : o.price = price}
        prices(side) == {o.price : o \in of(side)}
        oldest_first(orders) == InOrderOf(orders, LAMBDA o : o.sequence)
        quantity(orders) == MapThenSumSet(LAMBDA o : o.quantity, orders)
        shown(side) == levels_of(side)
    IN
    call = Null =>
       /\ best_bid = (IF of("Buy") = {} THEN Null ELSE Max(prices("Buy")))
       /\ best_ask = (IF of("Sell") = {} THEN Null ELSE Min(prices("Sell")))
       /\ order_count = Cardinality(BookOrders)
       /\ \A side \in Sides :
             /\ \A price \in Prices :
                   /\ quantity_at(side, price) = quantity(at(side, price))
                   /\ orders_at(side, price) =
                         [i \in DOMAIN oldest_first(at(side, price)) |-> oldest_first(at(side, price))[i].id]
             /\ Range(shown(side)) = {<<price, quantity(at(side, price))>> : price \in prices(side)}
             /\ \A i, j \in DOMAIN shown(side) : i < j =>
                   IF side = "Buy" THEN shown(side)[i][1] > shown(side)[j][1]
                                   ELSE shown(side)[i][1] < shown(side)[j][1]

--------------------------------------------------------------------------------
(* What the header says of a query, and an allocation failure breaks.      *)

(* order_book.hpp:114: order_count() is the number of resting orders, of   *)
(* all levels; it answers with the size of locations_.                     *)
OrderCountIsResting ==
    call = Null => order_count = Cardinality(Linked("Buy") \cup Linked("Sell"))
================================================================================
