----------------------------- MODULE PriceTimeBook -----------------------------
(***************************************************************************)
(* What OrderBook promises its caller (include/exec_core/order_book.hpp,   *)
(* lines 90-115): a set of resting orders, matched in price-time priority. *)
(* A call of add_limit_order trades, one trade per step, with the best     *)
(* crossing order and among those of the best price the oldest, until it   *)
(* is filled or nothing crosses; what is left rests.  There are no levels, *)
(* lists, nodes or indexes here, and no order of evaluation.               *)
(***************************************************************************)
EXTENDS Integers, Sequences

CONSTANTS OrderIds, Prices,
          Quantities,       \* what callers pass, invalid values included
          None,             \* no order is being submitted
          MaxSequence       \* bound: sequence numbers used before the last submission

ASSUME PricesAssumption == Prices \subseteq Int
ASSUME QuantitiesAssumption == Quantities \subseteq Int
ASSUME NoneAssumption == None \notin [id : OrderIds, side : {"Buy", "Sell"}, price : Prices, quantity : Int]

VARIABLES resting,          \* the orders in the book
          incoming,         \* the order being submitted, with its unfilled quantity
          trades,           \* the trades of the last submission, in order
          next_sequence,    \* the next number for a trade or an arrival
          outcome           \* what the last call returned or threw

vars == <<resting, incoming, trades, next_sequence, outcome>>

--------------------------------------------------------------------------------
Sides == {"Buy", "Sell"}
Orders == [id : OrderIds, side : Sides, price : Prices, quantity : Int]
RestingOrders ==
    [id : OrderIds, side : Sides, price : Prices, quantity : Int, sequence : Nat]

(* The limit of one order reaches the price of an order on the other side. *)
CrossesStrictly(order, r) ==                     \* variant: equal prices do not cross
    \/ order.side = "Buy" /\ r.side = "Sell" /\ r.price < order.price
    \/ order.side = "Sell" /\ r.side = "Buy" /\ r.price > order.price
Crosses(order, r) ==
    \/ order.side = "Buy" /\ r.side = "Sell" /\ r.price <= order.price
    \/ order.side = "Sell" /\ r.side = "Buy" /\ r.price >= order.price

(* Price-time priority between two resting orders of one side.             *)
HigherPrice(r, s) == r.price > s.price           \* variant: on either side
BetterPrice(r, s) ==
    \/ r.side = "Sell" /\ r.price < s.price
    \/ r.side = "Buy" /\ r.price > s.price
Ahead(r, s) == BetterPrice(r, s) \/ (r.price = s.price /\ r.sequence < s.sequence)

IsResting(id) == \E r \in resting : r.id = id
Crossing == {r \in resting : Crosses(incoming, r)}
Idle == incoming = None /\ outcome # "destroyed"

Init ==
    /\ resting = {} /\ incoming = None
    /\ trades = <<>> /\ next_sequence = 0 /\ outcome = "none"

--------------------------------------------------------------------------------
(* add_limit_order accepts the order, or throws.                           *)
SubmitUnchecked(order) ==                        \* variant: ids may repeat
    /\ Idle /\ next_sequence < MaxSequence
    /\ order.quantity > 0
    /\ incoming' = order
    /\ trades' = <<>> /\ outcome' = "none"
    /\ UNCHANGED <<resting, next_sequence>>

Submit(order) ==
    /\ Idle /\ next_sequence < MaxSequence
    /\ order.quantity > 0 /\ ~IsResting(order.id)
    /\ incoming' = order
    /\ trades' = <<>> /\ outcome' = "none"
    /\ UNCHANGED <<resting, next_sequence>>

Refuse(order) ==
    /\ Idle
    /\ order.quantity <= 0 \/ IsResting(order.id)
    /\ trades' = <<>> /\ outcome' = "invalid_argument"
    /\ UNCHANGED <<resting, incoming, next_sequence>>

TradeKeepsEmpty(r) ==                            \* variant: a filled order stays
    LET traded == IF incoming.quantity < r.quantity THEN incoming.quantity ELSE r.quantity
    IN /\ resting' = (resting \ {r}) \cup {[r EXCEPT !.quantity = @ - traded]}
       /\ incoming' = [incoming EXCEPT !.quantity = @ - traded]
       /\ UNCHANGED <<trades, next_sequence, outcome>>

(* One trade, with the order that is ahead of every other crossing order.  *)
Trade(r) ==
    LET traded == IF incoming.quantity < r.quantity THEN incoming.quantity ELSE r.quantity
        left == [r EXCEPT !.quantity = @ - traded]
    IN /\ resting' = (resting \ {r}) \cup (IF left.quantity = 0 THEN {} ELSE {left})
       /\ incoming' = [incoming EXCEPT !.quantity = @ - traded]
       /\ trades' = Append(trades,
              [aggressor |-> incoming.id, resting |-> r.id, side |-> incoming.side,
               price |-> r.price, quantity |-> traded, sequence |-> next_sequence])
       /\ next_sequence' = next_sequence + 1
       /\ UNCHANGED outcome

Match ==
    /\ incoming # None /\ incoming.quantity > 0
    /\ \E r \in Crossing :
          /\ \A s \in Crossing : s = r \/ Ahead(r, s)
          /\ Trade(r)

(* Filled: the call returns its trades.                                    *)
Return ==
    /\ incoming # None /\ incoming.quantity = 0
    /\ incoming' = None /\ outcome' = "trades"
    /\ UNCHANGED <<resting, trades, next_sequence>>

(* Nothing crosses any more: the rest of the order joins the book.         *)
RestUncounted ==                                 \* variant: the arrival takes no number
    /\ incoming # None /\ incoming.quantity > 0
    /\ Crossing = {}
    /\ resting' = resting \cup
          {[id |-> incoming.id, side |-> incoming.side, price |-> incoming.price,
            quantity |-> incoming.quantity, sequence |-> next_sequence]}
    /\ incoming' = None /\ outcome' = "trades"
    /\ UNCHANGED <<trades, next_sequence>>

Rest ==
    /\ incoming # None /\ incoming.quantity > 0
    /\ Crossing = {}
    /\ resting' = resting \cup
          {[id |-> incoming.id, side |-> incoming.side, price |-> incoming.price,
            quantity |-> incoming.quantity, sequence |-> next_sequence]}
    /\ next_sequence' = next_sequence + 1
    /\ incoming' = None /\ outcome' = "trades"
    /\ UNCHANGED trades

(* cancel_order: true exactly when the order was resting.                  *)
Cancel(id) ==
    /\ Idle /\ IsResting(id)
    /\ resting' = {r \in resting : r.id # id}
    /\ outcome' = "cancelled" /\ trades' = <<>>
    /\ UNCHANGED <<incoming, next_sequence>>

CancelUnknown(id) ==
    /\ Idle /\ ~IsResting(id)
    /\ outcome' = "not_found" /\ trades' = <<>>
    /\ UNCHANGED <<resting, incoming, next_sequence>>

(* The book is destroyed with everything in it.                            *)
Destroy ==
    /\ Idle
    /\ resting' = {} /\ trades' = <<>> /\ outcome' = "destroyed"
    /\ UNCHANGED <<incoming, next_sequence>>

Next ==
    \/ \E id \in OrderIds, side \in Sides, price \in Prices, quantity \in Quantities :
          LET order == [id |-> id, side |-> side, price |-> price, quantity |-> quantity]
          IN Submit(order) \/ Refuse(order)
    \/ Match \/ Return \/ Rest
    \/ \E id \in OrderIds : Cancel(id) \/ CancelUnknown(id)
    \/ Destroy

Spec == Init /\ [][Next]_vars

(* A submission is carried through: the call returns.                      *)
FairSpec == Spec /\ WF_vars(Match \/ Return \/ Rest)

--------------------------------------------------------------------------------
(* Every variable has its type, and no order without quantity rests.       *)
TypeOK ==
    /\ resting \subseteq RestingOrders
    /\ \A r \in resting : r.quantity > 0
    /\ incoming \in Orders \cup {None}
    /\ incoming # None => incoming.quantity >= 0
    /\ next_sequence \in Nat

(* The book is never crossed, not even in the middle of a call: every bid  *)
(* is below every ask (order_book.cpp:93-156: an order rests only when     *)
(* nothing crosses it).                                                    *)
Uncrossed ==
    \A bid, ask \in resting :
        bid.side = "Buy" /\ ask.side = "Sell" => bid.price < ask.price

(* An id names one order: no two resting orders share it, and an order     *)
(* being submitted has an id of its own (order_book.cpp:86-88).            *)
OneOrderPerId ==
    /\ \A r, s \in resting : r.id = s.id => r = s
    /\ incoming # None => \A r \in resting : r.id # incoming.id

(* Arrivals are numbered apart, so that price-time priority leaves no tie: *)
(* of two crossing orders one is ahead (next_sequence_,                    *)
(* order_book.cpp:106, 131, 146).                                          *)
NoTies ==
    /\ \A r \in resting : r.sequence < next_sequence
    /\ \A r, s \in resting : r.sequence = s.sequence => r = s

(* The trades of one call go from the best price to the worst, oldest      *)
(* first, and as long as the call runs no resting order is better than one *)
(* it has traded with already (order_book.hpp:93-97).                      *)
NoBetterThan(price, side, other) == IF side = "Buy" THEN price <= other ELSE price >= other

TradesBestFirst ==
    /\ \A i, j \in DOMAIN trades : i < j =>
          /\ trades[i].sequence < trades[j].sequence
          /\ NoBetterThan(trades[i].price, trades[i].side, trades[j].price)
    /\ incoming # None => \A i \in DOMAIN trades : \A r \in resting :
          r.side # trades[i].side => NoBetterThan(trades[i].price, trades[i].side, r.price)
================================================================================
