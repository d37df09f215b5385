-------------------------- MODULE PriceTimeBook_proofs --------------------------
(***************************************************************************)
(* The book is never crossed, ids and sequence numbers never repeat, and   *)
(* the trades of a call go from the best price to the worst: for every set *)
(* of ids, prices and quantities, and any number of calls.                 *)
(***************************************************************************)
EXTENDS PriceTimeBook, TLAPS

TradeRecords ==
    [aggressor : OrderIds, resting : OrderIds, side : Sides, price : Prices,
     quantity : Int, sequence : Nat]

(* What TradesBestFirst needs to be inductive: the trades so far are of the *)
(* order being submitted, and older than anything still to be numbered.    *)
TradesOfTheCall ==
    /\ trades \in Seq(TradeRecords)
    /\ \A i \in DOMAIN trades : trades[i].sequence < next_sequence
    /\ incoming # None => \A i \in DOMAIN trades : trades[i].side = incoming.side

IInv == TypeOK /\ Uncrossed /\ OneOrderPerId /\ NoTies /\ TradesOfTheCall /\ TradesBestFirst

Submissions ==
    [id : OrderIds, side : Sides, price : Prices, quantity : Quantities]

--------------------------------------------------------------------------------
(* An order that could be submitted is an order, and is not None.          *)
LEMMA SubmissionIsOrder ==
    ASSUME NEW order \in Submissions
    PROVE  order \in Orders /\ order # None
BY QuantitiesAssumption, NoneAssumption DEF Submissions, Orders, Sides

(* None is not an order, whatever its quantity.                            *)
LEMMA OrderIsNotNone ==
    ASSUME NEW order \in Orders
    PROVE  order # None
BY NoneAssumption DEF Orders, Sides

(* The initial state.                                                      *)
LEMMA InitHolds == Init => IInv
<1> SUFFICES ASSUME Init PROVE IInv
  OBVIOUS
<1>1. TypeOK /\ Uncrossed /\ OneOrderPerId /\ NoTies
  BY DEF Init, TypeOK, Uncrossed, OneOrderPerId, NoTies, Orders
<1>2. trades \in Seq(TradeRecords) /\ DOMAIN trades = {}
  BY DEF Init
<1>3. TradesOfTheCall /\ TradesBestFirst
  BY <1>2 DEF TradesOfTheCall, TradesBestFirst
<1> QED
  BY <1>1, <1>3 DEF IInv

--------------------------------------------------------------------------------
(* Accepting an order.                                                     *)
LEMMA SubmitStep ==
    ASSUME IInv, NEW order \in Submissions, Submit(order)
    PROVE  IInv'
<1> USE DEF IInv, Submit
<1>1. order \in Orders /\ order # None
  BY SubmissionIsOrder
<1>2. TypeOK'
  <2>1. order.quantity \in Int
    BY <1>1 DEF Orders
  <2> QED
    BY <1>1, <2>1 DEF TypeOK
<1>3. Uncrossed' /\ NoTies'
  BY DEF Uncrossed, NoTies
<1>4. OneOrderPerId'
  BY DEF OneOrderPerId, IsResting
<1>5. trades' \in Seq(TradeRecords) /\ DOMAIN trades' = {}
  OBVIOUS
<1>6. TradesOfTheCall' /\ TradesBestFirst'
  BY <1>5 DEF TradesOfTheCall, TradesBestFirst
<1> QED
  BY <1>2, <1>3, <1>4, <1>6

(* A step that clears the trades, and at most takes orders out of the book *)
(* between two calls: Refuse, Cancel, CancelUnknown, Destroy.              *)
LEMMA ClearingStep ==
    ASSUME IInv,
           resting' \subseteq resting,
           trades' = <<>>,
           UNCHANGED <<incoming, next_sequence>>
    PROVE  IInv'
<1> USE DEF IInv
<1>1. TypeOK'
  BY DEF TypeOK
<1>2. Uncrossed' /\ NoTies'
  BY DEF Uncrossed, NoTies
<1>3. OneOrderPerId'
  BY DEF OneOrderPerId
<1>4. trades' \in Seq(TradeRecords) /\ DOMAIN trades' = {}
  OBVIOUS
<1>5. TradesOfTheCall' /\ TradesBestFirst'
  BY <1>4 DEF TradesOfTheCall, TradesBestFirst
<1> QED
  BY <1>1, <1>2, <1>3, <1>5

(* Returning from a call that filled its order.                            *)
LEMMA ReturnStep ==
    ASSUME IInv, Return
    PROVE  IInv'
<1> USE DEF IInv, Return
<1>1. TypeOK'
  BY DEF TypeOK
<1>2. Uncrossed' /\ NoTies' /\ OneOrderPerId'
  BY DEF Uncrossed, NoTies, OneOrderPerId
<1>3. TradesOfTheCall' /\ TradesBestFirst'
  BY DEF TradesOfTheCall, TradesBestFirst, NoBetterThan
<1> QED
  BY <1>1, <1>2, <1>3

--------------------------------------------------------------------------------
(* What is left of an order that nothing crosses joins the book.           *)
LEMMA RestStep ==
    ASSUME IInv, Rest
    PROVE  IInv'
<1> DEFINE new ==
      [id |-> incoming.id, side |-> incoming.side, price |-> incoming.price,
       quantity |-> incoming.quantity, sequence |-> next_sequence]
<1> USE DEF IInv
<1>1. incoming \in Orders /\ incoming # None /\ incoming.quantity > 0
  BY DEF Rest, TypeOK
<1>2. next_sequence \in Nat /\ resting \subseteq RestingOrders
  BY DEF TypeOK
<1>3. /\ resting' = resting \cup {new} /\ new \in RestingOrders
      /\ new.id = incoming.id /\ new.side = incoming.side /\ new.price = incoming.price
      /\ new.quantity = incoming.quantity /\ new.sequence = next_sequence
  BY <1>1, <1>2 DEF Rest, RestingOrders, Orders
<1>4. incoming' = None /\ trades' = trades /\ next_sequence' = next_sequence + 1
  BY DEF Rest
<1>5. \A r \in resting : ~Crosses(incoming, r)
  BY DEF Rest, Crossing
<1> HIDE DEF new
<1>6. TypeOK'
  BY <1>1, <1>2, <1>3, <1>4 DEF TypeOK
<1>7. Uncrossed'
  <2>1. \A r \in resting' : r \in resting \/ r = new
    BY <1>3
  <2>2. \A r \in resting : r.price \in Int /\ incoming.price \in Int
    BY <1>1, <1>2, PricesAssumption DEF RestingOrders, Orders
  <2> SUFFICES ASSUME NEW bid \in resting', NEW ask \in resting',
                      bid.side = "Buy", ask.side = "Sell"
               PROVE  bid.price < ask.price
    BY DEF Uncrossed
  <2>3. CASE bid \in resting /\ ask \in resting
    BY <2>3 DEF Uncrossed
  <2>4. CASE bid = new /\ ask \in resting
    BY <2>2, <2>4, <1>3, <1>5 DEF Crosses
  <2>5. CASE bid \in resting /\ ask = new
    BY <2>2, <2>5, <1>3, <1>5 DEF Crosses
  <2> QED
    BY <2>1, <2>3, <2>4, <2>5
<1>8. OneOrderPerId'
  BY <1>1, <1>3, <1>4 DEF OneOrderPerId
<1>9. NoTies'
  <2>1. \A r \in resting : r.sequence \in Nat
    BY <1>2 DEF RestingOrders
  <2> QED
    BY <2>1, <1>2, <1>3, <1>4 DEF NoTies
<1>10. TradesOfTheCall'
  <2>1. \A i \in DOMAIN trades : trades[i].sequence \in Nat
    <3>1. \A i \in DOMAIN trades : trades[i] \in TradeRecords
      BY DEF TradesOfTheCall
    <3> QED
      BY <3>1 DEF TradeRecords
  <2> QED
    BY <2>1, <1>2, <1>4 DEF TradesOfTheCall
<1>11. TradesBestFirst'
  BY <1>4 DEF TradesBestFirst, NoBetterThan
<1> QED
  BY <1>6, <1>7, <1>8, <1>9, <1>10, <1>11

--------------------------------------------------------------------------------
(* One trade with the order that is ahead of every other crossing order.   *)
LEMMA MatchStep ==
    ASSUME IInv, Match
    PROVE  IInv'
<1> USE DEF IInv
<1>1. PICK r \in Crossing : (\A s \in Crossing : s = r \/ Ahead(r, s)) /\ Trade(r)
  BY DEF Match
<1> DEFINE traded == IF incoming.quantity < r.quantity THEN incoming.quantity ELSE r.quantity
           left == [r EXCEPT !.quantity = @ - traded]
           rest == [incoming EXCEPT !.quantity = @ - traded]
           trade == [aggressor |-> incoming.id, resting |-> r.id, side |-> incoming.side,
                     price |-> r.price, quantity |-> traded, sequence |-> next_sequence]
<1>2. incoming \in Orders /\ incoming.quantity > 0 /\ incoming # None
  BY DEF Match, TypeOK
<1>3. /\ resting \subseteq RestingOrders /\ next_sequence \in Nat
      /\ r \in resting /\ r \in RestingOrders /\ r.quantity > 0
  BY DEF Crossing, TypeOK
<1>4. /\ r.quantity \in Int /\ incoming.quantity \in Int
      /\ r.price \in Int /\ incoming.price \in Int
      /\ r.sequence \in Nat /\ r.id \in OrderIds /\ r.side \in Sides /\ r.price \in Prices
      /\ incoming.id \in OrderIds /\ incoming.side \in Sides
  BY <1>2, <1>3, PricesAssumption DEF Orders, RestingOrders
<1>5. traded \in Int /\ traded > 0 /\ traded <= r.quantity /\ traded <= incoming.quantity
  BY <1>2, <1>3, <1>4
<1>6. /\ left \in RestingOrders /\ left.quantity = r.quantity - traded
      /\ left.id = r.id /\ left.side = r.side /\ left.price = r.price /\ left.sequence = r.sequence
  BY <1>3, <1>4, <1>5 DEF RestingOrders
<1>7. /\ rest \in Orders /\ rest # None /\ rest.quantity = incoming.quantity - traded
      /\ rest.id = incoming.id /\ rest.side = incoming.side
  BY <1>2, <1>4, <1>5, OrderIsNotNone DEF Orders
<1>8. /\ trade \in TradeRecords /\ trade.side = incoming.side /\ trade.price = r.price
      /\ trade.sequence = next_sequence
  BY <1>3, <1>4, <1>5 DEF TradeRecords
<1>9. /\ resting' = (resting \ {r}) \cup (IF left.quantity = 0 THEN {} ELSE {left})
      /\ incoming' = rest /\ trades' = Append(trades, trade)
      /\ next_sequence' = next_sequence + 1
  BY <1>1 DEF Trade
<1>10. Crosses(incoming, r)
  BY DEF Crossing
<1> HIDE DEF traded, left, rest, trade
<1>11. \A s \in resting' : (s \in resting /\ s # r) \/ (s = left /\ left.quantity # 0)
  BY <1>9
<1>12. TypeOK'
  <2>1. resting' \subseteq RestingOrders
    BY <1>3, <1>6, <1>11
  <2>2. \A s \in resting' : s.quantity > 0
    BY <1>4, <1>5, <1>6, <1>11 DEF TypeOK
  <2>3. incoming' \in Orders \cup {None} /\ incoming'.quantity >= 0
    BY <1>4, <1>5, <1>7, <1>9
  <2> QED
    BY <2>1, <2>2, <2>3, <1>3, <1>9 DEF TypeOK
<1>13. Uncrossed'
  BY <1>3, <1>6, <1>11 DEF Uncrossed
<1>14. OneOrderPerId'
  BY <1>2, <1>3, <1>6, <1>7, <1>9, <1>11 DEF OneOrderPerId
<1>15. NoTies'
  <2>1. \A s \in resting : s.sequence \in Nat
    BY <1>3 DEF RestingOrders
  <2> QED
    BY <2>1, <1>3, <1>6, <1>9, <1>11 DEF NoTies
(* Only now the trades: the new one is the last.                           *)
<1>16. trades \in Seq(TradeRecords)
  BY DEF TradesOfTheCall
<1>17. /\ trades' \in Seq(TradeRecords)
       /\ DOMAIN trades = 1 .. Len(trades) /\ Len(trades) \in Nat
       /\ DOMAIN trades' = 1 .. Len(trades) + 1
       /\ trades'[Len(trades) + 1] = trade
       /\ \A i \in DOMAIN trades : trades'[i] = trades[i]
  BY <1>8, <1>9, <1>16
<1>18. \A i \in DOMAIN trades' : i \in DOMAIN trades \/ i = Len(trades) + 1
  BY <1>17
<1>19. \A i \in DOMAIN trades :
          trades[i].sequence \in Nat /\ trades[i].price \in Int /\ trades[i].side \in Sides
  <2>1. \A i \in DOMAIN trades : trades[i] \in TradeRecords
    BY <1>16
  <2> QED
    BY <2>1, PricesAssumption DEF TradeRecords
<1>20. TradesOfTheCall'
  <2>1. \A i \in DOMAIN trades' : trades'[i].sequence < next_sequence'
    BY <1>3, <1>8, <1>9, <1>17, <1>18, <1>19 DEF TradesOfTheCall
  <2>2. \A i \in DOMAIN trades' : trades'[i].side = incoming'.side
    BY <1>2, <1>7, <1>8, <1>9, <1>17, <1>18 DEF TradesOfTheCall
  <2> QED
    BY <2>1, <2>2, <1>17 DEF TradesOfTheCall
<1>21. TradesBestFirst'
  <2>1. r.side # incoming.side
    BY <1>10 DEF Crosses
  <2>2. \A i \in DOMAIN trades :
           /\ trades[i].sequence < next_sequence
           /\ trades[i].side = incoming.side
           /\ \A s \in resting : s.side # trades[i].side =>
                 NoBetterThan(trades[i].price, trades[i].side, s.price)
    BY <1>2 DEF TradesOfTheCall, TradesBestFirst
  <2>3. ASSUME NEW i \in DOMAIN trades', NEW j \in DOMAIN trades', i < j
        PROVE  /\ trades'[i].sequence < trades'[j].sequence
               /\ NoBetterThan(trades'[i].price, trades'[i].side, trades'[j].price)
    <3>1. i \in DOMAIN trades /\ trades'[i] = trades[i]
      BY <2>3, <1>17
    <3>2. CASE j \in DOMAIN trades
      BY <2>3, <3>1, <3>2, <1>17 DEF TradesBestFirst
    <3>3. CASE j = Len(trades) + 1
      BY <2>1, <2>2, <3>1, <3>3, <1>3, <1>8, <1>17
    <3> QED
      BY <3>2, <3>3, <1>18
  <2>4. \A s \in resting : s.side # incoming.side =>
           NoBetterThan(r.price, incoming.side, s.price)
    <3> SUFFICES ASSUME NEW s \in resting, s.side # incoming.side
                 PROVE  NoBetterThan(r.price, incoming.side, s.price)
      OBVIOUS
    <3>1. s.price \in Int /\ s.side \in Sides
      BY <1>3, PricesAssumption DEF RestingOrders
    <3>2. CASE Crosses(incoming, s)
      <4>1. s = r \/ Ahead(r, s)
        BY <1>1, <3>2 DEF Crossing
      <4> QED
        BY <4>1, <3>1, <3>2, <1>4, <1>10 DEF Ahead, BetterPrice, NoBetterThan, Crosses, Sides
    <3>3. CASE ~Crosses(incoming, s)
      BY <3>1, <3>3, <1>4, <1>10 DEF NoBetterThan, Crosses, Sides
    <3> QED
      BY <3>2, <3>3
  <2>5. ASSUME NEW i \in DOMAIN trades', NEW s \in resting', s.side # trades'[i].side
        PROVE  NoBetterThan(trades'[i].price, trades'[i].side, s.price)
    <3>1. \E old \in resting : old.side = s.side /\ old.price = s.price
      BY <1>3, <1>6, <1>11
    <3>2. PICK old \in resting : old.side = s.side /\ old.price = s.price
      BY <3>1
    <3>3. CASE i \in DOMAIN trades
      BY <2>2, <2>5, <3>2, <3>3, <1>17
    <3>4. CASE i = Len(trades) + 1
      BY <2>4, <2>5, <3>2, <3>4, <1>8, <1>17
    <3> QED
      BY <3>3, <3>4, <1>18
  <2> QED
    BY <2>3, <2>5 DEF TradesBestFirst
<1> QED
  BY <1>12, <1>13, <1>14, <1>15, <1>20, <1>21

--------------------------------------------------------------------------------
(* Every step preserves the invariant.                                     *)
LEMMA NextHolds == IInv /\ [Next]_vars => IInv'
<1> SUFFICES ASSUME IInv, [Next]_vars PROVE IInv'
  OBVIOUS
<1>1. ASSUME NEW order \in Submissions, Submit(order) PROVE IInv'
  BY <1>1, SubmitStep
<1>2. ASSUME NEW order \in Submissions, Refuse(order) PROVE IInv'
  BY <1>2, ClearingStep DEF Refuse
<1>3. CASE Match
  BY <1>3, MatchStep
<1>4. CASE Return
  BY <1>4, ReturnStep
<1>5. CASE Rest
  BY <1>5, RestStep
<1>6. ASSUME NEW id \in OrderIds, Cancel(id) PROVE IInv'
  <2>1. resting' \subseteq resting
    BY <1>6 DEF Cancel
  <2> QED
    BY <1>6, <2>1, ClearingStep DEF Cancel
<1>7. ASSUME NEW id \in OrderIds, CancelUnknown(id) PROVE IInv'
  BY <1>7, ClearingStep DEF CancelUnknown
<1>8. CASE Destroy
  <2>1. resting' \subseteq resting
    BY <1>8 DEF Destroy
  <2> QED
    BY <1>8, <2>1, ClearingStep DEF Destroy
<1>9. CASE UNCHANGED vars
  BY <1>9 DEF vars, IInv, TypeOK, Uncrossed, OneOrderPerId, NoTies, TradesOfTheCall,
              TradesBestFirst, NoBetterThan
<1>10. ASSUME NEW id \in OrderIds, NEW side \in Sides, NEW price \in Prices,
              NEW quantity \in Quantities
       PROVE  [id |-> id, side |-> side, price |-> price, quantity |-> quantity] \in Submissions
  BY DEF Submissions
<1> QED
  BY <1>1, <1>2, <1>3, <1>4, <1>5, <1>6, <1>7, <1>8, <1>9, <1>10 DEF Next

(* The inductive invariant holds in every reachable state.                 *)
THEOREM Invariance == Spec => []IInv
BY InitHolds, NextHolds, PTL DEF Spec

(* Every field has its type, and no order without quantity rests.          *)
THEOREM TypeCorrect == Spec => []TypeOK
BY Invariance, PTL DEF IInv

(* The book is never crossed: every bid is below every ask, for any prices *)
(* and any sequence of calls.                                              *)
THEOREM NeverCrossed == Spec => []Uncrossed
BY Invariance, PTL DEF IInv

(* No id is used by two orders at once.                                    *)
THEOREM UniqueIds == Spec => []OneOrderPerId
BY Invariance, PTL DEF IInv

(* No two orders arrived at the same time.                                 *)
THEOREM UniqueArrivals == Spec => []NoTies
BY Invariance, PTL DEF IInv

(* The trades of a call go from the best price to the worst, and none      *)
(* passes over a better order.                                             *)
THEOREM BestPriceFirst == Spec => []TradesBestFirst
BY Invariance, PTL DEF IInv

(* Price-time priority orders the resting orders of a side: of any two,    *)
(* exactly one is ahead of the other, so the order that Match trades with  *)
(* is determined.                                                          *)
OneIsAhead ==
    \A r, s \in resting : r.side = s.side /\ r # s => (Ahead(r, s) <=> ~Ahead(s, r))

THEOREM PriorityIsTotal == Spec => []OneIsAhead
<1>1. IInv => OneIsAhead
  <2> SUFFICES ASSUME IInv, NEW r \in resting, NEW s \in resting, r.side = s.side, r # s
               PROVE  Ahead(r, s) <=> ~Ahead(s, r)
    BY DEF OneIsAhead
  <2>1. /\ r.price \in Int /\ s.price \in Int /\ r.side \in Sides
        /\ r.sequence \in Nat /\ s.sequence \in Nat
    BY PricesAssumption DEF IInv, TypeOK, RestingOrders
  <2>2. r.sequence # s.sequence
    BY DEF IInv, NoTies
  <2> QED
    BY <2>1, <2>2 DEF Ahead, BetterPrice, Sides
<1> QED
  BY <1>1, Invariance, PTL
================================================================================
