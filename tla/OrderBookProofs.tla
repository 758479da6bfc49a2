--------------------------- MODULE OrderBookProofs ---------------------------
(***************************************************************************)
(* Proofs about OrderBook, for any number of orders, products, attempts    *)
(* and any stock.  PaymentsMatchStatus and ShipmentsMatchStatus are        *)
(* inductive together with the type invariant; StockConserved is, once it  *)
(* is known that only finitely many orders are live.                       *)
(***************************************************************************)
EXTENDS OrderBook, FoldProofs, TLAPS

USE BookAssumption

BookInv == BookTypeOK /\ PaymentsMatchStatus /\ ShipmentsMatchStatus

\* The tables keep their types: in particular no quantity in stock goes negative,
\* whichever orders compete for it.  (_create_order_and_reserve_stock)
LEMMA BookTypeStep == BookTypeOK /\ [BookNext]_bookVars => BookTypeOK'
<1> SUFFICES ASSUME BookTypeOK, [BookNext]_bookVars PROVE BookTypeOK'
  OBVIOUS
<1> USE DEF BookTypeOK, NextPayment, PaymentRows, ShipmentRows, OrderStatus
<1>1. ASSUME NEW o \in Orders, NEW basket \in Baskets, PlaceOrder(o, basket)
      PROVE BookTypeOK'
  <2>1. basket \in [Products -> Nat]
    OBVIOUS
  <2>2. \A p \in Products : stock[p] - basket[p] \in Nat
    BY <1>1, <2>1 DEF PlaceOrder, InStock
  <2> QED BY <1>1, <2>1, <2>2 DEF PlaceOrder
<1>2. ASSUME NEW o \in Orders, PayOrder(o) PROVE BookTypeOK'
  BY <1>2 DEF PayOrder, Move
<1>3. ASSUME NEW o \in Orders, DeclinePayment(o) PROVE BookTypeOK'
  BY <1>3 DEF DeclinePayment
<1>4. ASSUME NEW o \in Orders, ExhaustPayments(o) PROVE BookTypeOK'
  BY <1>4 DEF ExhaustPayments, Move, ReturnStock
<1>5. ASSUME NEW o \in Orders, CancelOrder(o) PROVE BookTypeOK'
  BY <1>5 DEF CancelOrder, Move, ReturnStock
<1>6. ASSUME NEW o \in Orders, ShipOrder(o) PROVE BookTypeOK'
  BY <1>6 DEF ShipOrder, Move
<1>7. ASSUME NEW o \in Orders, DeliverOrder(o) PROVE BookTypeOK'
  BY <1>7 DEF DeliverOrder, Move
<1>8. ASSUME NEW o \in Orders, RefundOrder(o) PROVE BookTypeOK'
  BY <1>8 DEF RefundOrder, Move
<1>9. ASSUME NEW p \in Products, Restock(p) PROVE BookTypeOK'
  BY <1>9 DEF Restock
<1>10. CASE UNCHANGED bookVars
  BY <1>10 DEF bookVars
<1> QED
  BY <1>1, <1>2, <1>3, <1>4, <1>5, <1>6, <1>7, <1>8, <1>9, <1>10 DEF BookNext

LEMMA BookInitInv == BookInit => BookInv
BY DEF BookInit, BookInv, BookTypeOK, PaymentsMatchStatus, PaymentsMatch,
       ShipmentsMatchStatus, ShipmentMatches, Approved, EmptyBasket, PaymentRows, ShipmentRows, OrderStatus, PaidStatuses

\* The moves _TRANSITIONS lists, one by one.
LEMMA LegalMoves ==
  ASSUME NEW from \in OrderStatus, NEW to, CanTransition(from, to)
  PROVE  /\ to \in OrderStatus
         /\ to = "paid" => from = "created"
         /\ to = "shipped" => from = "paid"
         /\ to = "delivered" => from = "shipped"
         /\ to = "refunded" => from = "delivered"
         /\ to = "cancelled" => from \in {"created", "paid"}
         /\ to # "created"
BY DEF OrderStatus, CanTransition, Transitions

-----------------------------------------------------------------------------
(* Payments.                                                               *)

LEMMA NextPaymentRow ==
  ASSUME BookTypeOK, NEW o \in Orders, NEW result \in {"approved", "declined"}
  PROVE  NextPayment(o, result) \in PaymentRows
<1>1. payments[o] \in Seq(PaymentRows)
  BY DEF BookTypeOK
<1>2. Len(payments[o]) + 1 \in Nat \ {0}
  BY <1>1
<1> QED BY <1>2 DEF NextPayment, PaymentRows

\* What one more attempt does to the payments of its order.
LEMMA AttemptAppended ==
  ASSUME BookTypeOK, NEW o \in Orders, NEW result \in {"approved", "declined"},
         payments' = [payments EXCEPT ![o] = Append(@, NextPayment(o, result))]
  PROVE  /\ Len(payments'[o]) = Len(payments[o]) + 1
         /\ \A i \in 1 .. Len(payments[o]) : payments'[o][i] = payments[o][i]
         /\ payments'[o][Len(payments[o]) + 1].attempt = Len(payments[o]) + 1
         /\ Approved(o)' = IF result = "approved"
                             THEN Approved(o) \cup {Len(payments[o]) + 1}
                             ELSE Approved(o)
<1> DEFINE old == payments[o]
           row == NextPayment(o, result)
<1>1. old \in Seq(PaymentRows) /\ payments'[o] = Append(old, row)
  BY DEF BookTypeOK
<1>2. row.attempt = Len(old) + 1 /\ row.result = result
  BY DEF NextPayment
<1> HIDE DEF old, row
<1>3. /\ Len(Append(old, row)) = Len(old) + 1
      /\ DOMAIN Append(old, row) = 1 .. Len(old) + 1
      /\ DOMAIN old = 1 .. Len(old)
      /\ Len(old) \in Nat
      /\ \A i \in 1 .. Len(old) : Append(old, row)[i] = old[i]
      /\ Append(old, row)[Len(old) + 1] = row
  BY <1>1
<1>4. Approved(o) = {i \in DOMAIN old : old[i].result = "approved"}
  BY DEF Approved, old
<1>5. Approved(o)' = {i \in DOMAIN Append(old, row) : Append(old, row)[i].result = "approved"}
  BY <1>1 DEF Approved
<1>6. Approved(o)' = {i \in 1 .. Len(old) : old[i].result = "approved"}
                       \cup {i \in {Len(old) + 1} : row.result = "approved"}
  BY <1>3, <1>5
<1>7. Approved(o)' = IF result = "approved"
                       THEN Approved(o) \cup {Len(old) + 1} ELSE Approved(o)
  BY <1>2, <1>3, <1>4, <1>6
<1> QED
  BY <1>1, <1>2, <1>3, <1>7 DEF old

\* An order whose row and payments a step leaves alone keeps its property.
LEMMA PaymentsUntouched ==
  ASSUME NEW o \in Orders, PaymentsMatch(o),
         status'[o] = status[o], payments'[o] = payments[o]
  PROVE  PaymentsMatch(o)'
BY DEF PaymentsMatch, Approved

LEMMA PaymentsStep == BookTypeOK /\ PaymentsMatchStatus /\ BookNext => PaymentsMatchStatus'
<1> SUFFICES ASSUME BookTypeOK, PaymentsMatchStatus, BookNext, NEW x \in Orders
             PROVE  PaymentsMatch(x)'
  BY DEF PaymentsMatchStatus
<1>1. PaymentsMatch(x)
  BY DEF PaymentsMatchStatus
<1> USE DEF BookTypeOK, OrderStatus, PaidStatuses
<1>2. ASSUME NEW o \in Orders, NEW result \in {"approved", "declined"},
             NEW to \in OrderStatus,
             payments' = [payments EXCEPT ![o] = Append(@, NextPayment(o, result))],
             status[o] = "created",
             status' = [status EXCEPT ![o] = to],
             \/ result = "approved" /\ to = "paid"
             \/ result = "declined" /\ to = "created" /\ Len(payments[o]) + 1 < MaxAttempts
             \/ result = "declined" /\ to = "cancelled" /\ Len(payments[o]) + 1 >= MaxAttempts
      PROVE  PaymentsMatch(x)'
  <2>1. CASE x # o
    BY <1>1, <1>2, <2>1, PaymentsUntouched
  <2>2. CASE x = o
    <3>1. Len(payments[x]) \in Nat
      OBVIOUS
    <3>2. /\ \A i \in 1 .. Len(payments[x]) : payments[x][i].attempt = i
          /\ Len(payments[x]) < MaxAttempts
          /\ Approved(x) = {}
      BY <1>1, <1>2, <2>2 DEF PaymentsMatch
    <3>3. /\ Len(payments'[x]) = Len(payments[x]) + 1
          /\ \A i \in 1 .. Len(payments[x]) : payments'[x][i] = payments[x][i]
          /\ payments'[x][Len(payments[x]) + 1].attempt = Len(payments[x]) + 1
          /\ Approved(x)' = IF result = "approved" THEN {Len(payments[x]) + 1} ELSE {}
      BY <1>2, <2>2, <3>2, AttemptAppended
    <3>4. status'[x] = to
      BY <1>2, <2>2
    <3>5. \A i \in 1 .. Len(payments'[x]) : payments'[x][i].attempt = i
      BY <3>1, <3>2, <3>3
    <3> QED
      BY <1>2, <2>2, <3>1, <3>2, <3>3, <3>4, <3>5 DEF PaymentsMatch
  <2> QED BY <2>1, <2>2
<1>3. ASSUME NEW o \in Orders, NEW to \in OrderStatus, Move(o, to), UNCHANGED payments,
             to \in PaidStatuses => status[o] \in PaidStatuses,
             to # "created"
      PROVE  PaymentsMatch(x)'
  <2>1. CASE x # o
    BY <1>1, <1>3, <2>1, PaymentsUntouched DEF Move
  <2>2. CASE x = o
    <3>1. status'[x] = to
      BY <1>3, <2>2 DEF Move
    <3>2. Approved(x)' = Approved(x) /\ payments'[x] = payments[x]
      BY <1>3 DEF Approved
    <3> QED
      BY <1>1, <1>3, <2>2, <3>1, <3>2 DEF PaymentsMatch
  <2> QED BY <2>1, <2>2
<1>4. ASSUME NEW o \in Orders, NEW basket \in Baskets, PlaceOrder(o, basket)
      PROVE  PaymentsMatch(x)'
  <2>1. CASE x # o
    BY <1>1, <1>4, <2>1, PaymentsUntouched DEF PlaceOrder
  <2>2. CASE x = o
    <3>1. payments'[x] = payments[x] /\ status'[x] = "created" /\ status[x] = "none"
      BY <1>4, <2>2 DEF PlaceOrder
    <3>2. Approved(x)' = Approved(x) /\ Approved(x) \subseteq 1 .. Len(payments[x])
      BY <3>1 DEF Approved
    <3> QED
      BY <1>1, <3>1, <3>2 DEF PaymentsMatch
  <2> QED BY <2>1, <2>2
<1>5. ASSUME NEW o \in Orders, PayOrder(o) PROVE PaymentsMatch(x)'
  <2>1. status[o] = "created"
    BY <1>5, LegalMoves DEF PayOrder, Move
  <2> QED BY <1>2, <1>5, <2>1 DEF PayOrder, Move
<1>6. ASSUME NEW o \in Orders, DeclinePayment(o) PROVE PaymentsMatch(x)'
  <2>1. status' = [status EXCEPT ![o] = "created"]
    BY <1>6 DEF DeclinePayment
  <2> QED BY <1>2, <1>6, <2>1 DEF DeclinePayment
<1>7. ASSUME NEW o \in Orders, ExhaustPayments(o) PROVE PaymentsMatch(x)'
  BY <1>2, <1>7 DEF ExhaustPayments, Move
<1>8. ASSUME NEW o \in Orders, CancelOrder(o) PROVE PaymentsMatch(x)'
  BY <1>3, <1>8 DEF CancelOrder, PaidStatuses, OrderStatus
<1>9. ASSUME NEW o \in Orders, ShipOrder(o) PROVE PaymentsMatch(x)'
  BY <1>3, <1>9, LegalMoves DEF ShipOrder, Move
<1>10. ASSUME NEW o \in Orders, DeliverOrder(o) PROVE PaymentsMatch(x)'
  BY <1>3, <1>10, LegalMoves DEF DeliverOrder, Move
<1>11. ASSUME NEW o \in Orders, RefundOrder(o) PROVE PaymentsMatch(x)'
  BY <1>3, <1>11, LegalMoves DEF RefundOrder, Move
<1>12. ASSUME NEW p \in Products, Restock(p) PROVE PaymentsMatch(x)'
  BY <1>1, <1>12, PaymentsUntouched DEF Restock
<1> QED
  BY <1>4, <1>5, <1>6, <1>7, <1>8, <1>9, <1>10, <1>11, <1>12 DEF BookNext

-----------------------------------------------------------------------------
(* Shipments.                                                              *)

LEMMA ShipmentUntouched ==
  ASSUME NEW o \in Orders, ShipmentMatches(o),
         status'[o] = status[o], shipment'[o] = shipment[o]
  PROVE  ShipmentMatches(o)'
BY DEF ShipmentMatches

LEMMA ShipmentsStep == BookTypeOK /\ ShipmentsMatchStatus /\ BookNext => ShipmentsMatchStatus'
<1> SUFFICES ASSUME BookTypeOK, ShipmentsMatchStatus, BookNext, NEW x \in Orders
             PROVE  ShipmentMatches(x)'
  BY DEF ShipmentsMatchStatus
<1>1. ShipmentMatches(x)
  BY DEF ShipmentsMatchStatus
<1> USE DEF BookTypeOK, ShipmentRows
<1>2. ASSUME NEW o \in Orders, PayOrder(o) PROVE ShipmentMatches(x)'
  BY <1>1, <1>2, LegalMoves DEF PayOrder, Move, ShipmentMatches, OrderStatus
<1>3. ASSUME NEW o \in Orders, DeclinePayment(o) PROVE ShipmentMatches(x)'
  BY <1>1, <1>3, ShipmentUntouched DEF DeclinePayment
<1>4. ASSUME NEW o \in Orders, ExhaustPayments(o) PROVE ShipmentMatches(x)'
  BY <1>1, <1>4 DEF ExhaustPayments, Move, ShipmentMatches
<1>5. ASSUME NEW o \in Orders, CancelOrder(o) PROVE ShipmentMatches(x)'
  BY <1>1, <1>5, LegalMoves DEF CancelOrder, Move, ShipmentMatches
<1>6. ASSUME NEW o \in Orders, ShipOrder(o) PROVE ShipmentMatches(x)'
  BY <1>1, <1>6 DEF ShipOrder, Move, ShipmentMatches
<1>7. ASSUME NEW o \in Orders, DeliverOrder(o) PROVE ShipmentMatches(x)'
  BY <1>1, <1>7 DEF DeliverOrder, Move, ShipmentMatches
<1>8. ASSUME NEW o \in Orders, RefundOrder(o) PROVE ShipmentMatches(x)'
  BY <1>1, <1>8, LegalMoves DEF RefundOrder, Move, ShipmentMatches, OrderStatus
<1>9. ASSUME NEW o \in Orders, NEW basket \in Baskets, PlaceOrder(o, basket)
      PROVE  ShipmentMatches(x)'
  BY <1>1, <1>9 DEF PlaceOrder, ShipmentMatches
<1>10. ASSUME NEW p \in Products, Restock(p) PROVE ShipmentMatches(x)'
  BY <1>1, <1>10, ShipmentUntouched DEF Restock
<1> QED
  BY <1>2, <1>3, <1>4, <1>5, <1>6, <1>7, <1>8, <1>9, <1>10 DEF BookNext

-----------------------------------------------------------------------------
(* Stock.                                                                  *)

Live == {o \in Orders : status[o] \in Reserving}

\* Every order that was ever placed came by a step of its own.
FinitelyManyLive == IsFiniteSet(Live)

StockInv == BookTypeOK /\ FinitelyManyLive /\ StockConserved

\* What the orders of a set hold of one product.
Quantity(orders, lines, p) == SumFunctionOnSet([o \in Orders |-> lines[o][p]], orders)

LEMMA HeldIs == \A p : Held(p) = Quantity(Live, items, p)
BY DEF Held, Quantity, Live

LEMMA QuantityFacts ==
  ASSUME NEW orders \in SUBSET Orders, IsFiniteSet(orders), NEW p \in Products,
         NEW lines \in [Orders -> [Products -> Nat]]
  PROVE  /\ Quantity(orders, lines, p) \in Nat
         /\ orders = {} => Quantity(orders, lines, p) = 0
         /\ \A o \in orders : Quantity(orders, lines, p) = lines[o][p] + Quantity(orders \ {o}, lines, p)
         /\ \A other \in [Orders -> [Products -> Nat]] :
              (\A o \in orders : other[o] = lines[o]) => Quantity(orders, other, p) = Quantity(orders, lines, p)
<1> DEFINE fun(its) == [o \in Orders |-> its[o][p]]
<1>1. \A its \in [Orders -> [Products -> Nat]] : \A o \in orders : fun(its)[o] = its[o][p] /\ fun(its)[o] \in Nat
  OBVIOUS
<1>2. \A its : Quantity(orders, its, p) = SumFunctionOnSet(fun(its), orders)
  BY DEF Quantity
<1>3. \A o : Quantity(orders \ {o}, lines, p) = SumFunctionOnSet(fun(lines), orders \ {o})
  BY DEF Quantity
<1> HIDE DEF fun
<1>4. \A o \in orders : fun(lines)[o] \in Nat
  BY <1>1
<1>5. /\ SumFunctionOnSet(fun(lines), orders) \in Nat
      /\ orders = {} => SumFunctionOnSet(fun(lines), orders) = 0
  BY <1>4, SumTaken
<1>6. \A o \in orders :
        SumFunctionOnSet(fun(lines), orders) = fun(lines)[o] + SumFunctionOnSet(fun(lines), orders \ {o})
  BY <1>4, SumSplit
<1>7. ASSUME NEW other \in [Orders -> [Products -> Nat]], \A o \in orders : other[o] = lines[o]
      PROVE  SumFunctionOnSet(fun(other), orders) = SumFunctionOnSet(fun(lines), orders)
  <2>1. \A o \in orders : fun(lines)[o] \in Nat /\ fun(other)[o] = fun(lines)[o]
    BY <1>1, <1>7
  <2> QED
    BY <2>1, SumSame
<1> QED
  BY <1>1, <1>2, <1>3, <1>5, <1>6, <1>7

\* An order enters the live ones with its lines, or leaves them.
LEMMA OrderEnters ==
  ASSUME BookTypeOK, BookTypeOK', FinitelyManyLive, NEW o \in Orders, o \notin Live,
         Live' = Live \cup {o}, \A x \in Live : items'[x] = items[x]
  PROVE  FinitelyManyLive' /\ \A p \in Products : Held(p)' = Held(p) + items'[o][p] /\ Held(p) \in Nat
<1>1. Live \in SUBSET Orders /\ IsFiniteSet(Live) /\ IsFiniteSet(Live \cup {o})
  BY FS_AddElement DEF Live, FinitelyManyLive
<1>2. items \in [Orders -> [Products -> Nat]] /\ items' \in [Orders -> [Products -> Nat]]
  BY DEF BookTypeOK
<1>3. ASSUME NEW p \in Products PROVE Held(p)' = Held(p) + items'[o][p] /\ Held(p) \in Nat
  <2>1. PICK lines \in [Orders -> [Products -> Nat]] : lines = items'
    BY <1>2
  <2>2. PICK more \in SUBSET Orders : more = Live' /\ IsFiniteSet(more) /\ o \in more /\ more \ {o} = Live
    BY <1>1
  <2>3. Held(p) = Quantity(Live, items, p) /\ Held(p)' = Quantity(more, lines, p)
    BY <2>1, <2>2, HeldIs DEF Held, Quantity, Live
  <2>4. Quantity(more, lines, p) = lines[o][p] + Quantity(more \ {o}, lines, p)
    BY <2>2, QuantityFacts
  <2>5. Quantity(Live, lines, p) = Quantity(Live, items, p) /\ Quantity(Live, items, p) \in Nat
    <3>1. \A x \in Live : lines[x] = items[x]
      BY <2>1
    <3> QED
      BY <1>1, <1>2, <3>1, QuantityFacts
  <2>6. lines[o][p] \in Nat
    OBVIOUS
  <2>7. Held(p)' = lines[o][p] + Held(p) /\ Held(p) \in Nat
    BY <2>2, <2>3, <2>4, <2>5
  <2> QED
    BY <2>1, <2>6, <2>7
<1> QED
  BY <1>1, <1>3 DEF FinitelyManyLive

LEMMA OrderLeaves ==
  ASSUME BookTypeOK, FinitelyManyLive, NEW o \in Live, Live' = Live \ {o}, UNCHANGED items
  PROVE  FinitelyManyLive' /\ \A p \in Products : Held(p) = Held(p)' + items[o][p] /\ Held(p)' \in Nat
<1>1. Live \in SUBSET Orders /\ IsFiniteSet(Live) /\ IsFiniteSet(Live \ {o})
  BY FS_RemoveElement DEF Live, FinitelyManyLive
<1>2. items \in [Orders -> [Products -> Nat]]
  BY DEF BookTypeOK
<1>3. ASSUME NEW p \in Products PROVE Held(p) = Held(p)' + items[o][p] /\ Held(p)' \in Nat
  <2>1. Held(p) = Quantity(Live, items, p) /\ Held(p)' = Quantity(Live \ {o}, items, p)
    BY HeldIs DEF Held, Quantity, Live
  <2>2. Quantity(Live, items, p) = items[o][p] + Quantity(Live \ {o}, items, p)
    BY <1>1, <1>2, QuantityFacts
  <2>3. Quantity(Live \ {o}, items, p) \in Nat
    BY <1>1, <1>2, QuantityFacts
  <2>4. items[o][p] \in Nat
    BY <1>1, <1>2
  <2> QED
    BY <2>1, <2>2, <2>3, <2>4
<1> QED
  BY <1>1, <1>3 DEF FinitelyManyLive

LEMMA LiveKept ==
  ASSUME Live' = Live, UNCHANGED items, FinitelyManyLive
  PROVE  FinitelyManyLive' /\ \A p \in Products : Held(p)' = Held(p)
<1>1. FinitelyManyLive'
  BY DEF FinitelyManyLive
<1>2. ASSUME NEW p \in Products PROVE Held(p)' = Held(p)
  <2>1. Held(p) = Quantity(Live, items, p) /\ Held(p)' = Quantity(Live', items', p)
    BY HeldIs DEF Held, Quantity, Live
  <2> QED
    BY <2>1
<1> QED
  BY <1>1, <1>2

LEMMA StockInit == BookInit => StockInv
<1> SUFFICES ASSUME BookInit PROVE StockInv
  OBVIOUS
<1>1. BookTypeOK
  BY BookInitInv DEF BookInv
<1>2. Live = {}
  BY DEF BookInit, Live, Reserving, OrderStatus
<1>3. FinitelyManyLive
  BY <1>2, FS_EmptySet DEF FinitelyManyLive
<1>4. \A p \in Products : Held(p) = 0
  BY <1>1, <1>2, <1>3, HeldIs, QuantityFacts DEF BookTypeOK, FinitelyManyLive
<1>5. \A p \in Products : stock[p] = supplied[p] /\ stock[p] \in Nat
  BY DEF BookInit
<1> QED
  BY <1>1, <1>3, <1>4, <1>5 DEF StockInv, StockConserved

\* A placed order takes its lines from the shelf, a cancelled one puts them back, and
\* every other use case leaves both the shelf and the live orders alone.
LEMMA ConservedStep == StockInv /\ BookTypeOK' /\ BookNext => FinitelyManyLive' /\ StockConserved'
<1> SUFFICES ASSUME StockInv, BookTypeOK', BookNext PROVE FinitelyManyLive' /\ StockConserved'
  OBVIOUS
<1>0. /\ BookTypeOK /\ FinitelyManyLive
      /\ \A p \in Products : stock[p] + Held(p) = supplied[p] /\ stock[p] \in Nat /\ supplied[p] \in Nat
  BY DEF StockInv, StockConserved, BookTypeOK
<1>1. ASSUME NEW o \in Orders, NEW basket \in Baskets, PlaceOrder(o, basket)
      PROVE  FinitelyManyLive' /\ StockConserved'
  <2>1. /\ status \in [Orders -> OrderStatus \cup {"none"}] /\ items \in [Orders -> [Products -> Nat]]
        /\ status[o] = "none" /\ status' = [status EXCEPT ![o] = "created"]
        /\ items' = [items EXCEPT ![o] = basket] /\ basket \in [Products -> Nat]
        /\ stock' = [p \in Products |-> stock[p] - basket[p]] /\ supplied' = supplied
    BY <1>0, <1>1 DEF PlaceOrder, BookTypeOK
  <2>2. o \notin Live /\ Live' = Live \cup {o}
    BY <2>1 DEF Live, Reserving, OrderStatus
  <2>3. items'[o] = basket /\ \A x \in Live : items'[x] = items[x]
    BY <2>1, <2>2 DEF Live
  <2>4. FinitelyManyLive' /\ \A p \in Products : Held(p)' = Held(p) + items'[o][p] /\ Held(p) \in Nat
    BY <1>0, <2>2, <2>3, OrderEnters
  <2>5. ASSUME NEW p \in Products PROVE stock'[p] + Held(p)' = supplied'[p]
    <3>1. stock'[p] = stock[p] - basket[p] /\ basket[p] \in Nat
      BY <2>1
    <3> QED
      BY <1>0, <2>1, <2>3, <2>4, <3>1
  <2> QED
    BY <2>4, <2>5 DEF StockConserved
<1>2. ASSUME NEW o \in Orders, status[o] \in Reserving, status' = [status EXCEPT ![o] = "cancelled"],
             ReturnStock(o), UNCHANGED <<items, supplied>>
      PROVE  FinitelyManyLive' /\ StockConserved'
  <2>1. o \in Live /\ Live' = Live \ {o}
    BY <1>0, <1>2 DEF Live, Reserving, OrderStatus, BookTypeOK
  <2>2. FinitelyManyLive' /\ \A p \in Products : Held(p) = Held(p)' + items[o][p] /\ Held(p)' \in Nat
    BY <1>0, <1>2, <2>1, OrderLeaves
  <2>3. ASSUME NEW p \in Products PROVE stock'[p] + Held(p)' = supplied'[p]
    <3>1. stock'[p] = stock[p] + items[o][p] /\ items[o][p] \in Nat
      BY <1>0, <1>2 DEF ReturnStock, BookTypeOK
    <3> QED
      BY <1>0, <1>2, <2>2, <3>1
  <2> QED
    BY <2>2, <2>3 DEF StockConserved
<1>3. ASSUME NEW o \in Orders, status[o] \in Reserving, NEW to \in Reserving,
             status' = [status EXCEPT ![o] = to], UNCHANGED <<items, stock, supplied>>
      PROVE  FinitelyManyLive' /\ StockConserved'
  <2>1. Live' = Live
    BY <1>0, <1>3 DEF Live, BookTypeOK
  <2> QED
    BY <1>0, <1>3, <2>1, LiveKept DEF StockConserved
<1>4. ASSUME NEW o \in Orders, DeclinePayment(o) PROVE FinitelyManyLive' /\ StockConserved'
  <2>1. Live' = Live /\ UNCHANGED <<items, stock, supplied>>
    BY <1>4 DEF DeclinePayment, Live
  <2> QED
    BY <1>0, <2>1, LiveKept DEF StockConserved
<1>5. ASSUME NEW p \in Products, Restock(p) PROVE FinitelyManyLive' /\ StockConserved'
  <2>1. Live' = Live /\ UNCHANGED items
    BY <1>5 DEF Restock, Live
  <2>2. FinitelyManyLive' /\ \A q \in Products : Held(q)' = Held(q)
    BY <1>0, <2>1, LiveKept
  <2>3. \A q \in Products : Held(q) \in Nat
    BY <1>0, HeldIs, QuantityFacts DEF BookTypeOK, FinitelyManyLive, Live
  <2>4. ASSUME NEW q \in Products PROVE stock'[q] + Held(q)' = supplied'[q]
    <3>1. \/ q = p /\ stock'[q] = stock[q] + RestockQty /\ supplied'[q] = supplied[q] + RestockQty
          \/ q # p /\ stock'[q] = stock[q] /\ supplied'[q] = supplied[q]
      BY <1>0, <1>5 DEF Restock, BookTypeOK
    <3> QED
      BY <1>0, <2>2, <2>3, <3>1
  <2> QED
    BY <2>2, <2>4 DEF StockConserved
<1>6. ASSUME NEW o \in Orders, NEW to, Move(o, to)
      PROVE  /\ status[o] \in Reserving /\ to \in OrderStatus
             /\ status' = [status EXCEPT ![o] = to] /\ UNCHANGED <<items, supplied>>
  <2>1. status[o] \in OrderStatus /\ CanTransition(status[o], to)
    BY <1>0, <1>6 DEF Move, BookTypeOK
  <2>2. status[o] # "cancelled"
    BY <2>1 DEF CanTransition, Transitions
  <2> QED
    BY <1>6, <2>1, <2>2, LegalMoves DEF Move, Reserving
<1>7. ASSUME NEW o \in Orders, PayOrder(o) \/ ShipOrder(o) \/ DeliverOrder(o) \/ RefundOrder(o)
      PROVE  FinitelyManyLive' /\ StockConserved'
  <2>1. PICK to \in {"paid", "shipped", "delivered", "refunded"} : Move(o, to) /\ UNCHANGED stock
    BY <1>7 DEF PayOrder, ShipOrder, DeliverOrder, RefundOrder
  <2>2. to \in Reserving
    BY DEF Reserving, OrderStatus
  <2> QED
    BY <1>3, <1>6, <2>1, <2>2
<1>8. ASSUME NEW o \in Orders, ExhaustPayments(o) \/ CancelOrder(o)
      PROVE  FinitelyManyLive' /\ StockConserved'
  <2>1. Move(o, "cancelled") /\ ReturnStock(o)
    BY <1>8 DEF ExhaustPayments, CancelOrder
  <2> QED
    BY <1>2, <1>6, <2>1
<1> QED
  BY <1>1, <1>4, <1>5, <1>7, <1>8 DEF BookNext

LEMMA StockInvariant == BookSpec => []StockInv
<1>1. StockInv /\ [BookNext]_bookVars => StockInv'
  <2> SUFFICES ASSUME StockInv, [BookNext]_bookVars PROVE StockInv'
    OBVIOUS
  <2>1. BookTypeOK'
    BY BookTypeStep DEF StockInv
  <2>2. CASE BookNext
    BY <2>1, <2>2, ConservedStep DEF StockInv
  <2>3. CASE UNCHANGED bookVars
    <3>1. Live' = Live /\ UNCHANGED <<items, stock, supplied>>
      BY <2>3 DEF bookVars, Live
    <3> QED
      BY <2>1, <3>1, LiveKept DEF StockInv, StockConserved
  <2> QED
    BY <2>2, <2>3
<1> QED
  BY StockInit, <1>1, PTL DEF BookSpec

-----------------------------------------------------------------------------
LEMMA BookStutter == BookInv /\ UNCHANGED bookVars => BookInv'
BY DEF BookInv, bookVars, BookTypeOK, PaymentsMatchStatus, PaymentsMatch,
       ShipmentsMatchStatus, ShipmentMatches, Approved

LEMMA BookInvariant == BookSpec => []BookInv
<1>1. BookInv /\ [BookNext]_bookVars => BookInv'
  BY BookTypeStep, PaymentsStep, ShipmentsStep, BookStutter DEF BookInv
<1> QED
  BY BookInitInv, <1>1, PTL DEF BookSpec

\* The tables always have their types; stock never goes below zero (the CHECK on
\* inventory.quantity never fires).
THEOREM BookTypeCorrect == BookSpec => []BookTypeOK
<1>1. BookInv => BookTypeOK
  BY DEF BookInv
<1> QED
  BY BookInvariant, <1>1, PTL

\* Payments agree with the lifecycle: dense attempt numbers, at most one charge, none
\* after it, no order left waiting with its attempts used up.
THEOREM PaymentsAlwaysMatch == BookSpec => []PaymentsMatchStatus
<1>1. BookInv => PaymentsMatchStatus
  BY DEF BookInv
<1> QED
  BY BookInvariant, <1>1, PTL

\* An order has a parcel exactly while it is shipped, delivered or refunded.
THEOREM ShipmentsAlwaysMatch == BookSpec => []ShipmentsMatchStatus
<1>1. BookInv => ShipmentsMatchStatus
  BY DEF BookInv
<1> QED
  BY BookInvariant, <1>1, PTL

\* No unit is lost, sold twice or returned twice, for any number of orders and products:
\* shelf and live orders add up to what was supplied.
THEOREM StockAlwaysConserved == BookSpec => []StockConserved
<1>1. StockInv => StockConserved
  BY DEF StockInv
<1> QED
  BY StockInvariant, <1>1, PTL
=============================================================================
