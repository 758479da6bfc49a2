------------------------------ MODULE OrderBook ------------------------------
(***************************************************************************)
(* What the order use cases promise: each one is a single atomic step on   *)
(* the shop's tables.  The use cases are place_order, cancel_order,        *)
(* refund_order (usecases/orders.py), pay_order and fail_payment           *)
(* (usecases/payments.py), ship_order and deliver_order                    *)
(* (usecases/shipments.py) and restock (usecases/inventory.py).  A failing *)
(* use case raises inside its transaction and changes nothing.             *)
(*                                                                         *)
(* Attempts are limited by the worker alone: its rule that the last        *)
(* declined attempt cancels the order in the same transaction              *)
(* (workers/progress.py) is part of the promise.                           *)
(***************************************************************************)
EXTENDS OrderState, Integers, Sequences, FiniteSetsExt

CONSTANTS
  Orders,        \* order ids that may ever be used
  Products,      \* product ids
  Baskets,       \* the carts customers check out: functions from Products to quantities
  MaxAttempts,   \* max_payment_attempts
  InitialStock,  \* quantity of every product when the catalog is created
  RestockQty,    \* restock_quantity
  MaxSupply      \* bound: units of one product ever supplied

ASSUME BookAssumption ==
  /\ Baskets \subseteq [Products -> Nat]
  /\ MaxAttempts \in Nat \ {0}
  /\ InitialStock \in Nat
  /\ RestockQty \in Nat \ {0}
  /\ MaxSupply \in Nat

VARIABLES
  status,    \* orders.status; "none" while the row does not exist
  items,     \* order_items: quantity of each product in each order
  stock,     \* inventory.quantity
  supplied,  \* history: units of each product ever put on the shelf from outside
  payments,  \* the payments rows of each order, oldest first
  shipment   \* the shipments row of each order

bookVars == <<status, items, stock, supplied, payments, shipment>>

PaymentRows == [attempt : Nat \ {0}, result : {"approved", "declined"}]
ShipmentRows == {"none", "in_transit", "delivered"}
EmptyBasket == [p \in Products |-> 0]

BookTypeOK ==
  /\ status \in [Orders -> OrderStatus \cup {"none"}]
  /\ items \in [Orders -> [Products -> Nat]]
  /\ stock \in [Products -> Nat]
  /\ supplied \in [Products -> Nat]
  /\ payments \in [Orders -> Seq(PaymentRows)]
  /\ shipment \in [Orders -> ShipmentRows]

BookInit ==
  /\ status = [o \in Orders |-> "none"]
  /\ items = [o \in Orders |-> EmptyBasket]
  /\ stock = [p \in Products |-> InitialStock]
  /\ supplied = stock
  /\ payments = [o \in Orders |-> <<>>]
  /\ shipment = [o \in Orders |-> "none"]

-----------------------------------------------------------------------------
\* The row _record_attempt inserts: numbered count(*) + 1.
NextPayment_Uncounted(o, result) == [attempt |-> 1, result |-> result]
NextPayment(o, result) == [attempt |-> Len(payments[o]) + 1, result |-> result]

InStock_OffByOne(basket) == \A p \in Products : basket[p] <= stock[p] + 1
InStock(basket) == \A p \in Products : basket[p] <= stock[p]

\* _create_order_and_reserve_stock: all the lines are in stock or nothing happens.
PlaceOrder(o, basket) ==
  /\ status[o] = "none"
  /\ \E p \in Products : basket[p] > 0
  /\ InStock(basket)
  /\ status' = [status EXCEPT ![o] = "created"]
  /\ items' = [items EXCEPT ![o] = basket]
  /\ stock' = [p \in Products |-> stock[p] - basket[p]]
  /\ UNCHANGED <<supplied, payments, shipment>>

\* The orders row moves to target; the tables in the other modules of the use case
\* are changed by the caller.
Move(o, target) ==
  /\ status[o] # "none"
  /\ CanTransition(status[o], target)
  /\ status' = [status EXCEPT ![o] = target]
  /\ UNCHANGED <<items, supplied>>

\* cancel_order's second statement, over every line of the order.
ReturnStock_OneUnit(o) ==
  stock' = [p \in Products |-> stock[p] + (IF items[o][p] > 0 THEN 1 ELSE 0)]
ReturnStock(o) == stock' = [p \in Products |-> stock[p] + items[o][p]]

PayOrder(o) ==
  /\ Move(o, "paid")
  /\ payments' = [payments EXCEPT ![o] = Append(@, NextPayment(o, "approved"))]
  /\ UNCHANGED <<stock, shipment>>

\* A declined attempt with attempts left: no other table than payments changes.
DeclinePayment(o) ==
  /\ status[o] = "created"
  /\ Len(payments[o]) + 1 < MaxAttempts
  /\ payments' = [payments EXCEPT ![o] = Append(@, NextPayment(o, "declined"))]
  /\ UNCHANGED <<status, items, stock, supplied, shipment>>

\* The last declined attempt: recorded, cancelled and restocked in one transaction.
ExhaustPayments(o) ==
  /\ status[o] = "created"
  /\ Len(payments[o]) + 1 >= MaxAttempts
  /\ Move(o, "cancelled")
  /\ payments' = [payments EXCEPT ![o] = Append(@, NextPayment(o, "declined"))]
  /\ ReturnStock(o)
  /\ UNCHANGED shipment

\* cancel_order by itself: before shipping, paid or not.
CancelOrder(o) ==
  /\ Move(o, "cancelled")
  /\ ReturnStock(o)
  /\ UNCHANGED <<payments, shipment>>

ShipOrder(o) ==
  /\ Move(o, "shipped")
  /\ shipment' = [shipment EXCEPT ![o] = "in_transit"]
  /\ UNCHANGED <<stock, payments>>

DeliverOrder_NoParcel(o) == Move(o, "delivered") /\ UNCHANGED <<stock, payments, shipment>>
DeliverOrder(o) ==
  /\ Move(o, "delivered")
  /\ shipment' = [shipment EXCEPT ![o] = "delivered"]
  /\ UNCHANGED <<stock, payments>>

RefundOrder(o) ==
  /\ Move(o, "refunded")
  /\ UNCHANGED <<stock, payments, shipment>>

Restock(p) ==
  /\ supplied[p] + RestockQty <= MaxSupply
  /\ stock' = [stock EXCEPT ![p] = @ + RestockQty]
  /\ supplied' = [supplied EXCEPT ![p] = @ + RestockQty]
  /\ UNCHANGED <<status, items, payments, shipment>>

BookNext ==
  \/ \E o \in Orders :
       \/ \E basket \in Baskets : PlaceOrder(o, basket)
       \/ PayOrder(o)
       \/ DeclinePayment(o)
       \/ ExhaustPayments(o)
       \/ CancelOrder(o)
       \/ ShipOrder(o)
       \/ DeliverOrder(o)
       \/ RefundOrder(o)
  \/ \E p \in Products : Restock(p)

BookSpec == BookInit /\ [][BookNext]_bookVars

-----------------------------------------------------------------------------
(* Properties.                                                             *)

Approved(o) == {i \in DOMAIN payments[o] : payments[o][i].result = "approved"}

PaymentsMatch(o) ==
  LET tries == Len(payments[o]) IN
  /\ \A i \in 1 .. tries : payments[o][i].attempt = i
  /\ Approved(o) \subseteq {tries}
  /\ tries <= MaxAttempts
  /\ status[o] = "none" => tries = 0
  /\ status[o] = "created" => tries < MaxAttempts /\ Approved(o) = {}
  /\ status[o] \in PaidStatuses => Approved(o) # {}

\* Money and lifecycle agree, whatever path an order took: attempts are numbered
\* 1, 2, ... (UNIQUE (order_id, attempt)), an order is charged at most once and never
\* tried again after it, no order waits for a payment that was approved or has none
\* left to try, and none moves on without one.
\* (pay_order, fail_payment, _record_attempt, pay_step, cancel_order)
PaymentsMatchStatus == \A o \in Orders : PaymentsMatch(o)

ShipmentMatches(o) ==
  /\ shipment[o] = "in_transit" <=> status[o] = "shipped"
  /\ shipment[o] = "delivered" <=> status[o] \in {"delivered", "refunded"}

\* A parcel exists exactly for the orders that left the shop, and it is marked as
\* delivered exactly when the order is; a cancelled order never left.
\* (ship_order, deliver_order, cancel_order)
ShipmentsMatchStatus == \A o \in Orders : ShipmentMatches(o)

\* No unit is lost, sold twice or returned twice: what is on the shelf and what
\* live orders hold add up to what was supplied.  A refunded order keeps its units.
\* (_create_order_and_reserve_stock, cancel_order, refund_order, restock)
Held(p) ==
  SumFunctionOnSet([o \in Orders |-> items[o][p]], {o \in Orders : status[o] \in Reserving})

StockConserved == \A p \in Products : stock[p] + Held(p) = supplied[p]
=============================================================================
