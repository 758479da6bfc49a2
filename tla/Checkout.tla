------------------------------ MODULE Checkout ------------------------------
(***************************************************************************)
(* Checkouts and cancellations at the grain of their row locks             *)
(* (usecases/orders.py: place_order, cancel_order), with the back office   *)
(* around them (usecases/inventory.py, catalog.py, customers.py).          *)
(*                                                                         *)
(* A checkout locks its customer FOR SHARE, then the inventory row of each *)
(* line, one statement per product in the order of the product ids.  The   *)
(* product row is read by the same statement without a lock, before the    *)
(* statement waits for the inventory row; the quantity is read after.      *)
(* A cancellation holds the order and locks the inventory rows in one      *)
(* UPDATE ... FROM, in whatever order the plan of that statement yields.   *)
(* Locks are kept until the transaction ends.  Waiting transactions that   *)
(* form a cycle are resolved by PostgreSQL, which aborts one; the error is *)
(* no DomainError, so the process of the victim ends.                      *)
(*                                                                         *)
(* A statement that only writes rows its transaction has locked cannot be  *)
(* noticed before the commit; it is part of the commit's action.  Single   *)
(* statements, and forget_customer, which waits for one row and holds no   *)
(* other meanwhile, are one action.                                        *)
(***************************************************************************)
EXTENDS OrderBook

CONSTANTS
  Clients,     \* connections that check out or cancel
  Customers,   \* customer ids
  NoOrder, NoCustomer, NoProduct,
  MaxCrashes   \* bound: processes killed

ASSUME CheckoutAssumption ==
  /\ Products \subseteq Nat  \* ids are compared: sorted(items, key=str)
  /\ IsFiniteSet(Products)
  /\ NoOrder \notin Orders /\ NoCustomer \notin Customers /\ NoProduct \notin Products
  /\ MaxCrashes \in Nat

VARIABLES
  customer,  \* customers.status
  onSale,    \* products.status = 'active'
  buyer,     \* orders.customer_id
  pc,        \* idle, customer: waits for the customer, lines: reserves, rows: returns stock
  order,     \* the order a transaction inserts or cancels
  visitor,   \* the customer who checks out
  cart,      \* quantities of the checkout, or of the order being cancelled
  todo,      \* products whose inventory row is still to be asked for
  want,      \* the product whose row the running statement is waiting for
  seen,      \* products.status as the running statement's snapshot has it
  held,      \* inventory rows locked
  crashes

shopVars == <<customer, onSale, buyer>>
txnVars == <<pc, order, visitor, cart, todo, want, seen, held>>
vars == <<bookVars, shopVars, txnVars, crashes>>

ShopTypeOK ==
  /\ customer \in [Customers -> {"active", "deleted"}]
  /\ onSale \in [Products -> BOOLEAN]
  /\ buyer \in [Orders -> Customers \cup {NoCustomer}]
  /\ pc \in [Clients -> {"idle", "customer", "lines", "rows"}]
  /\ order \in [Clients -> Orders \cup {NoOrder}]
  /\ visitor \in [Clients -> Customers \cup {NoCustomer}]
  /\ cart \in [Clients -> [Products -> Nat]]
  /\ todo \in [Clients -> SUBSET Products]
  /\ want \in [Clients -> Products \cup {NoProduct}]
  /\ seen \in [Clients -> BOOLEAN]
  /\ held \in [Clients -> SUBSET Products]
  /\ crashes \in 0 .. MaxCrashes

TypeOK == BookTypeOK /\ ShopTypeOK

Init ==
  /\ BookInit
  /\ customer = [k \in Customers |-> "active"]
  /\ onSale = [p \in Products |-> TRUE]
  /\ buyer = [o \in Orders |-> NoCustomer]
  /\ pc = [c \in Clients |-> "idle"]
  /\ order = [c \in Clients |-> NoOrder]
  /\ visitor = [c \in Clients |-> NoCustomer]
  /\ cart = [c \in Clients |-> EmptyBasket]
  /\ todo = [c \in Clients |-> {}]
  /\ want = [c \in Clients |-> NoProduct]
  /\ seen = [c \in Clients |-> FALSE]
  /\ held = [c \in Clients |-> {}]
  /\ crashes = 0

-----------------------------------------------------------------------------
(* Row locks.                                                              *)

\* FOR SHARE on the customer, from the check of its status to the end.
SharesCustomer_Never(c, k) == FALSE
SharesCustomer(c, k) == pc[c] = "lines" /\ visitor[c] = k

RowFree_Always(c, p) == TRUE
RowFree(c, p) == \A d \in Clients \ {c} : p \notin held[d]

WaitsFor(c, d) == c # d /\ want[c] \in held[d]

\* Every member of a wait cycle waits for another one.
WaitCycle(C) == C # {} /\ \A c \in C : \E d \in C : WaitsFor(c, d)

\* Commit, rollback or death: the locks of client c are gone.
End(c) ==
  /\ pc' = [pc EXCEPT ![c] = "idle"]
  /\ order' = [order EXCEPT ![c] = NoOrder]
  /\ visitor' = [visitor EXCEPT ![c] = NoCustomer]
  /\ cart' = [cart EXCEPT ![c] = EmptyBasket]
  /\ todo' = [todo EXCEPT ![c] = {}]
  /\ want' = [want EXCEPT ![c] = NoProduct]
  /\ seen' = [seen EXCEPT ![c] = FALSE]
  /\ held' = [held EXCEPT ![c] = {}]

\* A DomainError leaves the transaction: rolled back, the visitor gives up.
GiveUp_Waits(c) == UNCHANGED vars
GiveUp(c) == End(c) /\ UNCHANGED <<bookVars, shopVars, crashes>>

Lines(basket) == {p \in Products : basket[p] > 0}

-----------------------------------------------------------------------------
(* place_order.                                                            *)

\* The customer was picked earlier and may have been erased since; the cart was
\* filled from a cached catalog and may hold anything.
BeginPlace(c, o, k, basket) ==
  /\ pc[c] = "idle"
  /\ status[o] = "none" /\ \A d \in Clients : order[d] # o
  /\ Lines(basket) # {}
  /\ pc' = [pc EXCEPT ![c] = "customer"]
  /\ order' = [order EXCEPT ![c] = o]
  /\ visitor' = [visitor EXCEPT ![c] = k]
  /\ cart' = [cart EXCEPT ![c] = basket]
  /\ UNCHANGED <<bookVars, shopVars, todo, want, seen, held, crashes>>

\* SELECT status ... FOR SHARE never waits here: forget_customer is one action.
LockCustomer(c) ==
  /\ pc[c] = "customer"
  /\ \/ /\ customer[visitor[c]] = "active"
        /\ pc' = [pc EXCEPT ![c] = "lines"]
        /\ todo' = [todo EXCEPT ![c] = Lines(cart[c])]
        /\ UNCHANGED <<bookVars, shopVars, order, visitor, cart, want, seen, held, crashes>>
     \/ customer[visitor[c]] # "active" /\ GiveUp(c)

\* for product_id in sorted(items)
NextLines_Unsorted(c) == todo[c]
NextLines(c) == {p \in todo[c] : \A q \in todo[c] : p <= q}

\* The statement of one line takes its snapshot: products.status as of now.
StartLine(c) ==
  /\ pc[c] = "lines" /\ want[c] = NoProduct
  /\ \E p \in NextLines(c) :
       /\ want' = [want EXCEPT ![c] = p]
       /\ seen' = [seen EXCEPT ![c] = onSale[p]]
       /\ todo' = [todo EXCEPT ![c] = @ \ {p}]
  /\ UNCHANGED <<bookVars, shopVars, pc, order, visitor, cart, held, crashes>>

\* The inventory row is locked and its newest quantity read.
LineAvailable_OffByOne(c) == seen[c] /\ cart[c][want[c]] <= stock[want[c]] + 1
LineAvailable(c) == seen[c] /\ cart[c][want[c]] <= stock[want[c]]

TakeRow(c) ==
  /\ held' = [held EXCEPT ![c] = @ \cup {want[c]}]
  /\ want' = [want EXCEPT ![c] = NoProduct]
  /\ UNCHANGED <<bookVars, shopVars, pc, order, visitor, cart, todo, seen, crashes>>

LockLine(c) ==
  /\ pc[c] = "lines" /\ want[c] # NoProduct
  /\ RowFree(c, want[c])
  /\ IF LineAvailable(c) THEN TakeRow(c) ELSE GiveUp(c)

\* Order, lines and decrements, then COMMIT.
CommitPlace(c) ==
  /\ pc[c] = "lines" /\ todo[c] = {} /\ want[c] = NoProduct
  /\ status' = [status EXCEPT ![order[c]] = "created"]
  /\ items' = [items EXCEPT ![order[c]] = cart[c]]
  /\ stock' = [p \in Products |-> stock[p] - cart[c][p]]
  /\ buyer' = [buyer EXCEPT ![order[c]] = visitor[c]]
  /\ End(c)
  /\ UNCHANGED <<supplied, payments, shipment, customer, onSale, crashes>>

-----------------------------------------------------------------------------
(* cancel_order; pay_step and ship_step call it on an order they hold.     *)

BeginCancel(c, o) ==
  /\ pc[c] = "idle"
  /\ status[o] # "none" /\ CanTransition(status[o], "cancelled")
  /\ \A d \in Clients : order[d] # o
  /\ pc' = [pc EXCEPT ![c] = "rows"]
  /\ order' = [order EXCEPT ![c] = o]
  /\ cart' = [cart EXCEPT ![c] = items[o]]
  /\ todo' = [todo EXCEPT ![c] = Lines(items[o])]
  /\ UNCHANGED <<bookVars, shopVars, visitor, want, seen, held, crashes>>

\* The plan of the UPDATE decides which row comes next.
StartRow(c) ==
  /\ pc[c] = "rows" /\ want[c] = NoProduct
  /\ \E p \in todo[c] :
       /\ want' = [want EXCEPT ![c] = p]
       /\ todo' = [todo EXCEPT ![c] = @ \ {p}]
  /\ UNCHANGED <<bookVars, shopVars, pc, order, visitor, cart, seen, held, crashes>>

LockRow(c) ==
  /\ pc[c] = "rows" /\ want[c] # NoProduct
  /\ RowFree(c, want[c])
  /\ TakeRow(c)

CommitCancel(c) ==
  /\ pc[c] = "rows" /\ todo[c] = {} /\ want[c] = NoProduct
  /\ status' = [status EXCEPT ![order[c]] = "cancelled"]
  /\ stock' = [p \in Products |-> stock[p] + cart[c][p]]
  /\ End(c)
  /\ UNCHANGED <<items, supplied, payments, shipment, shopVars, crashes>>

-----------------------------------------------------------------------------
(* What ends a transaction from outside, and the rest of the shop.         *)

\* PostgreSQL's deadlock detector aborts a member of a cycle.
Deadlocked(c) == \E C \in SUBSET Clients : c \in C /\ WaitCycle(C)

DeadlockVictim(c) == Deadlocked(c) /\ GiveUp(c)

Crash(c) ==
  /\ crashes < MaxCrashes /\ pc[c] # "idle"
  /\ crashes' = crashes + 1
  /\ End(c)
  /\ UNCHANGED <<bookVars, shopVars>>

\* pay_order by a worker: it touches the order only, which a cancellation holds.
WorkerPays(o) ==
  /\ \A c \in Clients : order[c] # o
  /\ PayOrder(o)
  /\ UNCHANGED <<shopVars, txnVars, crashes>>

\* restock waits for the row like any UPDATE, and holds it for this statement only.
BackofficeRestock(p) ==
  /\ \A c \in Clients : p \notin held[c]
  /\ Restock(p)
  /\ UNCHANGED <<shopVars, txnVars, crashes>>

Discontinue(p) ==
  /\ onSale' = [onSale EXCEPT ![p] = FALSE]
  /\ UNCHANGED <<bookVars, customer, buyer, txnVars, crashes>>

\* SELECT ... FOR UPDATE waits for every checkout that shares the customer.
ForgetCustomer(k) ==
  /\ customer[k] = "active"
  /\ \A c \in Clients : ~SharesCustomer(c, k)
  /\ customer' = [customer EXCEPT ![k] = "deleted"]
  /\ UNCHANGED <<bookVars, onSale, buyer, txnVars, crashes>>

Begin(c) ==
  \E o \in Orders :
    \/ \E k \in Customers, basket \in Baskets : BeginPlace(c, o, k, basket)
    \/ BeginCancel(c, o)

Lock(c) == LockLine(c) \/ LockRow(c)

Proceed(c) ==
  LockCustomer(c) \/ StartLine(c) \/ CommitPlace(c) \/ StartRow(c) \/ CommitCancel(c)

Next ==
  \/ \E c \in Clients : Begin(c) \/ Lock(c) \/ Proceed(c) \/ DeadlockVictim(c) \/ Crash(c)
  \/ \E o \in Orders : WorkerPays(o)
  \/ \E p \in Products : BackofficeRestock(p) \/ Discontinue(p)
  \/ \E k \in Customers : ForgetCustomer(k)

Spec == Init /\ [][Next]_vars

\* A client between two statements goes on; row locks are granted in the order they
\* were asked for, so a row that keeps becoming free is got in the end; the deadlock
\* detector runs after deadlock_timeout.  Nobody is obliged to start anything.
Fairness ==
  \A c \in Clients :
    /\ WF_vars(Proceed(c))
    /\ SF_vars(Lock(c))
    /\ WF_vars(\E d \in Clients : DeadlockVictim(d))

FairSpec == Spec /\ Fairness

-----------------------------------------------------------------------------
(* Properties.                                                             *)

\* What a checkout has seen in stock is still there when it commits, and nobody else
\* has a lock on the same row.  (orders.py: FOR UPDATE OF i, the decrement)
ReservationsHold ==
  \A c \in Clients :
    /\ pc[c] = "lines" => \A p \in held[c] : cart[c][p] <= stock[p]
    /\ \A d \in Clients \ {c} : held[c] \cap held[d] = {}

Wanted(c) == {want[c]} \ {NoProduct}

TransactionValid(c) ==
  /\ pc[c] = "idle" => order[c] = NoOrder
  /\ pc[c] \in {"idle", "customer"} => held[c] \cup todo[c] \cup Wanted(c) = {}
  /\ pc[c] \in {"customer", "lines"} =>
       /\ order[c] \in Orders /\ status[order[c]] = "none"
       /\ visitor[c] \in Customers /\ cart[c] \in Baskets /\ Lines(cart[c]) # {}
  /\ pc[c] = "lines" =>
       /\ customer[visitor[c]] = "active"
       /\ \A p \in held[c] \cup Wanted(c), q \in todo[c] : p < q
       /\ \A p \in held[c], q \in Wanted(c) : p < q
  /\ pc[c] = "rows" =>
       /\ order[c] \in Orders /\ status[order[c]] \in {"created", "paid"}
       /\ cart[c] = items[order[c]]
  /\ pc[c] \in {"lines", "rows"} => held[c] \cup todo[c] \cup Wanted(c) = Lines(cart[c])
  /\ \A d \in Clients \ {c} : order[c] # NoOrder => order[c] # order[d]

\* What a transaction has established stays true until it commits: its customer is
\* active, the order it cancels may be cancelled and its lines are known, no other transaction
\* is at the same order, and a checkout asks for its rows in ascending order.
\* (_create_order_and_reserve_stock, cancel_order)
TransactionsStayValid == \A c \in Clients : TransactionValid(c)

\* Checkouts alone never deadlock: a cycle of waiting transactions has a cancellation
\* in it, whose rows are locked in no fixed order.  (orders.py: place_order,
\* "concurrent checkouts cannot deadlock")
CheckoutsNeverDeadlock ==
  \A C \in SUBSET Clients : WaitCycle(C) => \E c \in C : pc[c] = "rows"

\* No order appears for a customer who has been erased, however long ago the
\* customer was picked.  (orders.py: FOR SHARE; customers.py: forget_customer)
NoOrderAfterErasure ==
  [][\A o \in Orders :
       buyer'[o] # buyer[o] => customer[buyer'[o]] = "active"]_vars

\* Seen from the tables, checkouts and cancellations are single atomic use cases.
ImplementsOrderBook == BookSpec

\* Every checkout ends: with an order, with an error, or as a deadlock victim.
\* (orders.py: place_order)
CheckoutsEnd == \A c \in Clients : pc[c] # "idle" ~> pc[c] = "idle"
=============================================================================
