--------------------------- MODULE CheckoutProofs ---------------------------
(***************************************************************************)
(* Proofs about Checkout, for any number of connections, customers, orders *)
(* and products.  The inductive invariant is Inv: what the transactions    *)
(* hold and have seen.  From it every step is a step of OrderBook or       *)
(* leaves the tables alone, which gives the types of the tables.           *)
(***************************************************************************)
EXTENDS Checkout, OrderBookProofs, FiniteSetTheorems

USE CheckoutAssumption

Inv == TypeOK /\ ReservationsHold /\ TransactionsStayValid

\* The steps that are nobody's transaction.
ShopStep ==
  \/ \E o \in Orders : WorkerPays(o)
  \/ \E p \in Products : BackofficeRestock(p) \/ Discontinue(p)
  \/ \E k \in Customers : ForgetCustomer(k)

ClientStep(c) == Begin(c) \/ Lock(c) \/ Proceed(c) \/ DeadlockVictim(c) \/ Crash(c)

LEMMA NextCases == Next => (\E c \in Clients : ClientStep(c)) \/ ShopStep
BY DEF Next, ClientStep, ShopStep

LEMMA InitInv == Init => Inv
<1> SUFFICES ASSUME Init PROVE Inv
  OBVIOUS
<1>1. BookTypeOK
  BY BookInitInv DEF Init, BookInv
<1>2. ShopTypeOK
  BY DEF Init, ShopTypeOK, EmptyBasket
<1>3. ReservationsHold /\ TransactionsStayValid
  BY DEF Init, ReservationsHold, TransactionsStayValid, TransactionValid, Wanted
<1> QED BY <1>1, <1>2, <1>3 DEF Inv, TypeOK

-----------------------------------------------------------------------------
(* Every commit is one use case of OrderBook.                              *)

LEMMA PlaceImplementsBook ==
  ASSUME Inv, NEW c \in Clients, CommitPlace(c)
  PROVE  \E o \in Orders, basket \in Baskets : PlaceOrder(o, basket)
<1>1. /\ order[c] \in Orders /\ status[order[c]] = "none"
      /\ cart[c] \in Baskets /\ Lines(cart[c]) # {}
      /\ held[c] = Lines(cart[c])
  <2>1. pc[c] = "lines" /\ todo[c] = {} /\ Wanted(c) = {}
    BY DEF CommitPlace, Wanted
  <2>2. TransactionValid(c)
    BY DEF Inv, TransactionsStayValid
  <2> QED BY <2>1, <2>2 DEF TransactionValid
<1>2. \E p \in Products : cart[c][p] > 0
  BY <1>1 DEF Lines
<1>3. InStock(cart[c])
  <2>1. SUFFICES ASSUME NEW p \in Products PROVE cart[c][p] <= stock[p]
    BY DEF InStock
  <2>2. cart[c][p] \in Nat /\ stock[p] \in Nat
    BY <1>1, BookAssumption DEF Inv, TypeOK, BookTypeOK
  <2>3. CASE p \in held[c]
    BY <2>3 DEF CommitPlace, Inv, ReservationsHold
  <2>4. CASE p \notin held[c]
    BY <1>1, <2>2, <2>4 DEF Lines
  <2> QED BY <2>3, <2>4
<1>4. PlaceOrder(order[c], cart[c])
  BY <1>1, <1>2, <1>3 DEF CommitPlace, PlaceOrder
<1> QED BY <1>1, <1>4

LEMMA CancelImplementsBook ==
  ASSUME Inv, NEW c \in Clients, CommitCancel(c)
  PROVE  \E o \in Orders : CancelOrder(o)
<1>1. /\ order[c] \in Orders /\ status[order[c]] \in {"created", "paid"}
      /\ cart[c] = items[order[c]]
  BY DEF CommitCancel, Inv, TransactionsStayValid, TransactionValid
<1>2. CanTransition("created", "cancelled") /\ CanTransition("paid", "cancelled")
  BY DEF CanTransition, Transitions
<1>3. CancelOrder(order[c])
  BY <1>1, <1>2 DEF CommitCancel, CancelOrder, Move, ReturnStock
<1> QED BY <1>1, <1>3

LEMMA StepImplementsBook == Inv /\ [Next]_vars => [BookNext]_bookVars
<1> SUFFICES ASSUME Inv, [Next]_vars PROVE BookNext \/ UNCHANGED bookVars
  OBVIOUS
<1>1. ASSUME NEW c \in Clients, Begin(c) PROVE UNCHANGED bookVars
  BY <1>1 DEF Begin, BeginPlace, BeginCancel
<1>2. ASSUME NEW c \in Clients, Lock(c) PROVE UNCHANGED bookVars
  BY <1>2 DEF Lock, LockLine, LockRow, TakeRow, GiveUp
<1>3. ASSUME NEW c \in Clients, Proceed(c) PROVE BookNext \/ UNCHANGED bookVars
  BY <1>3, PlaceImplementsBook, CancelImplementsBook
     DEF Proceed, LockCustomer, GiveUp, StartLine, StartRow, BookNext
<1>4. ASSUME NEW c \in Clients, DeadlockVictim(c) \/ Crash(c) PROVE UNCHANGED bookVars
  BY <1>4 DEF DeadlockVictim, GiveUp, Crash
<1>5. ASSUME NEW o \in Orders, WorkerPays(o) PROVE BookNext
  BY <1>5 DEF WorkerPays, BookNext
<1>6. ASSUME NEW p \in Products, BackofficeRestock(p) \/ Discontinue(p)
      PROVE BookNext \/ UNCHANGED bookVars
  BY <1>6 DEF BackofficeRestock, Discontinue, BookNext
<1>7. ASSUME NEW k \in Customers, ForgetCustomer(k) PROVE UNCHANGED bookVars
  BY <1>7 DEF ForgetCustomer
<1>8. CASE UNCHANGED vars
  BY <1>8 DEF vars, bookVars
<1> QED BY <1>1, <1>2, <1>3, <1>4, <1>5, <1>6, <1>7, <1>8 DEF Next

-----------------------------------------------------------------------------
(* Types.                                                                  *)

LEMMA EndType ==
  ASSUME ShopTypeOK, NEW c \in Clients, End(c), UNCHANGED shopVars, crashes' \in 0 .. MaxCrashes
  PROVE  ShopTypeOK'
BY DEF ShopTypeOK, End, EmptyBasket, shopVars

LEMMA ShopTypeStep == Inv /\ Next => ShopTypeOK'
<1> SUFFICES ASSUME Inv, Next PROVE ShopTypeOK'
  OBVIOUS
<1>1. ShopTypeOK /\ BookTypeOK
  BY DEF Inv, TypeOK
<1>2. ASSUME NEW c \in Clients, NEW o \in Orders, NEW k \in Customers, NEW basket \in Baskets,
             BeginPlace(c, o, k, basket)
      PROVE ShopTypeOK'
  <2>1. basket \in [Products -> Nat]
    BY BookAssumption
  <2> QED BY <1>1, <1>2, <2>1 DEF BeginPlace, ShopTypeOK, shopVars
<1>3. ASSUME NEW c \in Clients, NEW o \in Orders, BeginCancel(c, o) PROVE ShopTypeOK'
  BY <1>1, <1>3 DEF BeginCancel, ShopTypeOK, BookTypeOK, shopVars, Lines
<1>4. ASSUME NEW c \in Clients, GiveUp(c) PROVE ShopTypeOK'
  BY <1>1, <1>4, EndType DEF GiveUp, ShopTypeOK
<1>5. ASSUME NEW c \in Clients, TakeRow(c), want[c] # NoProduct PROVE ShopTypeOK'
  BY <1>1, <1>5 DEF TakeRow, ShopTypeOK, shopVars
<1>6. ASSUME NEW c \in Clients, LockCustomer(c) PROVE ShopTypeOK'
  <2>1. CASE GiveUp(c)
    BY <1>4, <2>1
  <2>2. CASE ~GiveUp(c)
    <3>1. Lines(cart[c]) \subseteq Products
      BY DEF Lines
    <3> QED BY <1>1, <1>6, <2>2, <3>1 DEF LockCustomer, ShopTypeOK, shopVars
  <2> QED BY <2>1, <2>2
<1>7. ASSUME NEW c \in Clients, StartLine(c) PROVE ShopTypeOK'
  BY <1>1, <1>7 DEF StartLine, NextLines, ShopTypeOK, shopVars
<1>8. ASSUME NEW c \in Clients, StartRow(c) PROVE ShopTypeOK'
  BY <1>1, <1>8 DEF StartRow, ShopTypeOK, shopVars
<1>9. ASSUME NEW c \in Clients, CommitPlace(c) PROVE ShopTypeOK'
  <2>1. buyer' \in [Orders -> Customers \cup {NoCustomer}]
    BY <1>1, <1>9 DEF CommitPlace, ShopTypeOK
  <2>2. /\ customer' \in [Customers -> {"active", "deleted"}] /\ onSale' \in [Products -> BOOLEAN]
        /\ crashes' \in 0 .. MaxCrashes
    BY <1>1, <1>9 DEF CommitPlace, ShopTypeOK
  <2>3. End(c)
    BY <1>9 DEF CommitPlace
  <2> QED BY <1>1, <2>1, <2>2, <2>3 DEF End, EmptyBasket, ShopTypeOK
<1>10. ASSUME NEW c \in Clients, CommitCancel(c) PROVE ShopTypeOK'
  BY <1>1, <1>10, EndType DEF CommitCancel, ShopTypeOK
<1>11. ASSUME NEW c \in Clients, Crash(c) PROVE ShopTypeOK'
  BY <1>1, <1>11, EndType DEF Crash, ShopTypeOK
<1>12. ASSUME NEW o \in Orders, WorkerPays(o) PROVE ShopTypeOK'
  BY <1>1, <1>12 DEF WorkerPays, ShopTypeOK, shopVars, txnVars
<1>13. ASSUME NEW p \in Products, BackofficeRestock(p) \/ Discontinue(p) PROVE ShopTypeOK'
  BY <1>1, <1>13 DEF BackofficeRestock, Discontinue, ShopTypeOK, shopVars, txnVars
<1>14. ASSUME NEW k \in Customers, ForgetCustomer(k) PROVE ShopTypeOK'
  BY <1>1, <1>14 DEF ForgetCustomer, ShopTypeOK, txnVars
<1> QED
  BY <1>2, <1>3, <1>4, <1>5, <1>6, <1>7, <1>8, <1>9, <1>10, <1>11, <1>12, <1>13, <1>14
     DEF Next, Begin, Lock, LockLine, LockRow, Proceed, DeadlockVictim

-----------------------------------------------------------------------------
(* Row locks.                                                              *)

\* Client d keeps what it has.
Idles(d) ==
  /\ pc'[d] = pc[d] /\ order'[d] = order[d] /\ visitor'[d] = visitor[d]
  /\ cart'[d] = cart[d] /\ todo'[d] = todo[d] /\ want'[d] = want[d]
  /\ held'[d] = held[d]

\* A step of client c concerns no other client.
LEMMA OthersIdle ==
  ASSUME ShopTypeOK, NEW c \in Clients, ClientStep(c)
  PROVE  \A d \in Clients \ {c} : Idles(d)
<1> USE DEF ClientStep, ShopTypeOK, Idles, End
<1>1. CASE Begin(c)
  BY <1>1 DEF Begin, BeginPlace, BeginCancel
<1>2. CASE Lock(c)
  BY <1>2 DEF Lock, LockLine, LockRow, TakeRow, GiveUp
<1>3. CASE Proceed(c)
  BY <1>3 DEF Proceed, LockCustomer, StartLine, CommitPlace, StartRow, CommitCancel, GiveUp
<1>4. CASE DeadlockVictim(c) \/ Crash(c)
  BY <1>4 DEF DeadlockVictim, Crash, GiveUp
<1> QED BY <1>1, <1>2, <1>3, <1>4

\* The rows held change by one row nobody else holds, or go.
LEMMA HeldStep ==
  ASSUME ShopTypeOK, NEW c \in Clients, ClientStep(c)
  PROVE  \/ held'[c] \subseteq held[c]
         \/ held'[c] = held[c] \cup {want[c]} /\ RowFree(c, want[c])
<1> USE DEF ClientStep, ShopTypeOK, End
<1>1. CASE Begin(c)
  BY <1>1 DEF Begin, BeginPlace, BeginCancel
<1>2. CASE Lock(c)
  BY <1>2 DEF Lock, LockLine, LockRow, TakeRow, GiveUp, bookVars
<1>3. CASE Proceed(c)
  BY <1>3 DEF Proceed, LockCustomer, StartLine, CommitPlace, StartRow, CommitCancel, GiveUp
<1>4. CASE DeadlockVictim(c) \/ Crash(c)
  BY <1>4 DEF DeadlockVictim, Crash, GiveUp
<1> QED BY <1>1, <1>2, <1>3, <1>4

\* Whatever happens to the stock of a product a checkout has locked, it is no decrement
\* of another transaction.
LEMMA StockStep ==
  ASSUME Inv, Next, NEW d \in Clients, NEW p \in held[d], Idles(d)
  PROVE  stock'[p] >= stock[p] /\ stock[p] \in Nat /\ stock'[p] \in Nat
<1>1. p \in Products /\ stock[p] \in Nat /\ ShopTypeOK /\ BookTypeOK /\ BookTypeOK'
  BY BookTypeStep, StepImplementsBook DEF Inv, TypeOK, ShopTypeOK, BookTypeOK
<1>2. stock'[p] \in Nat
  BY <1>1 DEF BookTypeOK
<1>3. ASSUME NEW c \in Clients, CommitPlace(c) PROVE stock'[p] >= stock[p]
  <2>1. pc'[c] = "idle" /\ pc[c] = "lines"
    BY <1>1, <1>3 DEF CommitPlace, End, ShopTypeOK
  <2>2. c # d
    BY <2>1 DEF Idles
  <2>3. TransactionValid(c) /\ held[c] \cap held[d] = {}
    BY <2>2 DEF Inv, TransactionsStayValid, ReservationsHold
  <2>4. p \notin Lines(cart[c])
    BY <1>3, <2>1, <2>3 DEF CommitPlace, TransactionValid, Wanted
  <2>5. cart[c][p] = 0
    BY <1>1, <2>4 DEF Lines, ShopTypeOK
  <2> QED BY <1>1, <1>3, <2>5 DEF CommitPlace
<1>4. ASSUME NEW c \in Clients, CommitCancel(c) PROVE stock'[p] >= stock[p]
  BY <1>1, <1>4 DEF CommitCancel, ShopTypeOK
<1>5. ASSUME NEW q \in Products, BackofficeRestock(q) PROVE stock'[p] >= stock[p]
  BY <1>1, <1>5, BookAssumption DEF BackofficeRestock, Restock, BookTypeOK
<1>6. ASSUME UNCHANGED stock PROVE stock'[p] >= stock[p]
  BY <1>1, <1>6
<1> QED
  BY <1>1, <1>2, <1>3, <1>4, <1>5, <1>6
     DEF Next, Begin, BeginPlace, BeginCancel, Lock, LockLine, LockRow, TakeRow, GiveUp, Proceed,
         LockCustomer, StartLine, StartRow, DeadlockVictim, Crash, WorkerPays, PayOrder,
         Discontinue, ForgetCustomer, bookVars

LEMMA ShopStepIdles == ShopStep => \A d \in Clients : Idles(d)
BY DEF ShopStep, WorkerPays, BackofficeRestock, Discontinue, ForgetCustomer, txnVars, Idles

LEMMA ReservationsStep == Inv /\ Next => ReservationsHold'
<1> SUFFICES ASSUME Inv, Next PROVE ReservationsHold'
  OBVIOUS
<1>1. ShopTypeOK /\ ShopTypeOK' /\ BookTypeOK /\ BookTypeOK'
  BY ShopTypeStep, BookTypeStep, StepImplementsBook DEF Inv, TypeOK
<1>2. ASSUME NEW d \in Clients, Idles(d), pc[d] = "lines", NEW p \in held[d]
      PROVE cart'[d][p] <= stock'[p]
  <2>1. cart[d][p] \in Nat /\ cart[d][p] <= stock[p]
    BY <1>1, <1>2 DEF Inv, ReservationsHold, ShopTypeOK
  <2> QED BY <1>2, <2>1, StockStep DEF Idles
<1>3. CASE ShopStep
  BY <1>2, <1>3, ShopStepIdles DEF Inv, ReservationsHold, Idles
<1>4. ASSUME NEW c \in Clients, ClientStep(c) PROVE ReservationsHold'
  <2>1. \A d \in Clients \ {c} : Idles(d)
    BY <1>1, <1>4, OthersIdle
  <2>2. ASSUME NEW d \in Clients \ {c} PROVE held'[c] \cap held'[d] = {}
    BY <1>1, <1>4, <2>1, <2>2, HeldStep DEF Idles, RowFree, Inv, ReservationsHold
  <2>3. ASSUME NEW p \in held'[c], pc'[c] = "lines" PROVE cart'[c][p] <= stock'[p]
    <3>1. CASE Lock(c)
      <4>1. TakeRow(c) /\ pc[c] = "lines" /\ LineAvailable(c)
        BY <1>1, <2>3, <3>1 DEF Lock, LockLine, LockRow, TakeRow, GiveUp, End, ShopTypeOK
      <4>2. cart'[c] = cart[c] /\ stock' = stock /\ (p = want[c] \/ p \in held[c])
        BY <1>1, <2>3, <4>1 DEF TakeRow, ShopTypeOK, bookVars
      <4> QED BY <4>1, <4>2 DEF LineAvailable, Inv, ReservationsHold
    <3>2. CASE LockCustomer(c)
      <4>1. held[c] = {}
        <5>1. pc[c] = "customer" /\ TransactionValid(c)
          BY <3>2 DEF LockCustomer, Inv, TransactionsStayValid
        <5> QED BY <5>1 DEF TransactionValid
      <4> QED BY <1>1, <2>3, <3>2, <4>1 DEF LockCustomer, GiveUp, End, ShopTypeOK
    <3>3. CASE Begin(c) \/ StartLine(c) \/ StartRow(c)
      BY <1>1, <2>3, <3>3
         DEF Begin, BeginPlace, BeginCancel, StartLine, StartRow, ShopTypeOK, Inv,
             ReservationsHold, bookVars
    <3>4. CASE CommitPlace(c) \/ CommitCancel(c) \/ DeadlockVictim(c) \/ Crash(c)
      BY <1>1, <2>3, <3>4
         DEF CommitPlace, CommitCancel, DeadlockVictim, Crash, GiveUp, End, ShopTypeOK
    <3> QED BY <1>4, <3>1, <3>2, <3>3, <3>4 DEF ClientStep, Proceed
  <2>4. ASSUME NEW d \in Clients \ {c}, pc'[d] = "lines", NEW p \in held'[d]
        PROVE cart'[d][p] <= stock'[p]
    BY <1>2, <2>1, <2>4 DEF Idles
  <2>5. ASSUME NEW d \in Clients \ {c}, NEW e \in Clients \ {c, d}
        PROVE held'[d] \cap held'[e] = {}
    BY <2>1, <2>5 DEF Idles, Inv, ReservationsHold
  <2> QED BY <2>2, <2>3, <2>4, <2>5 DEF ReservationsHold
<1> QED BY <1>3, <1>4, NextCases

-----------------------------------------------------------------------------
(* Transactions.                                                           *)

\* A client that does nothing keeps its claims on the tables.
LEMMA OthersStayValid ==
  ASSUME Inv, Next, NEW d \in Clients, Idles(d),
         \A e \in Clients \ {d} : order[d] # NoOrder => order'[e] # order[d]
  PROVE  TransactionValid(d)'
<1>1. TransactionValid(d) /\ ShopTypeOK /\ BookTypeOK
  BY DEF Inv, TransactionsStayValid, TypeOK
<1>2. ASSUME order[d] \in Orders
      PROVE  status'[order[d]] = status[order[d]] /\ items'[order[d]] = items[order[d]]
  <2>1. ASSUME NEW c \in Clients, CommitPlace(c) \/ CommitCancel(c)
        PROVE /\ status'[order[d]] = status[order[d]] /\ items'[order[d]] = items[order[d]]
    <3>1. pc'[c] # pc[c]
      BY <1>1, <2>1 DEF CommitPlace, CommitCancel, End, ShopTypeOK
    <3>2. c # d
      BY <3>1 DEF Idles
    <3>3. order[c] # order[d]
      BY <1>1, <1>2, <3>2 DEF TransactionValid
    <3>4. CASE CommitPlace(c)
      BY <1>1, <1>2, <3>3, <3>4 DEF CommitPlace, BookTypeOK
    <3>5. CASE CommitCancel(c)
      BY <1>1, <1>2, <3>3, <3>5 DEF CommitCancel, BookTypeOK
    <3> QED BY <2>1, <3>4, <3>5
  <2>2. ASSUME NEW o \in Orders, WorkerPays(o)
        PROVE /\ status'[order[d]] = status[order[d]] /\ items'[order[d]] = items[order[d]]
    <3>1. order[d] # o
      BY <2>2 DEF WorkerPays
    <3> QED BY <1>1, <1>2, <2>2, <3>1 DEF WorkerPays, PayOrder, Move, BookTypeOK
  <2>3. ASSUME UNCHANGED <<status, items>>
        PROVE /\ status'[order[d]] = status[order[d]] /\ items'[order[d]] = items[order[d]]
    BY <2>3
  <2> QED
    BY <2>1, <2>2, <2>3
       DEF Next, Begin, BeginPlace, BeginCancel, Lock, LockLine, LockRow, TakeRow, GiveUp,
           Proceed, LockCustomer, StartLine, StartRow, DeadlockVictim, Crash,
           BackofficeRestock, Restock, Discontinue, ForgetCustomer, bookVars
<1>3. ASSUME pc[d] = "lines" PROVE customer'[visitor[d]] = customer[visitor[d]]
  <2>1. ASSUME NEW k \in Customers, ForgetCustomer(k)
        PROVE customer'[visitor[d]] = customer[visitor[d]]
    BY <1>1, <1>3, <2>1 DEF ForgetCustomer, SharesCustomer, ShopTypeOK
  <2>2. ASSUME UNCHANGED customer PROVE customer'[visitor[d]] = customer[visitor[d]]
    BY <2>2
  <2> QED
    BY <2>1, <2>2
       DEF Next, Begin, BeginPlace, BeginCancel, Lock, LockLine, LockRow, TakeRow, GiveUp,
           Proceed, LockCustomer, StartLine, StartRow, CommitPlace, CommitCancel,
           DeadlockVictim, Crash, WorkerPays, BackofficeRestock, Discontinue, shopVars
<1>4. Wanted(d)' = Wanted(d) /\ Lines(cart[d])' = Lines(cart[d])
  BY DEF Wanted, Idles, Lines
<1> QED
  BY <1>1, <1>2, <1>3, <1>4 DEF TransactionValid, Idles

\* A client that acts claims what it has just read or locked.
LEMMA OwnStaysValid ==
  ASSUME Inv, NEW c \in Clients, ClientStep(c)
  PROVE  /\ TransactionValid(c)'
         /\ order'[c] # NoOrder => \A d \in Clients \ {c} : order'[c] # order[d]
<1>1. TransactionValid(c) /\ ShopTypeOK /\ BookTypeOK
  BY DEF Inv, TransactionsStayValid, TypeOK
<1>2. \A d \in Clients \ {c} : order'[d] = order[d]
  BY <1>1, OthersIdle DEF Idles
<1>3. ASSUME End(c) PROVE TransactionValid(c)' /\ order'[c] = NoOrder
  BY <1>1, <1>3 DEF End, TransactionValid, Wanted, ShopTypeOK
<1>4. ASSUME NEW o \in Orders, NEW k \in Customers, NEW basket \in Baskets,
             BeginPlace(c, o, k, basket)
      PROVE  TransactionValid(c)' /\ \A d \in Clients \ {c} : order'[c] # order[d]
  <2>1. held[c] = {} /\ todo[c] = {} /\ Wanted(c) = {} /\ Wanted(c)' = {}
    BY <1>1, <1>4 DEF BeginPlace, TransactionValid, Wanted
  <2>2. /\ pc'[c] = "customer" /\ order'[c] = o /\ visitor'[c] = k /\ cart'[c] = basket
        /\ status' = status /\ held' = held /\ todo' = todo /\ status[o] = "none"
        /\ Lines(cart[c])' # {} /\ \A d \in Clients : order[d] # o
    BY <1>1, <1>4 DEF BeginPlace, ShopTypeOK, bookVars, Lines
  <2> QED BY <1>2, <2>1, <2>2 DEF TransactionValid
<1>5. ASSUME NEW o \in Orders, BeginCancel(c, o)
      PROVE  TransactionValid(c)' /\ \A d \in Clients \ {c} : order'[c] # order[d]
  <2>1. held[c] = {} /\ Wanted(c) = {} /\ Wanted(c)' = {}
    BY <1>1, <1>5 DEF BeginCancel, TransactionValid, Wanted
  <2>2. /\ pc'[c] = "rows" /\ order'[c] = o /\ cart'[c] = items[o] /\ todo'[c] = Lines(items[o])
        /\ status' = status /\ items' = items /\ held' = held
        /\ status[o] \in {"created", "paid"}
        /\ Lines(cart[c])' = Lines(items[o]) /\ \A d \in Clients : order[d] # o
    <3>1. status[o] \in OrderStatus /\ CanTransition(status[o], "cancelled")
      BY <1>1, <1>5 DEF BeginCancel, BookTypeOK
    <3>2. status[o] \in {"created", "paid"}
      BY <3>1, LegalMoves
    <3> QED
      BY <1>1, <1>5, <3>2 DEF BeginCancel, ShopTypeOK, BookTypeOK, bookVars, Lines
  <2> QED BY <1>2, <2>1, <2>2 DEF TransactionValid
<1>6. ASSUME LockCustomer(c), ~End(c) PROVE TransactionValid(c)'
  <2>1. held[c] = {} /\ Wanted(c) = {} /\ Wanted(c)' = {}
    BY <1>1, <1>6 DEF LockCustomer, TransactionValid, Wanted, GiveUp
  <2>2. /\ pc[c] = "customer" /\ pc'[c] = "lines" /\ todo'[c] = Lines(cart[c])
        /\ customer[visitor[c]] = "active" /\ Lines(cart[c])' = Lines(cart[c])
        /\ UNCHANGED <<status, customer, order, visitor, cart, held>>
    BY <1>1, <1>6 DEF LockCustomer, GiveUp, ShopTypeOK, bookVars, shopVars, Lines
  <2> QED BY <1>1, <2>1, <2>2 DEF TransactionValid
<1>7. ASSUME StartLine(c) PROVE TransactionValid(c)'
  <2> PICK p \in NextLines(c) :
             /\ want' = [want EXCEPT ![c] = p]
             /\ todo' = [todo EXCEPT ![c] = @ \ {p}]
    BY <1>7 DEF StartLine
  <2>1. p \in todo[c] /\ \A q \in todo[c] : p <= q
    BY DEF NextLines
  <2>2. /\ pc[c] = "lines" /\ Wanted(c) = {} /\ Wanted(c)' = {p} /\ todo'[c] = todo[c] \ {p}
        /\ Lines(cart[c])' = Lines(cart[c])
        /\ UNCHANGED <<status, customer, pc, order, visitor, cart, held>>
    BY <1>1, <1>7, <2>1 DEF StartLine, ShopTypeOK, Wanted, bookVars, shopVars, Lines
  <2>3. \A q \in todo'[c] : p < q
    BY <1>1, <2>1, <2>2 DEF ShopTypeOK
  <2> QED BY <1>1, <2>1, <2>2, <2>3 DEF TransactionValid
<1>8. ASSUME StartRow(c) PROVE TransactionValid(c)'
  <2> PICK p \in todo[c] :
             /\ want' = [want EXCEPT ![c] = p]
             /\ todo' = [todo EXCEPT ![c] = @ \ {p}]
    BY <1>8 DEF StartRow
  <2>1. /\ pc[c] = "rows" /\ Wanted(c) = {} /\ Wanted(c)' = {p} /\ todo'[c] = todo[c] \ {p}
        /\ Lines(cart[c])' = Lines(cart[c])
        /\ UNCHANGED <<status, items, pc, order, cart, held>>
    BY <1>1, <1>8 DEF StartRow, ShopTypeOK, Wanted, bookVars, Lines
  <2> QED BY <1>1, <2>1 DEF TransactionValid
<1>9. ASSUME TakeRow(c), want[c] # NoProduct, pc[c] \in {"lines", "rows"}
      PROVE  TransactionValid(c)'
  <2>1. /\ held'[c] = held[c] \cup {want[c]} /\ Wanted(c) = {want[c]} /\ Wanted(c)' = {}
        /\ Lines(cart[c])' = Lines(cart[c])
        /\ UNCHANGED <<status, items, customer, pc, order, visitor, cart, todo>>
    BY <1>1, <1>9 DEF TakeRow, ShopTypeOK, Wanted, bookVars, shopVars, Lines
  <2> QED BY <1>1, <1>9, <2>1 DEF TransactionValid
<1>10. ASSUME order'[c] = order[c]
       PROVE  order'[c] # NoOrder => \A d \in Clients \ {c} : order'[c] # order[d]
  BY <1>1, <1>10 DEF TransactionValid
<1>11. CASE End(c)
  BY <1>3, <1>11
<1>12. CASE Begin(c)
  BY <1>4, <1>5, <1>12 DEF Begin
<1>13. CASE Lock(c) /\ ~End(c)
  <2>1. TakeRow(c) /\ want[c] # NoProduct /\ pc[c] \in {"lines", "rows"}
    BY <1>13 DEF Lock, LockLine, LockRow, GiveUp
  <2>2. order'[c] = order[c]
    BY <2>1 DEF TakeRow
  <2> QED BY <1>9, <1>10, <2>1, <2>2
<1>14. CASE (LockCustomer(c) \/ StartLine(c) \/ StartRow(c)) /\ ~End(c)
  <2>1. order'[c] = order[c]
    BY <1>14 DEF LockCustomer, GiveUp, StartLine, StartRow
  <2> QED BY <1>6, <1>7, <1>8, <1>10, <1>14, <2>1
<1> QED
  BY <1>11, <1>12, <1>13, <1>14
     DEF ClientStep, Proceed, CommitPlace, CommitCancel, DeadlockVictim, Crash, GiveUp

LEMMA TransactionsStep == Inv /\ Next => TransactionsStayValid'
<1> SUFFICES ASSUME Inv, Next PROVE TransactionsStayValid'
  OBVIOUS
<1>1. ShopTypeOK /\ \A d \in Clients : TransactionValid(d)
  BY DEF Inv, TransactionsStayValid, TypeOK
<1>2. CASE ShopStep
  <2>1. ASSUME NEW d \in Clients PROVE TransactionValid(d)'
    <3>1. \A e \in Clients : Idles(e)
      BY <1>2, ShopStepIdles
    <3>2. \A e \in Clients \ {d} : order[d] # NoOrder => order'[e] # order[d]
      BY <1>1, <3>1 DEF Idles, TransactionValid
    <3> QED BY <3>1, <3>2, OthersStayValid
  <2> QED BY <2>1 DEF TransactionsStayValid
<1>3. ASSUME NEW c \in Clients, ClientStep(c) PROVE TransactionsStayValid'
  <2>1. \A d \in Clients \ {c} : Idles(d)
    BY <1>1, <1>3, OthersIdle
  <2>2. ASSUME NEW d \in Clients \ {c} PROVE TransactionValid(d)'
    <3>1. ASSUME NEW e \in Clients \ {d}, order[d] # NoOrder PROVE order'[e] # order[d]
      <4>1. CASE e = c
        BY <1>3, <3>1, <4>1, OwnStaysValid
      <4>2. CASE e # c
        BY <1>1, <2>1, <3>1, <4>2 DEF Idles, TransactionValid
      <4> QED BY <4>1, <4>2
    <3> QED BY <2>1, <3>1, OthersStayValid
  <2>3. TransactionValid(c)'
    BY <1>3, OwnStaysValid
  <2> QED BY <2>2, <2>3 DEF TransactionsStayValid
<1> QED BY <1>2, <1>3, NextCases

-----------------------------------------------------------------------------
(* The properties.                                                         *)

LEMMA InvStep == Inv /\ [Next]_vars => Inv'
<1> SUFFICES ASSUME Inv, [Next]_vars PROVE Inv'
  OBVIOUS
<1>1. BookTypeOK'
  BY StepImplementsBook, BookTypeStep DEF Inv, TypeOK
<1>2. CASE Next
  BY <1>1, <1>2, ShopTypeStep, ReservationsStep, TransactionsStep DEF Inv, TypeOK
<1>3. CASE UNCHANGED vars
  BY <1>3 DEF vars, bookVars, shopVars, txnVars, Inv, TypeOK, BookTypeOK, ShopTypeOK,
              ReservationsHold, TransactionsStayValid, TransactionValid, Wanted, Lines
<1> QED BY <1>2, <1>3

LEMMA Invariant == Spec => []Inv
BY InitInv, InvStep, PTL DEF Spec

\* Every variable keeps its type: no quantity in stock goes negative.
THEOREM CheckoutTypeCorrect == Spec => []TypeOK
<1>1. Inv => TypeOK
  BY DEF Inv
<1> QED BY Invariant, <1>1, PTL

\* What a checkout has locked is there for it until it commits.
THEOREM ReservationsAlwaysHold == Spec => []ReservationsHold
<1>1. Inv => ReservationsHold
  BY DEF Inv
<1> QED BY Invariant, <1>1, PTL

\* Nothing a transaction has read and locked changes under it.
THEOREM TransactionsAlwaysValid == Spec => []TransactionsStayValid
<1>1. Inv => TransactionsStayValid
  BY DEF Inv
<1> QED BY Invariant, <1>1, PTL

\* Checkouts and cancellations, with their locks, crashes and deadlocks, implement the
\* atomic use cases.
THEOREM CheckoutImplementsBook == Spec => ImplementsOrderBook
<1>1. Init => BookInit
  BY DEF Init
<1> QED BY Invariant, <1>1, StepImplementsBook, PTL DEF Spec, BookSpec, ImplementsOrderBook

\* Units on the shelf and in live orders add up to what was supplied, whatever carts are
\* checked out at once, cancelled, deadlocked or cut off by a crash.
THEOREM CheckoutKeepsStock == Spec => []StockConserved
BY CheckoutImplementsBook, StockAlwaysConserved, PTL DEF ImplementsOrderBook

\* In a cycle without cancellations everyone wants a larger id than the one who waits
\* for it, which no finite set of ids allows.
LEMMA NoCycleOfCheckouts == Inv => CheckoutsNeverDeadlock
<1> SUFFICES ASSUME Inv, NEW C \in SUBSET Clients, WaitCycle(C), \A c \in C : pc[c] # "rows"
             PROVE  FALSE
  BY DEF CheckoutsNeverDeadlock
<1>1. ShopTypeOK
  BY DEF Inv, TypeOK
<1> DEFINE Wants == {want[c] : c \in C}
<1>2. ASSUME NEW c \in C
      PROVE  want[c] \in Products /\ \E d \in C : want[c] \in held[d]
  BY <1>1 DEF WaitCycle, WaitsFor, ShopTypeOK
<1>3. Wants \in SUBSET Products /\ Wants # {}
  BY <1>2 DEF WaitCycle
<1>4. ASSUME NEW c \in C PROVE \E d \in C : want[c] < want[d]
  <2> PICK d \in C : want[c] \in held[d]
    BY <1>2
  <2>1. TransactionValid(d) /\ want[d] \in Wanted(d)
    BY <1>2 DEF Inv, TransactionsStayValid, Wanted
  <2>2. pc[d] = "lines"
    BY <1>1, <2>1 DEF TransactionValid, ShopTypeOK
  <2> QED BY <2>1, <2>2 DEF TransactionValid
<1>5. PICK p \in Wants : \A q \in Wants : q <= p
  <2>1. IsFiniteSet(Wants) /\ Wants \subseteq Nat
    BY <1>3, FS_Subset
  <2> HIDE DEF Wants
  <2> QED BY <1>3, <2>1, LargestNumber
<1>6. PICK c \in C : p = want[c]
  BY <1>5
<1>7. PICK d \in C : p < want[d]
  BY <1>4, <1>6
<1>8. want[d] <= p /\ want[d] \in Nat /\ p \in Nat
  BY <1>3, <1>5
<1> QED BY <1>7, <1>8

\* "Inventory rows are locked in a stable order so concurrent checkouts cannot deadlock":
\* for any number of connections, products and carts.  (place_order)
THEOREM CheckoutsAreDeadlockFree == Spec => []CheckoutsNeverDeadlock
BY Invariant, NoCycleOfCheckouts, PTL

\* An order names a customer who was active when it was committed: FOR SHARE keeps the
\* erasure out until the end of the checkout.
THEOREM ErasedCustomersOrderNothing == Spec => NoOrderAfterErasure
<1> DEFINE ActiveBuyers == \A o \in Orders : buyer'[o] # buyer[o] => customer[buyer'[o]] = "active"
<1>1. Inv /\ [Next]_vars => [ActiveBuyers]_vars
  <2> SUFFICES ASSUME Inv, Next PROVE ActiveBuyers
    OBVIOUS
  <2>1. ASSUME NEW c \in Clients, CommitPlace(c) PROVE ActiveBuyers
    <3>1. TransactionValid(c) /\ pc[c] = "lines" /\ ShopTypeOK
      BY <2>1 DEF Inv, TransactionsStayValid, CommitPlace, TypeOK
    <3>2. customer[visitor[c]] = "active"
      BY <3>1 DEF TransactionValid
    <3> QED BY <2>1, <3>1, <3>2 DEF CommitPlace, ShopTypeOK
  <2>2. ASSUME UNCHANGED buyer PROVE ActiveBuyers
    BY <2>2
  <2> QED
    BY <2>1, <2>2
       DEF Next, Begin, BeginPlace, BeginCancel, Lock, LockLine, LockRow, TakeRow, GiveUp,
           Proceed, LockCustomer, StartLine, StartRow, CommitCancel, DeadlockVictim, Crash,
           WorkerPays, BackofficeRestock, Discontinue, ForgetCustomer, shopVars
<1> QED BY Invariant, <1>1, PTL DEF Spec, NoOrderAfterErasure
=============================================================================
