\* Two connections, two orders over two products of which two units each are in stock
\* and a third can be added, two crashes, fair scheduling.
SPECIFICATION FairSpec
CONSTANTS
  o1 = o1  o2 = o2  k1 = k1  c1 = c1  c2 = c2
  Orders = {o1, o2}
  Products = {1, 2}
  Clients = {c1, c2}
  Customers = {k1}
  Baskets <- Carts
  NoOrder = NoOrder
  NoCustomer = NoCustomer
  NoProduct = 0
  MaxAttempts = 2
  InitialStock = 2
  RestockQty = 1
  MaxSupply = 3
  MaxCrashes = 2
INVARIANTS TypeOK ReservationsHold TransactionsStayValid CheckoutsNeverDeadlock
PROPERTIES NoOrderAfterErasure ImplementsOrderBook CheckoutsEnd
