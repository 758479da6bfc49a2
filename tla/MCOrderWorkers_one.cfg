\* The deployment: one worker, two orders for a batch of one, scarce stock, restocking, two
\* crashes, fair scheduling.
SPECIFICATION FairSpec
CONSTANTS
  o1 = o1  o2 = o2  w1 = w1  w2 = w2  p1 = p1  p2 = p2
  Orders = {o1, o2}
  Workers = {w1}
  Products = {p1}
  Baskets <- OneOfEach
  NoOrder = NoOrder
  MaxAttempts = 3
  InitialStock = 1
  RestockQty = 1
  MaxSupply = 2
  PayDelay = 1
  ShipDelay = 0
  DeliverDelay = 0
  RefundDelay = 0
  RefundWindow = 2
  CancelPicks = {o2}
  RefundPicks = {o1}
  Batch = 1
  MaxTxnAge = 1
  AgeCap = 3
  MaxCrashes = 2
PROPERTIES PaymentRetriesWait OrdersSettle
