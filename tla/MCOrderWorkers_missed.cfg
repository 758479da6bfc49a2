\* One fair worker: is every picked order refunded?
SPECIFICATION FairSpec
CONSTANTS
  o1 = o1  o2 = o2  w1 = w1  w2 = w2  p1 = p1  p2 = p2
  Orders = {o1}
  Workers = {w1}
  Products = {p1}
  Baskets <- OneOfEach
  NoOrder = NoOrder
  MaxAttempts = 2
  InitialStock = 2
  RestockQty = 1
  MaxSupply = 2
  PayDelay = 1
  ShipDelay = 1
  DeliverDelay = 1
  RefundDelay = 1
  RefundWindow = 5
  CancelPicks = {}
  RefundPicks = {o1}
  Batch = 2
  MaxTxnAge = 1
  AgeCap = 7
  MaxCrashes = 1
PROPERTIES RefundsDoNotDependOnPolling
