\* Two workers race for two orders, one crash.
SPECIFICATION Spec
CONSTANTS
  o1 = o1  o2 = o2  w1 = w1  w2 = w2  p1 = p1  p2 = p2
  Orders = {o1, o2}
  Workers = {w1, w2}
  Products = {p1}
  Baskets <- OneOfEach
  NoOrder = NoOrder
  MaxAttempts = 2
  InitialStock = 2
  RestockQty = 1
  MaxSupply = 2
  PayDelay = 1
  ShipDelay = 0
  DeliverDelay = 0
  RefundDelay = 0
  RefundWindow = 2
  CancelPicks = {o2}
  RefundPicks = {o1}
  Batch = 1
  MaxTxnAge = 1
  AgeCap = 3
  MaxCrashes = 1
SYMMETRY WorkerSymmetry
INVARIANTS TypeOK ClaimsStayValid CancelledForCause
PROPERTIES StampsRespectDelays FirstAttemptsWait ImplementsOrderBook
