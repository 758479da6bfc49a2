\* Three orders compete for two products; the last order can exist only after a
\* cancellation or a restock.  Deadlock: once every order has ended and the supply is
\* used up nothing is left to do.
SPECIFICATION BookSpec
CONSTANTS
  o1 = o1  o2 = o2  o3 = o3  p1 = p1  p2 = p2
  Orders = {o1, o2, o3}
  Products = {p1, p2}
  Baskets <- TwoCarts
  MaxAttempts = 2
  InitialStock = 2
  RestockQty = 1
  MaxSupply = 3
SYMMETRY OrderSymmetry
INVARIANTS BookTypeOK PaymentsMatchStatus ShipmentsMatchStatus StockConserved
CHECK_DEADLOCK FALSE
