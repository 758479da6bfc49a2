\* One session of three steps, one of whose events may be corrupted, two products, two
\* customers.
SPECIFICATION Spec
CONSTANTS
  s1 = s1  s2 = s2  p1 = p1  p2 = p2  p3 = p3  p4 = p4  p5 = p5  p6 = p6  k1 = k1  k2 = k2
  Sessions = {s1}
  Products = {p1, p2}
  Changing = {p1, p2}
  Customers = {k1, k2}
  StepCounts = {3}
  Quantities = {1}
  NoCustomer = NoCustomer
  NoProduct = NoProduct
  MaxCorrupt = 1
  MaxCrashes = 1
SYMMETRY Symmetries
INVARIANTS TypeOK CartMatchesEvents OrderMatchesEvents OrdersFullyPriced Stitched SessionsGoOn
