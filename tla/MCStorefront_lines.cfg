\* One session long enough to fill a cart with six products.
SPECIFICATION Spec
CONSTANTS
  s1 = s1  s2 = s2  p1 = p1  p2 = p2  p3 = p3  p4 = p4  p5 = p5  p6 = p6  k1 = k1  k2 = k2
  Sessions = {s1}
  Products = {p1, p2, p3, p4, p5, p6}
  Changing = {}
  Customers = {k1}
  StepCounts = {6}
  Quantities = {1}
  NoCustomer = NoCustomer
  NoProduct = NoProduct
  MaxCorrupt = 0
  MaxCrashes = 0
SYMMETRY Symmetries
INVARIANTS OneToFiveLines
