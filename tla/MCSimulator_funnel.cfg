\* The same instance: is the checkout of every order in the topic?
SPECIFICATION Spec
CONSTANTS
  a = a  b = b  x = x
  Processes = {a, b}
  Sessions = {x}
  MaxEvents <- Events
  Retries = 2
  Ticks <- TwoTicks
CHECK_DEADLOCK FALSE
INVARIANTS OrdersHaveTheirCheckout
