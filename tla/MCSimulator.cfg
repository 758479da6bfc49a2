\* Two processes boot on an empty database; one then emits three events of a session.
\* Processes end, so the system may stop.
SPECIFICATION FairSpec
CONSTANTS
  a = a  b = b  x = x
  Processes = {a, b}
  Sessions = {x}
  MaxEvents <- Events
  Retries = 2
  Ticks <- TwoTicks
CHECK_DEADLOCK FALSE
INVARIANTS TypeOK SeededOnce CleanExitMeansDelivered SessionsKeepOrder
PROPERTIES BootsEnd StopsOnRequest
