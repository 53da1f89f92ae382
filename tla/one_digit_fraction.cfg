SPECIFICATION Spec
CONSTANTS
  MonitoredPair = {p1, p2}
  Scale = 4
  Deadline = 20
  Time = {1}
  Number <- ShortNumbers
  NotAPrice = NotAPrice
  Unreachable = Unreachable
  Idle = Idle
INVARIANT
  PricesAreExact
CHECK_DEADLOCK FALSE
