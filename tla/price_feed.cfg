SPECIFICATION Spec
CONSTANTS
  MonitoredPair = {p1, p2}
  Scale = 4
  Deadline = 20
  Time = {1, 15, 25}
  Number <- AllNumbers
  NotAPrice = NotAPrice
  Unreachable = Unreachable
  Idle = Idle
INVARIANTS
  PairsFailAlone
  PlainPricesAreExact
CHECK_DEADLOCK FALSE
