SPECIFICATION Spec
CONSTANTS
  Quote <- RingWithChords
  Log2Price <- HalfOrDouble
  ZeroPrice = ZeroPrice
  MAX = MAX
  INFINITY = INFINITY
  Log2Precision = 1
  CurrencyOrder <- InOrder
  CalculatorError = CalculatorError
INVARIANTS
  TypeOK
  PathsAreReal
  FailsExactlyOnArbitrage
  BestPathsAreBest
  PathsAreSimple
  NoDetourPaysMore
CHECK_DEADLOCK FALSE
