SPECIFICATION Spec
CONSTANTS
  MaxBlock = 4
  Pair <- OnePair
  Provider = {CRYPTOCOMPARE}
  Account = {alice}
  Cost = {2, 6}
  Route <- DirectOnly
  AmountModulus = 2000000000
  MaxTxPoolStayTime = 2
  None = None
  PriceChangeTolerance = 500000
  FetchedPrice = {2, 6}
  PairOperations <- AddsOnly
  CalculatorError = CalculatorError
  calc_best_paths <- calc_best_paths_noop
  MaxSealed = 4
  MaxSent = 3
INVARIANTS
  TypeOK
  OwnBranchPayloadsMatch
  OncePerBranch
  ToleranceOnOwnBranch
VIEW WithoutEvent
