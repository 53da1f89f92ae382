SPECIFICATION Spec
CONSTANTS
  MaxBlock = 4
  Pair <- TwoPairs
  Provider = {CRYPTOCOMPARE}
  Account = {alice}
  Cost = {2, 6}
  Route <- DirectOnly
  AmountModulus = 2000000000
  MaxTxPoolStayTime = 3
  None = None
  Node = {n1}
  OffchainTriggerDelay = 1
  NoTrigger = NoTrigger
  WorkerSpan = 1
  LockExpires = TRUE
  MaxCrashes = 0
  Keystore <- SharedKey
  PriceChangeTolerance = 500000
  FetchedPrice = {2, 6}
  PairOperations <- OneByOne
  CalculatorError = CalculatorError
  calc_best_paths <- calc_best_paths_noop
INVARIANT DroppedPairsAreRemoved
