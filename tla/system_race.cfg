SPECIFICATION Spec
CONSTANTS
  MaxBlock = 3
  Pair <- OnePair
  Provider = {CRYPTOCOMPARE}
  Account = {alice}
  Cost = {2, 3}
  Route <- DirectOnly
  AmountModulus = 2000000000
  MaxTxPoolStayTime = 2
  None = None
  Node = {n1, n2}
  OffchainTriggerDelay = 1
  NoTrigger = NoTrigger
  WorkerSpan = 2
  LockExpires = TRUE
  MaxCrashes = 1
  Keystore <- SharedKey
  PriceChangeTolerance = 400000
  FetchedPrice = {2, 3}
  PairOperations <- OneByOne
  CalculatorError = CalculatorError
  calc_best_paths <- calc_best_paths_noop
INVARIANTS
  LivePayloadsMatchTheBoard
PROPERTIES
  ImplementsPriceBoard
SYMMETRY Nodes
VIEW WithoutEvent
