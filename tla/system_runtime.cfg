SPECIFICATION Spec
CONSTANTS
  MaxBlock = 4
  Pair <- AllPairs
  Provider = {"CRYPTOCOMPARE"}
  Account = {alice}
  Cost <- ChainedCosts
  Route <- PathSteps
  AmountModulus = 2000000000
  MaxTxPoolStayTime = 2
  None = None
  Node = {n1}
  OffchainTriggerDelay = 2
  NoTrigger = NoTrigger
  WorkerSpan = 1
  LockExpires = TRUE
  MaxCrashes = 0
  Keystore <- SharedKey
  PriceChangeTolerance = 500000
  FetchedPrice <- HalfAndDouble
  PairOperations <- AllAtOnce
  ZeroPrice = ZeroPrice
  MAX = MAX
  INFINITY = INFINITY
  CalculatorError = CalculatorError
  calc_best_paths <- calc_best_paths_runtime
INVARIANTS
  TypeOK
  AtMostOneLivePayload
  SubmissionsAreSpaced
  RateLimited
  PublishedPathsAreReal
  PublishedPathsAreCalculated
  
  NoArbitrageIsSent
