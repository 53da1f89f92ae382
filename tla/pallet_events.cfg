SPECIFICATION Spec
CONSTANTS
  MaxBlock = 2
  Pair <- MCPair
  Provider = {CRYPTOCOMPARE}
  Account = {alice}
  Cost = {2, 3}
  Route <- MCRoute
  AmountModulus = 8
  MaxTxPoolStayTime = 1
  None = None
  MaxChanges = 2
  MaxNonce = 2
  TradeAmount = {3}
INVARIANTS
  TypeOK
  EventsRebuildStorage
  TradedAtPublishedCost
PROPERTIES
  DedupeKeepsMeaning
  MonitoredEventIsTheDifference
