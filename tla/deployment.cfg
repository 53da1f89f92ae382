SPECIFICATION Spec
CONSTANTS
  Configuration <- Configurations
  MaxFaults = 2
  Price = {low, high}
  NoPrice = NoPrice
  OffchainTriggerDelay = 2
  MaxTxPoolStayTime = 2
  Revertible = 1
  MaxMoves = 1
INVARIANT TypeOK
PROPERTIES
  HalfDeadNodesStop
  BoardFollowsFeed
