SPECIFICATION WorkersSpec
CONSTANTS
  MaxBlock = 6
  Node = {n1}
  OffchainTriggerDelay = 3
  NoTrigger = NoTrigger
  WorkerSpan = 2
  LockExpires = FALSE
  MaxCrashes = 0
INVARIANT
  RateLimited
CHECK_DEADLOCK FALSE
