SPECIFICATION FairWorkersSpec
CONSTANTS
  MaxBlock = 8
  Node = {n1}
  OffchainTriggerDelay = 4
  NoTrigger = NoTrigger
  WorkerSpan = 2
  LockExpires = TRUE
  MaxCrashes = 1
INVARIANTS
  WorkersTypeOK
  ClearedByAnotherGuard
  RoundsAreSpaced
  SkippedForAReason
PROPERTIES
  NobodyWaits
CHECK_DEADLOCK FALSE
