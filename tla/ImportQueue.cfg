SPECIFICATION FairSpec
CONSTANTS
  w1 = w1
  w2 = w2
  w3 = w3
  b1 = b1
  b2 = b2
  b3 = b3
  Workers <- MCWorkers
  IdentityCount = 2
  Work <- MCWork
  Cap <- MCCap
  Retries = 1
  ConnectTries = 2
  PushPermits = 1
  GateRounds = 1
  NoIdentity = NoIdentity
  NoItem = NoItem
INVARIANTS
  TypeOK
  EachBatchInOnePlace
  ConnectionsWithinCap
  WaitsInOrder
  DroppedOnlyAtTheLimit
PROPERTIES
  RunEnds
CHECK_DEADLOCK FALSE
