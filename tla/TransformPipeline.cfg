SPECIFICATION FairSpec
CONSTANTS
  k1 = k1
  k2 = k2
  k3 = k3
  k4 = k4
  v = v
  done = done
  Listed <- MCListed
  Unwanted <- MCUnwanted
  Variants <- MCVariants
  Scanned <- MCScanned
  Concurrency = 2
  HighWater = 3
  SampleSize = 2
  TripThreshold = 2
INVARIANTS
  TypeOK
  NoFileTwice
  StoppedPullHasWork
  ReportIsComplete
  NothingLeftBehind
PROPERTY
  RunEndsUnlessTripped
CHECK_DEADLOCK FALSE
