SPECIFICATION FairSpec
CONSTANTS
  k1 = k1
  k2 = k2
  k3 = k3
  k4 = k4
  v = v
  done = done
  Listed <- MCListed
  Unwanted <- MCUnwanted
  Variants <- MCVariants
  Scanned <- MCScanned
  Concurrency = 1
  HighWater = 2
  SampleSize = 2
  TripThreshold = 2
PROPERTY
  TrippedRunEnds
CHECK_DEADLOCK FALSE
