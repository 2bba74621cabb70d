SPECIFICATION FairSpec
CONSTANTS
  u1 = u1
  UIDs <- MCUIDs
  Modes <- MCBothModes
  MaxGen = 2
  MaxFaults = 2
  MayMix = FALSE
  MayScan = TRUE
INVARIANTS
  TypeOK
  RecordedIsDelivered
  SkippedIsDelivered
PROPERTIES
  NoSecondDelivery
  EverythingArrives
