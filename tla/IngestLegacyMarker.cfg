SPECIFICATION Spec
CONSTANTS
  u1 = u1
  UIDs <- MCUIDs
  Modes <- MCBothModes
  MaxGen = 2
  MaxFaults = 0
  MayMix = TRUE
  MayScan = FALSE
INVARIANT SkippedIsDelivered
