SPECIFICATION FairSpec
CONSTANTS
  Listings <- MCListings
  KeyOrder <- MCKeyOrder
  LocalFold <- MCLocalFold
  OnVolume <- MCOnVolume
  Kind <- MCKind
  Nature <- MCNature
  Sheets <- MCSheets
  Retries = 2
  SampleSize = 2
  TripAt = 2
  MaxFaults = 2
INVARIANTS
  TypeOK
  DoneIsWhole
  OwnBytes
  PlaceNeverCollides
PROPERTY
  EveryFileArrives
