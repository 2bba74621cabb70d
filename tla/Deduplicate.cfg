SPECIFICATION FairSpec
CONSTANTS
  w1 = w1
  w2 = w2
  album = album
  photo = photo
  note = note
  photo2 = photo2
  box = box
  inner = inner
  stub = stub
  None = None
  Workers <- MCWorkers
  Items <- MCItems
  Roots <- MCRoots
  Contents <- MCContents
  Zips <- MCZips
  Members <- MCMembers
  RootOf <- MCRootOf
  Depth <- MCDepth
  MaxDepth = 1
  AppleDouble = {stub}
  Undated = {photo2}
  Key <- MCKey
  Content <- MCContent
  MaxFaults = 2
INVARIANTS
  TypeOK
  CheckpointedIsPlaced
  CopiesAreAccountedFor
  SuccessIsComplete
PROPERTIES
  EverythingIsKept
CHECK_DEADLOCK FALSE
