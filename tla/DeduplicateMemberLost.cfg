SPECIFICATION Spec
CONSTANTS
  w1 = w1
  w2 = w2
  album = album
  photo = photo
  note = note
  photo2 = photo2
  box = box
  inner = inner
  stub = stub
  None = None
  Workers <- MCWorkers
  Items <- MCFewItems
  Roots <- MCFewRoots
  Contents <- MCContents
  Zips <- MCFewZips
  Members <- MCFewMembers
  RootOf <- MCFewRootOf
  Depth <- MCFewDepth
  MaxDepth = 1
  AppleDouble = {}
  Undated = {photo2}
  Key <- MCFewKey
  Content <- MCFewContent
  MaxFaults = 1
INVARIANT FailedMembersAreRetried
CHECK_DEADLOCK FALSE
