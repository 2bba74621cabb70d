SPECIFICATION FairSpec
CONSTANTS
  o1 = o1
  o2 = o2
  o3 = o3
  o4 = o4
  Objects <- MCObjects
  NoObject = NoObject
  Permits = 3
  MaxRounds = 2
INVARIANTS
  TypeOK
PROPERTIES
  ImplementsOutageGate
  WatchersAreLetGo
  RunEndsUnlessStranded
