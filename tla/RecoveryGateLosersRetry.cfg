SPECIFICATION Spec
CONSTANTS
  o1 = o1
  o2 = o2
  o3 = o3
  o4 = o4
  Objects <- MCTwoObjects
  NoObject = NoObject
  Permits = 2
  MaxRounds = 2
PROPERTIES
  LosersPark
