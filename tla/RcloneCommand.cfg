SPECIFICATION MCSpec
CONSTANTS
  Objects = {"a", "b"}
  Causes = {"x", "y"}
  Earlier <- MCEarlier
  Attempts <- MCAttempts
  PipeSize = 1
  MaxLines = 2
  MaxStderr = 2
  MaxFaults = 1
CHECK_DEADLOCK FALSE
INVARIANTS
  TypeOK
  OkIsTrue
  EverythingIsReported
PROPERTIES
  ImplementsCopiedStream
  CommandEnds
