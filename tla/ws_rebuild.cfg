SPECIFICATION FairSpec
CONSTANTS
  a = a
  b = b
  NULL = NULL
  Bytes <- TwoBytes
  Source <- ThreeByteSource
  Cut <- ByteByByte
  Mode <- Ws
  InitOutcomes = {"ready"}
  Bodies = {"array", "file"}
  Policies = {"rebuild"}
  Faults <- AllFaults
  MaxFaults = 3
  MaxExecutions = 6
INVARIANTS
  HeaderMatchesObject
PROPERTIES
  ImplementsLog
CHECK_DEADLOCK FALSE
