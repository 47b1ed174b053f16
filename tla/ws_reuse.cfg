SPECIFICATION Spec
CONSTANTS
  a = a
  b = b
  NULL = NULL
  Bytes <- TwoBytes
  Source <- ThreeByteSource
  Cut <- CreateAndAppend
  Mode <- Ws
  InitOutcomes = {"ready"}
  Bodies = {"array", "file"}
  Policies = {"reuse"}
  Faults <- DeliveryFaults
  MaxFaults = 1
  MaxExecutions = 4
INVARIANTS
  HeaderMatchesObject
CHECK_DEADLOCK FALSE
