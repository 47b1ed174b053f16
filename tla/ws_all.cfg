SPECIFICATION Spec
CONSTANTS
  a = a
  b = b
  NULL = NULL
  Bytes <- TwoBytes
  Source <- ThreeByteSource
  Cut <- CreateAndAppend
  Mode <- Ws
  InitOutcomes <- EveryOutcome
  Bodies = {"array", "file"}
  Policies <- EveryPolicy
  Faults <- AllFaults
  MaxFaults = 3
  MaxExecutions = 5
INVARIANTS
  IInv
  StoredIsPrefix
  AckedIsStored
  ChecksumDescribesObject
  HeaderIsCurrent
  SentFromWhereItStood
PROPERTIES
  KeepsLog
CHECK_DEADLOCK FALSE
