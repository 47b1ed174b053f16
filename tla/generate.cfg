SPECIFICATION Spec
CONSTANTS
  a = a
  b = b
  NULL = NULL
  Bytes <- TwoBytes
  Source <- ThreeByteSource
  Cut <- AllAtOnce
  Mode <- Gen
  InitOutcomes <- EveryOutcome
  Bodies = {"array", "file"}
  Policies <- EveryPolicy
  Faults <- GenerateFaults
  MaxFaults = 5
  MaxExecutions = 5
INVARIANTS
  TypeOK
  VerifiedIsStored
  VerifyAccepts
CHECK_DEADLOCK FALSE
