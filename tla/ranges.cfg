SPECIFICATION FairSpec
CONSTANTS
  Bytes = {a, b}
  MaxLength = 3
  Faults <- EveryFault
  MaxFaults = 2
INVARIANTS
  TypeOK
  ReadsAsked
  CopyIsTrue
PROPERTIES
  
  EventuallySure
