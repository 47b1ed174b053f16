SPECIFICATION FairSpec
CONSTANTS
  Calls <- EveryCall
  Total = 5
  Limits = {0, 2}
  MaxPage = 3
  IncludeMeta = {TRUE, FALSE}
  TagsAlloc = 2
  Faults <- EveryFault
  MaxFaults = 3
INVARIANTS
  TypeOK
  InOrderOnce
  TagsFit
  ArraysFreed
PROPERTIES
  ImplementsEnumeration
CHECK_DEADLOCK FALSE
