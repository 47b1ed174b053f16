SPECIFICATION Spec
CONSTANTS
  Calls = {"list_access_tokens"}
  Total = 3
  Limits = {0}
  MaxPage = 2
  IncludeMeta = {FALSE}
  TagsAlloc = 2
  Faults = {"cut"}
  MaxFaults = 1
INVARIANTS
  NoNullRead
CHECK_DEADLOCK FALSE
