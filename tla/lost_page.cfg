SPECIFICATION Spec
CONSTANTS
  Calls = {"list_objects", "get_listable_tags"}
  Total = 3
  Limits = {0}
  MaxPage = 3
  IncludeMeta = {FALSE}
  TagsAlloc = 2
  Faults = {"garbled", "nomem"}
  MaxFaults = 1
INVARIANTS
  EndIsComplete
CHECK_DEADLOCK FALSE
