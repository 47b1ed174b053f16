SPECIFICATION Spec
CONSTANTS
  Calls = {"set_acl"}
  Codes = {200, 500}
  MaxOptions = 2
  MaxRuns = 1
INVARIANTS
  WritesFitResponse
CHECK_DEADLOCK FALSE
