SPECIFICATION Spec
CONSTANTS
  Calls <- MostCalls
  Codes = {200, 201, 304, 500}
  MaxOptions = 3
  MaxRuns = 2
INVARIANTS
  TypeOK
  SignatureVerifies
  HeadersOnce
  WritesFitResponse
  ErrorsCarryNoData
  SentUnlessLocalError
CHECK_DEADLOCK FALSE
