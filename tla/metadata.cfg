SPECIFICATION Spec
CONSTANTS
  Words <- AnyWord
  Operations <- AllOperations
  Utf8Modes = {TRUE, FALSE}
  Entries <- SomeEntries
  Names <- SomeNames
  AclEntries <- SomeAclEntries
  MaxEntries = 2
  MaxCalls = 3
INVARIANTS
  TypeOK
  StoredAsGiven
  ReadsBack
  SystemApart
  AclReadsBack
PROPERTIES
  DeletesOnlyNamed
CHECK_DEADLOCK FALSE
