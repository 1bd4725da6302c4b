SPECIFICATION Spec
CONSTANTS
  NumRecords = 3
  PageSize = 2
  Width = 2
  MaxTries = 2
  Evidence <- ByKeyButSecond
  Conflict = "SKIP_EXISTING"
  KeyOf <- SharedKey
  Existing = {}
  Same = {}
  Blocked = {}
  Parent <- NoParents
  Required = {}
  MixedCase = {}
  StopOnError = FALSE
  Faults = {"crash", "database", "fatal", "gone"}
  MaxExecutions = 3
  None = None
INVARIANTS
  FailedIsAbsent
  CompletedHasNoDoubt
  AtMostOneCopy
  CopiesAreOnRecord
PROPERTIES
  ImplementsWriteOnce
CHECK_DEADLOCK FALSE
