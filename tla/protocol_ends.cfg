SPECIFICATION FairSpec
CONSTANTS
  NumRecords = 2
  PageSize = 2
  Width = 2
  MaxTries = 2
  Evidence <- ByAlternateKey
  Conflict = "UPSERT"
  KeyOf <- OwnKeys
  Existing = {2}
  Same = {}
  Blocked = {}
  Parent <- NextParent
  Required = {}
  MixedCase = {1}
  StopOnError = FALSE
  Faults = {"crash", "database", "count", "late", "fatal"}
  MaxExecutions = 3
  None = None
INVARIANTS
  CompletedIsWhole
PROPERTIES
  RunEnds
CHECK_DEADLOCK FALSE
