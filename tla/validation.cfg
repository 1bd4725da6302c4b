SPECIFICATION ValidationSpec
CONSTANTS
  NumRecords = 4
  Worlds <- AnyTwo
  Settings <- FewSettings
  Batch = 2
  Cap = 3
  MaxChanges = 2
  Nothing = Nothing
INVARIANTS
  PassIsEvidence
  CoverageIsHonest
CHECK_DEADLOCK FALSE
