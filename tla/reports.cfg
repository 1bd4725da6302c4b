SPECIFICATION FairSpec
CONSTANTS
  Executor = {e1, e2}
  e1 = e1
  e2 = e2
  NumTables = 2
  MaxFaults = 2
  MaxLapses = 2
  None = None
INVARIANTS
  CompletedIsWhole
PROPERTIES
  ReportStands
  RunEnds
CHECK_DEADLOCK FALSE
