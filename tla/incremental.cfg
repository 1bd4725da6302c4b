SPECIFICATION WatermarkSpec
CONSTANTS
  Run = {r1, r2}
  r1 = r1
  r2 = r2
  NumTables = 1
  NumKeys = 2
  PageSize = 1
  Older <- AsInstants
  Faults = {"table", "record", "run"}
  FirstStamp = 1
  LastStamp = 3
  MaxAttempts = 2
SYMMETRY Symmetry
INVARIANTS
  NothingSkippedInCalm
CHECK_DEADLOCK FALSE
