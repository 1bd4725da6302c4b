SPECIFICATION Spec
CONSTANTS
  Table = {t1, t2}
  t1 = t1
  t2 = t2
  Client = {c1, c2}
  c1 = c1
  c2 = c2
  Reader = {r1}
  r1 = r1
  Keys <- KeysOf
  Sheets <- SheetsOf
  List = {2}
  Batch = 1
  PageSize = 1
  NumFiles = 3
  MaxRemovals = 1
  MaxFaults = 1
  None = None
SYMMETRY Symmetry
INVARIANTS
  TableIsOneFile
  CacheIsCurrent
  ReadInPeace
CHECK_DEADLOCK FALSE
