SPECIFICATION FairSpec
CONSTANTS
  Sched = {s1, s2}
  s1 = s1
  s2 = s2
  Scheduler = {w1, w2}
  w1 = w1
  w2 = w2
  Client = {c1}
  c1 = c1
  NextSlot <- EveryMinute
  MaxFailures = 2
  Requests = {"edit", "trigger", "remove"}
  MaxTime = 2
  MaxRequests = 2
  MaxFaults = 1
  None = None
INVARIANTS
  SlotFiresOnce
  CrashLosesOneFiring
  GivesUp
PROPERTIES
  PausedUntilEnabled
  DueIsClaimed
CHECK_DEADLOCK FALSE
