SPECIFICATION FairSpec
CONSTANTS
  Run = {r1}
  r1 = r1
  TargetOf <- OneTarget
  Client = {c1, c2}
  c1 = c1
  Requests = {"start", "cancel", "pause", "resume", "retry"}
  Slots = 2
  Faults = {"crash", "tail"}
  MaxJobs = 2
  MaxFaults = 1
  c2 = c2
  None = None
INVARIANTS
  NoRunIsStranded
  OneExecution
PROPERTIES
  CancelStops
CHECK_DEADLOCK FALSE
