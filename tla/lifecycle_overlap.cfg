SPECIFICATION Spec
CONSTANTS
  Run = {r1, r2}
  r1 = r1
  r2 = r2
  TargetOf <- OneTarget
  Client = {c1, c2}
  c1 = c1
  c2 = c2
  Requests = {"start", "cancel", "retry", "reconcile"}
  Slots = 2
  Faults = {"crash", "database", "api"}
  MaxJobs = 2
  MaxFaults = 1
  None = None
SYMMETRY Alike
INVARIANTS
  OneActivePerTarget
  WriterHoldsTarget
CHECK_DEADLOCK FALSE
