SPECIFICATION FairSpec
CONSTANTS
  Worker = {w1, w2}
  Job = {j1, j2}
  Concurrency = 2
  None = None
  MaxRestarts = 1
  MaxStalls = 1
  MaxFaults = 1
  MaxMishaps = 2
INVARIANTS
  ExclusiveUnlessStalled
  ClaimIsFence
  DoneWasHandled
PROPERTIES
  KeepsPromise
  EveryJobSettles
