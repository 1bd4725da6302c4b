SPECIFICATION Spec
CONSTANTS
  a = a
  b = b
  home = home
  other = other
  Client = {c1, c2}
  c1 = c1
  c2 = c2
  Column = {a, b}
  Home = home
  Target = {home, other}
  Suggested = other
  Schema <- SchemaOf
  Fits <- FitsOf
  Required = {a}
  MaxRequests = 3
  MaxTroubles = 1
  None = None
SYMMETRY Symmetry
INVARIANTS
  StartedAsChecked
  LockedPlanStays
  DecisionsStand
  IssuesAreCurrent
CHECK_DEADLOCK FALSE
