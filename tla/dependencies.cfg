SPECIFICATION FairSpec
CONSTANTS
  NumTables = 4
  may = may
  must = must
  Column = {may, must}
  MaxLookups = 4
  Inputs <- SmallAndLarge
INVARIANTS
  ComponentsAreMutual
  OrderRespects
  OnlyRequiredCirclesBlock
PROPERTIES
  DeferredOnCircle
  Terminates
CHECK_DEADLOCK FALSE
