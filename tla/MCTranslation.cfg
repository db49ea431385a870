CONSTANTS
  Staleness = 4
  Stale = Stale
  NaN = NaN
  PlusInf = 99
  Trig <- MCTrig
  Store <- MCStore
  Parts <- MCParts
  Queries <- MCQueries

SPECIFICATION Spec

INVARIANTS
  TypeOK
  PlanKeepsMeaning
  RangeFollowsInstant
