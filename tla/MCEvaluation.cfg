CONSTANTS
  stale = stale
  Stale <- stale
  Staleness = 2
  Stores <- MCStores
  Queries <- MCQueries
  MaxSeries = 2

SPECIFICATION FairSpec

INVARIANTS
  TypeOK
  RangeIsInstants
  ErrorsAreDeserved

PROPERTY EvaluationEnds
