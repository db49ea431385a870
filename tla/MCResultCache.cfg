CONSTANTS
  Callers = {c1, c2}
  Requests <- MCRequests
  MaxSize = 2
  TTL = 1
  MaxFreshness = 1
  TicksPerMs = 1
  MaxTime = 4

SPECIFICATION FairSpec

INVARIANTS
  TypeOK
  CacheConsistent
  NoDuplicateWork
  AnswersMatch
  StoredIsSettled

PROPERTIES
  EvictsLeastRecent
  EveryFetchReturns
