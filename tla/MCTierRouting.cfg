CONSTANTS
  Tiers <- MCTiers
  Queries <- MCQueries
  Overlap = 4
  RawBucket = 2
  Start = 10
  MaxNow = 16

SPECIFICATION Spec

INVARIANTS
  TypeOK
  SegmentsTile
  FitsWindow
  SettledOnly
  DoubledOnlyInSeams
  SlidingIsExact
  IrateLooksForward
