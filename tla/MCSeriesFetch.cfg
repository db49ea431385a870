CONSTANTS
  AllSeries <- MCSeries
  FirstSeries <- MCFirst
  Selectors <- MCSelectors
  Listings <- MCListings
  MaxSeries = 3
  ParallelThreshold = 2
  NumWorkers = 2
  Limit = 3

SPECIFICATION ListSpec

INVARIANTS
  TypeOK
  FetchIsComplete
  LabelsFound
  SeriesStay
  ListingIsComplete

PROPERTY QueryEnds
