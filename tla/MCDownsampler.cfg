CONSTANTS
  Configs <- MCConfigs
  Resolution <- MCResolution
  PerHour = 2
  Raw = {1, 2, 4}
  Refreshing = {"1h", "6h"}
  Start = 6
  MaxNow = 7
  MaxAbandoned = 1

SPECIFICATION Spec

INVARIANTS
  TypeOK
  ChecksumIsTrue
  SourcesExist
  BackfilledOnce
  OnlyOldHours
