CONSTANTS
  Configs <- MCOneConfig
  Resolution <- MCResolution
  PerHour = 2
  Raw = {1, 2, 3, 4}
  Refreshing = {"1h"}
  Start = 6
  MaxNow = 6
  MaxAbandoned = 0

SPECIFICATION Spec

INVARIANT RefreshDelivers
