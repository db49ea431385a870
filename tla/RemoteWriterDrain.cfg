CONSTANTS
  Deliveries = {1, 2, 3}
  Metrics = {"up", "load"}
  LabelSets = {"a"}
  Request <- MCRequest
  Impatient = {}
  BatchSize = 2
  QueueSize = 1

SPECIFICATION Spec

INVARIANT DrainsOnStop
