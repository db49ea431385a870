CONSTANTS
  Deliveries = {1, 2, 3}
  Metrics = {"up", "load"}
  LabelSets = {"a"}
  Request <- MCRequest
  Impatient = {2}
  BatchSize = 2
  QueueSize = 1

SPECIFICATION FairSpec

INVARIANTS
  TypeOK
  OneFate
  AnswersAreTrue
  SamplesHaveSeries
  BatchStaysShort

PROPERTIES
  AcceptedIsSettled
  SendersUnblock
  KeepsPromise
