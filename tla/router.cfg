SPECIFICATION FairSpec
CONSTANTS
  r1 = r1
  r2 = r2
  Requests <- MCRequests
  Inputs <- MCInputs
  Metrics <- MCMetrics
  Workers <- MCWorkers
INVARIANTS
  TypeOK
  SelectedIsBest
  NoSuccessDiscarded
  FallbackIsJustified
  EnginesReported
PROPERTIES
  NoAbandonedStart
  StepsToAnswer
  Responds
  ImplementsRedundancy
CHECK_DEADLOCK FALSE
