SPECIFICATION FairSpec
CONSTANT MaxInFlight = 2
INVARIANTS
  MetricsOutliveHooks
  FlushAfterServing
  HonestExit
  ReleasedOnExit
PROPERTIES
  StopEnds
  RepeatedSignalsEnd
