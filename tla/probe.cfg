SPECIFICATION OwnerSpec
CONSTANTS
  Checks = {c1, c2}
  Issuers = {i1, i2}
  c1 = c1
  c2 = c2
  i1 = i1
  i2 = i2
INVARIANTS
  TypeOK
  ReadyMeansInitialized
  NewestRecordCurrent
  CleanStopDrained
  LatchHolds
PROPERTIES
  StopEnds
  BecomesReady
