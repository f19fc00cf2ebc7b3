SPECIFICATION MCSpec
CONSTANTS
  Requests = {r1, r2}
  Users = {"u"}
  Names = {"", "a", "g"}
  Shapes <- AllShapes
  Questions <- QuestionsAsked
  Oversized <- GroupsOversized
  AllowTTL = 1
  DenyTTL = 1
  SarTimeout = 2
  MaxHeaderValues = 4
  CacheSize = 1
  Horizon = 6
  MaxChanges = 1
INVARIANTS
  TypeOK
  FailsOnlyWhenDone
  OneTerminalRecord
  RevocationBound
  GrantBound
  AdmittedInFull
  BudgetShared
PROPERTIES
  EveryCheckEnds
  ImplementsDecision
