SPECIFICATION Spec
CONSTANTS
  Requests = {r1, r2}
  Users = {"u"}
  Names = {"a"}
  Shapes <- OneUser
  Questions <- QuestionsAsked
  Oversized <- NoOversized
  AllowTTL = 0
  DenyTTL = 1
  SarTimeout = 2
  MaxHeaderValues = 4
  CacheSize = 1
  Horizon = 4
  MaxChanges = 3
SYMMETRY RequestSymmetry
INVARIANT EnforcedPerRequest
