SPECIFICATION Spec
CONSTANTS
  Requests = {r1, r2}
  Users = {"u"}
  Names = {"a", "g"}
  Shapes <- UserAndGroup
  Questions <- QuestionsAsked
  Oversized <- NoOversized
  AllowTTL = 1
  DenyTTL = 1
  SarTimeout = 2
  MaxHeaderValues = 4
  CacheSize = 1
  Horizon = 4
  MaxChanges = 0
INVARIANT CanceledMeansClientGone
