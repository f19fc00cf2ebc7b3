SPECIFICATION MCSpec
CONSTANTS
  Requests = {r1, r2}
  Inputs <- AllInputs
  Targets <- ImpersonationTargets
  ReservedNames <- MCReservedNames
  ReservedGroups <- MCReservedGroups
  AllAuthenticated = "system:authenticated"
  AllowedReservedGroups = {"system:nodes"}
  DisableImpersonation = FALSE
  TokenReview = TRUE
INVARIANTS
  OneAccessDecision
  ForwardedIdentity
  TerminalRecordHonest
  GaugesExact
PROPERTY AbandonedRequestsEnd
