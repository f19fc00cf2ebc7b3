SPECIFICATION Spec
CONSTANTS
  Requests = {r1}
  Inputs <- AllInputs
  Targets <- ImpersonationTargets
  ReservedNames <- MCReservedNames
  ReservedGroups <- MCReservedGroups
  AllAuthenticated = "system:authenticated"
  AllowedReservedGroups = {"system:nodes"}
  DisableImpersonation = TRUE
  TokenReview = FALSE
INVARIANT TokenStays
