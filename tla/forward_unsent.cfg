SPECIFICATION Spec
CONSTANTS
  Addresses = {"proxy1", "proxy2", "alice", "bob"}
  Malformed = {"junk"}
  TrustedSets <- MCTrustedSets
  Inbounds <- MCInbounds
  MaxRequests = 1
  Reasons = {"headers_dropped", "reserved_identity", "too_many_impersonation_values"}
  Burst = 1
  Horizon = 0
  MaxWarnings = 1
INVARIANT ForwardedForAsSent
