SPECIFICATION FairSpec
CONSTANTS
  Addresses = {"proxy1", "proxy2", "alice", "bob"}
  Malformed = {"junk"}
  TrustedSets <- MCTrustedSets
  Inbounds <- MCInbounds
  MaxRequests = 3
  Reasons = {"headers_dropped", "reserved_identity", "too_many_impersonation_values"}
  Burst = 1
  Horizon = 1
  MaxWarnings = 3
INVARIANTS
  EveryWarningCounted
  EmissionRate
  OneClientAddress
  RecordFaithful
PROPERTIES
  SuppressedIsReported
