SPECIFICATION MCSpec
CONSTANTS
  Requests = {r1, r2}
  Tokens = {t1, t2}
  Configs <- TTLs
  Timeout = 1
  CacheSize = 1
  Horizon = 3
  MaxChanges = 1
INVARIANT VerdictBound
PROPERTIES
  EveryReviewEnds
  ImplementsDecision
