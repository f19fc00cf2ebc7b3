SPECIFICATION FairSpec
CONSTANTS
  Forwards = {f1, f2, f3}
  Attempts = 2
  MaxDeaths = 2
  f1 = f1
  f2 = f2
  f3 = f3
INVARIANTS
  StoppedOnce
  NobodysKubectl
  StaysOpen
PROPERTY CloseEnds
