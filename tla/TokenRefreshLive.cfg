SPECIFICATION FairSpec
CONSTANTS
  Creds = {c1}
  Callers = {p1}
  Admins = {a1}
  MaxMint = 4
  MaxOps = 1
  MaxFaults = 1
  OperatorEdits = FALSE
INVARIANT CacheRepaired
PROPERTY CallersFinish
CHECK_DEADLOCK FALSE
