SPECIFICATION FairSpec
CONSTANTS
  Creds = {c1}
  Callers = {p1}
  Admins = {a1}
  MaxMint = 3
  MaxOps = 1
  MaxFaults = 0
  OperatorEdits = TRUE
PROPERTY CallersFinish
CHECK_DEADLOCK FALSE
