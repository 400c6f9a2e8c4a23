SPECIFICATION Spec
CONSTANTS
  Creds = {c1}
  Callers = {p1}
  Admins = {a1}
  MaxMint = 3
  MaxOps = 2
  MaxFaults = 1
  OperatorEdits = TRUE
INVARIANTS TypeOK NoReuse RotationKept
PROPERTIES NewestLoginWins ImplementsLease
CHECK_DEADLOCK FALSE
