SPECIFICATION Spec
CONSTANTS
  Creds = {c1}
  Workers = {w1, w2, w3}
  MaxConcurrent = 2
  Base = 1
  Longest = 2
  Floor = 1
  Quota = 3
  Hints = {1}
  Second = 2
  MaxTime = 3
  MaxVerdicts = 3
  MaxFaults = 0
  MaxRestarts = 1
SYMMETRY Symmetry
INVARIANT OpenWithinLimit
CHECK_DEADLOCK FALSE
