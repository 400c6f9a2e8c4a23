SPECIFICATION Spec
CONSTANTS
  Creds = {c1}
  Workers = {w1, w2, w3}
  MaxConcurrent = 2
  Base = 1
  Longest = 2
  Floor = 1
  Quota = 3
  Hints = {1}
  Second = 2
  MaxTime = 3
  MaxVerdicts = 3
  MaxFaults = 1
  MaxRestarts = 1
SYMMETRY Symmetry
INVARIANTS TypeOK ReservationsExact HealthConverges
PROPERTY CooldownServed
CHECK_DEADLOCK FALSE
