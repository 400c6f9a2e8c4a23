SPECIFICATION Spec
CONSTANTS
  Creds = {c1, c2}
  Retention = 1
  Minimum = 2
  Percent = 100
  Confirmations = 2
  Concurrency = 1
  Batch = 2
  MaxTime = 3
  MaxEdits = 2
  MaxRefreshes = 1
SYMMETRY Symmetry
INVARIANTS TypeOK QuarantineCoherent
PROPERTIES PurgeJustified LaterChangeWins SettingsInForce GuardHolds
