SPECIFICATION Spec
CONSTANTS
  ApiKeys = {a1, a2}
  AdminKeys = {a1}
  Pool = {g1, g2}
  NoKey = NoKey
  MaxEdits = 2
  MaxFaults = 2
  MaxDamage = 1
SYMMETRY Symmetry
INVARIANTS TypeOK GrantsKept RevocationsKept SecretsKept
PROPERTY ImplementsDocument
CHECK_DEADLOCK FALSE
