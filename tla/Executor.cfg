SPECIFICATION Spec
CONSTANTS
  Creds = {c1, c2}
  Requests = {r1, r2}
  Tokens = {t1, t2}
  MaxAttempts = 2
  MaxChanges = 1
  None = None
SYMMETRY Symmetry
INVARIANTS TypeOK SentAsStored PlacesReturned BlamedNotRetried
