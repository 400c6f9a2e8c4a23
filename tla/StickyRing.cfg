SPECIFICATION Spec
CONSTANTS
  Keys = {k1, k2, k3, k4}
  Creds = {c1, c2}
  MaxBindings = 3
  TTL = 2
  MaxTime = 4
SYMMETRY Symmetry
INVARIANTS TypeOK Bounded EveryBindingSlotted
