SPECIFICATION Spec
CONSTANTS
  Conns = {c1, c2}
  Addresses = {a1, a2}
  None = None
  GC = GC
  Masks <- TwoMasks
  MaxSets = 2
SYMMETRY Symmetry
CHECK_DEADLOCK FALSE
INVARIANTS
  TypeOK
  TableIsExact
  CallbackInForce
  OwnEventsFound
