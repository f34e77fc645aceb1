SPECIFICATION Spec
CONSTANTS
  Conns = {c1}
  Addresses = {a1, a2, a3}
  MaxObjects <- Bounds
  c1 = c1
  Many = 3
  Few = 3
  None = None
CHECK_DEADLOCK FALSE
INVARIANTS
  CursorNamed
