SPECIFICATION Spec
CONSTANTS
  Conns = {c1, c2}
  Addresses = {a1, a2, a3, a4}
  MaxObjects <- Bounds
  c1 = c1
  Many = 4
  Few = 2
  None = None
SYMMETRY Symmetry
CHECK_DEADLOCK FALSE
INVARIANTS
  TypeOK
  CallbackFindsIts
  TargetsLive
  NothingLost
