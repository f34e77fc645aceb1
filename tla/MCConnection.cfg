SPECIFICATION Spec
CONSTANTS
  Conns = {c1, c2}
  Addresses = {p1, p2, p3, p4}
  AuthFunctions = {authenticate}
  Callbacks = {func}
  DSNs <- EveryPath
  None = None
SYMMETRY Symmetry
CHECK_DEADLOCK FALSE
INVARIANTS
  TypeOK
  CallbackFindsIts
  NothingLeft
  Protected
