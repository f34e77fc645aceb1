SPECIFICATION Spec
CONSTANTS
  Aggregations = {a1, a2, a3}
  CtorMayFail = TRUE
  MaxRows = 2
  MaxObjects = 5
SYMMETRY Symmetry
CHECK_DEADLOCK FALSE
INVARIANTS
  TypeOK
  ResultsRight
  ObjectsSeparate
  NothingLeftBehind
