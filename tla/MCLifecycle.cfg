SPECIFICATION Spec
CONSTANTS
  Goroutines = {g1}
  Finalizer = gc
  Stmts = {s1, s2}
  UseClosed = TRUE
  None = None
SYMMETRY Symmetry
CHECK_DEADLOCK FALSE
INVARIANTS
  TypeOK
  InterruptIsolated
PROPERTY CallsTruthful
