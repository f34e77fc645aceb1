SPECIFICATION FairSpec
CONSTANTS
  Goroutines = {g1, g2}
  Finalizer = gc
  Stmts = {s1}
  UseClosed = FALSE
  None = None
CHECK_DEADLOCK FALSE
INVARIANTS
  
  FailuresAreReset
  ClosedIsFinalized
  NobodyStuck
PROPERTIES
  ApiObeyed
  CallsReturn
