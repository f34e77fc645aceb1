SPECIFICATION Spec
CONSTANTS
  Conns = {c1}
  Addresses = {a1}
  None = None
  GC = GC
  Masks <- TwoMasks
  MaxSets = 1
CHECK_DEADLOCK FALSE
INVARIANTS
  MappingFound
