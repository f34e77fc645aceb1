SPECIFICATION Spec
CONSTANTS
  Queries <- MCQueries
  ArgLists <- MCArgLists
  Prefixes = {":", "@", "$"}
  Positional = Positional
  MaxCalls <- MCMaxCalls
  Several = 1
  a = a
  b = b
CHECK_DEADLOCK FALSE
INVARIANTS
  AppendsOnlyOthers
