SPECIFICATION Spec
CONSTANTS
  Queries <- MCQueries
  ArgLists <- MCArgLists
  Prefixes = {":", "@", "$"}
  Positional = Positional
  MaxCalls <- MCMaxCalls
  Several = 4
  a = a
  b = b
CHECK_DEADLOCK FALSE
INVARIANTS
  TypeOK
  BindsRight
  Finalized
  RunInOrder
  TxAgree
