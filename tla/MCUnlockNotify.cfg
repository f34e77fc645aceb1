SPECIFICATION FairSpec
CONSTANTS
  Conns = {c1, c2, c3}
  Tables = {t1, t2}
  None = None
  MaxTx = 3
CHECK_DEADLOCK FALSE
INVARIANTS
  TypeOK
  CallbackSafe
  NoLostWakeup
  NoDeadlock
PROPERTIES
  ImplementsBlockedWait
  StatementsEnd
