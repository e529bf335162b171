SPECIFICATION FairSpec
CONSTANTS
  e1 = e1
  e2 = e2
  e3 = e3
  NoExec = NoExec
  Execs = {e1, e2}
  Cell <- CellMixed
  SendCap = 1
  RegCap = 1
  QueueCap = 1
  OutCap = 2
  MaxText = 1
INVARIANT NoCircularWait
INVARIANT ResultComplete
PROPERTY EveryExecuteReturns
\* Every Execute may have returned.
CHECK_DEADLOCK FALSE
