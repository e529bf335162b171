SPECIFICATION Spec
CONSTANTS
  r1 = r1
  r2 = r2
  r3 = r3
  Reqs = {r1, r2, r3}
  NoReq = NoReq
  Work <- WorkMixed
  QueueCap = 2
  TableCap = 1
  StdinCap = 2
  SentAfter <- AnyOrder
  MaxInterrupts = 1
  HostCancels = TRUE
  GraceExpires = TRUE
INVARIANTS AtMostOneDone DoneOrder InterruptDelivered NoSpuriousInterrupt DrainCompletes
PROPERTY ImplementsService
\* The kernel stops for good once Run has returned.
CHECK_DEADLOCK FALSE
