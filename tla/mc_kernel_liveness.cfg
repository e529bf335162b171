SPECIFICATION FairSpec
CONSTANTS
  r1 = r1
  r2 = r2
  r3 = r3
  Reqs = {r1, r2, r3}
  NoReq = NoReq
  Work <- WorkEndless
  QueueCap = 1
  TableCap = 1
  StdinCap = 1
  SentAfter <- LastR3
  MaxInterrupts = 1
  HostCancels = TRUE
  GraceExpires = TRUE
PROPERTIES InterruptEnds RunTerminates EveryRequestAnswered
           InterruptsReachTable
\* The kernel stops for good once Run has returned.
CHECK_DEADLOCK FALSE
