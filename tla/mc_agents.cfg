SPECIFICATION FairSpec
CONSTANTS
  k1 = k1
  k2 = k2
  worker = worker
  helper = helper
  m1 = m1
  m2 = m2
  Root = Root
  Children = {k1, k2}
  Names = {worker, helper}
  Messages = {m1, m2}
  None = None
  InboxCap = 1
  Rounds = 2
INVARIANTS RosterAgrees MessagesReachRoot
PROPERTY HostAnswers
\* The harness exits.
CHECK_DEADLOCK FALSE
