SPECIFICATION FairSpec
CONSTANTS
  c1 = c1
  c2 = c2
  c3 = c3
  Calls = {c1, c2, c3}
  CmdCap = 1
  WriterCap = 1
  MaxReplies = 2
  OutBreaks = TRUE
  Unmarshalable = {c3}
INVARIANTS RegistryNeverBlocks NoLeak NoReplyLost
PROPERTIES ImplementsRemoteCall EveryCallReturns WaitingCallEnds
\* Every call may have returned.
CHECK_DEADLOCK FALSE
