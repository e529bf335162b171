SPECIFICATION FairSpec
CONSTANTS
  t1 = t1
  t2 = t2
  Calls = {t1, t2}
  Cell <- CellPair
  NoCall = NoCall
INVARIANTS TypeOK ResultTrue
PROPERTIES StartSettles ExecuteSettles
\* Every call may have returned.
CHECK_DEADLOCK FALSE
