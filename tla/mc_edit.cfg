SPECIFICATION EditFairSpec
CONSTANTS
  e1 = e1
  e2 = e2
  e3 = e3
  e4 = e4
  here = here
  there = there
  a = a
  b = b
  c = c
  Edits = {e1, e2, e3, e4}
  Keys = {here, there}
  Key <- EditKeys
  Old <- EditOld
  New <- EditNew
  Tokens = {a, b, c}
  Empty = Empty
  Missing = Missing
  Start <- FirstText
  Foreign <- ForeignTexts
  NoEdit = NoEdit
INVARIANTS EditsSerialize NoStrayTemps
PROPERTY EveryEditReturns
\* Every call may have returned.
CHECK_DEADLOCK FALSE
