SPECIFICATION FairSpec
CONSTANTS
  c1 = c1
  c2 = c2
  c3 = c3
  g1 = g1
  x = x
  y = y
  fmt = fmt
  nosuch = nosuch
  NoCell = NoCell
  Cells = {c1, c2, c3}
  Goroutines = {g1}
  Names = {x, y}
  Packages = {fmt, nosuch}
  Available = {fmt}
  Code <- CodeCalls
  HostAnswers = TRUE
INVARIANTS MirrorSound RootedCallSurvives OutputAttributed ImportsBound
PROPERTIES InterruptEndsCell
