SPECIFICATION Spec
CONSTANTS
  MaxLines = 5
  MaxOpen = 2
  Sources <- SmallSources
INVARIANTS KeepsCode CutsAtDeclarations
\* The loop ends.
CHECK_DEADLOCK FALSE
