SPECIFICATION Spec
CONSTANTS
  small = small
  mid = mid
  func = func
  NoFile = NoFile
  Garbage = Garbage
  NumNames = 2
  Values = {small, mid, func}
  Unsavable = {func}
  Size <- SizeOfValue
  Limits <- SmallLimits
  Manifested = {TRUE, FALSE}
  Damages = TRUE
  MaxSnapshots = 2
INVARIANTS TypeOK PlanSound PromiseKept
PROPERTIES PrunedOnlyOnceWritten
