SPECIFICATION Spec
CONSTANTS
  r1 = r1
  r2 = r2
  a = a
  b = b
  c = c
  Rank = {r1, r2}
  Node = {a, b, c}
  Owner <- OwnerOf
  Hot = {a}
  Runs <- BusyRuns
  Windows = 5
  Slots = 1
  MaxSkip = 0
  Epochs = 1
INVARIANT GroupAtomic
CHECK_DEADLOCK FALSE
