SPECIFICATION FairSpec
CONSTANTS
  r1 = r1
  r2 = r2
  a = a
  b = b
  c = c
  Rank = {r1, r2}
  Node = {a, b, c}
  Owner <- OwnerOf
  Hot = {a}
  Runs <- BothRuns
  Windows = 3
  Slots = 2
  MaxSkip = 1
  Epochs = 2
INVARIANT ReadsCommitted
INVARIANT ReplicasAgree
PROPERTY Terminates
