SPECIFICATION Spec
CONSTANTS
  N = 3
  Node = {1, 2, 3, 4, 5}
  Owner <- OwnerOf
  Hot = {2}
  Batches = 1
  Workloads <- VisitOrder
INVARIANT StateMatches
CHECK_DEADLOCK FALSE
