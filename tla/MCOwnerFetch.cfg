SPECIFICATION FairSpec
CONSTANTS
  N = 3
  Node = {1, 2, 3, 4, 5}
  Owner <- OwnerOf
  Hot = {2}
  Batches = 2
  Workloads <- MixedWorkloads
INVARIANT FetchesMatch
INVARIANT StateMatches
PROPERTY Terminates
