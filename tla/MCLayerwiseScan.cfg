SPECIFICATION FairSpec
CONSTANTS
  a = a
  b = b
  Rank = {a, b}
  Rows <- OwnerRows
  Layers = 3
  ChunkCount = 2
  Decay <- Halving
  NumFull = 1
  FullLimit <- NoLimit
  LastWindow = 2
  Modes <- AllModes
INVARIANT ExchangesMatch
INVARIANT StateFollowsNode
PROPERTY Terminates
