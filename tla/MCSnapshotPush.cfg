SPECIFICATION FairSpec
CONSTANTS
    WindowSize = 3
    Rank = {r1, r2}
    Splits <- TwoSplits
    Epochs = 2
    MaxSkip = 2
INVARIANTS
    NothingRaises
    AgeBound
    PublicationsArrive
PROPERTY
    Terminates
