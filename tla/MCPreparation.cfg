SPECIFICATION PrepareSpec
CHECK_DEADLOCK FALSE
CONSTANTS
    NumNodes = 4
    NumParts = 3
    Graphs <- MCGraphs
    Topks = {0, 1}
    TopkTypes = {"importance"}
    Backends = {"speed_partition", "round_robin"}
    ChunksPerRank = 2
    Metis <- MCMetis
    Ways <- MCWays
    Cuts <- MCCuts
    Layouts <- MCLayouts
    Labels <- MCLabels
    Horizon = 1
    OneHops = {TRUE, FALSE}
INVARIANTS
    EdgesWithTheirNodes
    WindowsTile
    SlicesReadBack
    RoutesPairUp
    WritesOnce
    TasksOnce
    FeaturesWherePlaced
PROPERTY MastersSpread
