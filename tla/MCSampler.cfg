SPECIFICATION Spec
CONSTANTS
    Threads = 2
    Fanouts <- MCFanouts
    LocalPart = 0
    EdgePart <- MCEdgePart
    NodePart <- MCNodePart
    Hot = {1}
    Bits <- MCBits
    Keep <- MCKeep
    ThreadDraw <- MCThreadDraw
    Printed <- MCPrinted
    Graphs <- MCGraphs
    NumNodes = 3
    Changes <- MCChanges
    Uniques = {}
    Pickled = {TRUE, FALSE}
    Seeds = {1}
    UsedPolicies = {"recent", "uniform", "boundery_recent_decay", "boundery_recent_uniform"}
    RootLists <- MCRoots
    Histories <- MCHistories
    Modes = {"serial", "compact", "compact_raw_edges", "compact_node_ids", "parallel"}
    DistIndex <- MCDistIndex
    World = 2
    MaxCalls = 2
INVARIANTS
    SampledFromThePast
    RecentIsNewest
    ThreadsAgree
    OutputDescribesSample
CHECK_DEADLOCK FALSE
