CONSTANTS
    Rank = {r1, r2}
    Batches = 2
    Workloads <- ReplayWorkloads
SPECIFICATION Spec
INVARIANT CallsAgree
CHECK_DEADLOCK FALSE
