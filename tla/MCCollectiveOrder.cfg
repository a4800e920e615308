CONSTANTS
    Rank = {r1, r2}
    Batches = 2
    Workloads <- KeptInWorkloads
SPECIFICATION FairSpec
INVARIANTS CallsAgree StepsAgree
PROPERTY Terminates
