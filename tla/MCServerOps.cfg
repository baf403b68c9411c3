SPECIFICATION OpsSpec
CONSTANTS
    Scripts = {s1, s2}
    MaxScripts = 4
    MaxOverlaps = 1
    MaxStops = 1
    MaxRuns = 3
    MaxMishaps = 2
SYMMETRY Symmetry
INVARIANTS
    ServerAgrees
    RollbackGoesBack
    SetupConverges
CHECK_DEADLOCK FALSE
