SPECIFICATION Spec
CONSTANTS
    p1 = p1
    p2 = p2
    rel = rel
    lat = lat
    full = full
    mirror = mirror
    Procs <- MCPair
    Archives <- MCLatestOnly
    Released = {}
    Manifests <- MCOneSource
    Lists <- MCLists
    NoProc = NoProc
    Retries = 0
    Growing <- MCGrowing
    Evictable = TRUE
    Amazon2023 = TRUE
    MaxVersion = 2
    MaxFaults = 1
SYMMETRY MCSymmetry
INVARIANTS NoLostRefresh
CHECK_DEADLOCK FALSE
