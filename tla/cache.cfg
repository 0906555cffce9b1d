SPECIFICATION FairSpec
CONSTANTS
    p1 = p1
    p2 = p2
    rel = rel
    lat = lat
    full = full
    mirror = mirror
    Procs <- MCOne
    Archives <- MCArchives
    Released <- MCReleased
    Manifests <- MCSources
    Lists <- MCLists
    NoProc = NoProc
    Retries = 1
    Growing <- MCGrowing
    Evictable = FALSE
    Amazon2023 = FALSE
    MaxVersion = 2
    MaxFaults = 2
INVARIANTS TypeOK CacheCoherent ImportedIsRecorded ExtractedAsAsked
PROPERTIES RunEnds Heals KeepsPromise
CHECK_DEADLOCK FALSE
