SPECIFICATION FairSpec
CONSTANTS
    h1 = h1
    h2 = h2
    s1 = s1
    s2 = s2
    Hosts <- TwoHosts
    Names <- TwoNames
    NoName = NoName
    Kinds <- MCKinds
    Threshold = 1
    PageSize = 1
    Polls = 1
    MaxFaults = 1
INVARIANTS TypeOK VerifiedAsNamed ProfileOutlastsSetup InUseNotCollected
PROPERTIES AssetsReleased LeaksCollected
CHECK_DEADLOCK FALSE
