SPECIFICATION FairSpec
CONSTANTS
    Proxies <- EveryProxy
    Chunk = 2
    Record = 3
    Capacity = 3
    Room = 2
    Addresses = 2
    MaxBytes = 3
INVARIANTS TypeOK NothingLost LastWordsForwarded OnlyForTheKnown
PROPERTIES DeliveredUnlessBuffered
CHECK_DEADLOCK FALSE
