SPECIFICATION FairSpec
CONSTANTS
    Ports <- TwoPorts
    BoxPort = 27017
    Requests <- Everything
    MaxCommands = 3
    MaxFaults = 2
INVARIANTS TypeOK PublishedFilesAgree
PROPERTIES KeepsPromise NothingLeft Heals
CHECK_DEADLOCK FALSE
