SPECIFICATION FairSpec
CONSTANTS
    c1 = c1
    Conns <- OneConn
    Templates <- AnyCommand
    ReplyLen = 3
    MaxRequests = 3
INVARIANTS TypeOK PauseShowsExactly InstructionsPaired
PROPERTIES RepliesInOrder CommandsComplete
CHECK_DEADLOCK FALSE
