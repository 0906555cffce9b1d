SPECIFICATION Spec
CONSTANTS
    Servers = {"mongod", "mongos"}
    PinSets = {"4.2"}
    MaxRuns = 2
    MaxCommits = 1
    MaxFaults = 1
INVARIANT TypeOK
INVARIANT RunsTheCommittedPin
INVARIANT FallsBackForTheNode
INVARIANT DeploysItsOwnServers
CHECK_DEADLOCK FALSE
