SPECIFICATION Spec
CONSTANTS
    Depth = 1
    Minor = 1
    Patch = 0
    Candidate = 1
    Items = 2
    Noon = 3
    Validity = 2
    Delay = 2
    Builds = 1
    Ports = {"1", "2"}
    Members = 2
    Groups = 2
INVARIANT OfferedCanBeVerified
CHECK_DEADLOCK FALSE
