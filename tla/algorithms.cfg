SPECIFICATION Spec
CONSTANTS
    Depth = 3
    Minor = 1
    Patch = 1
    Candidate = 1
    Items = 2
    Noon = 3
    Validity = 2
    Delay = 2
    Builds = 3
    Ports = {"1", "2"}
    Members = 2
    Groups = 2
INVARIANT NewestThatFits
INVARIANT ExtractsWhatMatches
INVARIANT DeploysWhatIsDescribed
INVARIANT ClientConcludes
CHECK_DEADLOCK FALSE
