SPECIFICATION Spec
CONSTANTS
    Ports <- TwoPorts
    BoxPort = 27017
    Requests <- Balancing
    MaxCommands = 3
    MaxFaults = 0
INVARIANTS BalancerStopped
CHECK_DEADLOCK FALSE
