SPECIFICATION Spec
CONSTANTS
    Retries = 1
    Life = 1
    MaxVersion = 1
    MaxChanges = 0
INVARIANTS FallsBack
CHECK_DEADLOCK FALSE
