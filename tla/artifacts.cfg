SPECIFICATION Spec
CONSTANTS
    Retries = 1
    Life = 1
    MaxVersion = 2
    MaxChanges = 1
INVARIANTS TypeOK VerificationHolds LegacyOnlyWithoutAccess
CHECK_DEADLOCK FALSE
