SPECIFICATION MCSpec
CONSTANTS
    Deliveries = {d1}
    Callers = {"worker", "daemon"}
    Serves <- MCServes
    JobIds = {j1}
    MaxRetries = 2
    MaxCount = 3
    MaxAttempts = 2
    MaxFaults = 1
INVARIANT
    RowsAreSound
PROPERTIES
    ImplementsContract
    BuriedForAReason
    PairMovesOn
CHECK_DEADLOCK FALSE
