SPECIFICATION IntakeSpec
CONSTANTS
    q1 = q1
    q2 = q2
    q3 = q3
    k1 = k1
    e1 = e1
    Requests = {q1, q2, q3}
    Keys = {k1}
    Dests = {"d1", "d2"}
    Events = {e1}
    Route <- MCRoute
    KeyOf <- MCKeyOf
    EventOf <- MCEventOf
    FlawsOf <- MCFlawsOf
    MaxChanges = 2
    MaxFaults = 1
    Deliveries = {"good", "odd"}
    Undatable = {"odd"}
    Operators = {"o1", "o2"}
    Attempts = 2
    MaxId = 1
    MaxRefused = 1
INVARIANTS
    IntakeIsComplete
    LaterDuplicatesStoreNothing
PROPERTY
    JobsAreKept
CHECK_DEADLOCK FALSE
