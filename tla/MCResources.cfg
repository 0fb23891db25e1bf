SPECIFICATION ResourceSpec
CONSTANTS
    ExecCallers = {"e1", "e2", "e3"}
    TicketCallers = {"t1", "t2"}
    Patient = {"e1"}
    MaxConcurrent = 2
    MaxQueueSize = 2
    Writers = {"c1", "c2"}
    ByHand = {"c2"}
    Rows = {"r1", "r2"}
    MaxTries = 2
    Recorders = {"k1", "k2"}
    MaxAttempts = 3
    PageSize = 2
    MaxRows = 5
    Fetchers = {"f1", "f2"}
    CacheTtl = 2
    MaxFlight = 1
    MaxVersions = 3
    Cleaners = {"k1", "k2"}
    EntryTtl = 2
    MaxClock = 6
    MaxFailures = 2
INVARIANTS
    SlotConservation
    NoLostWakeup
    MetricsNeverOvercount
    TransactionsAreHonest
    AttemptsAreNumbered
    WalksMissNothing
PROPERTIES
    FifoGrant
    PatientServed
    CallsEnd
    CachesKeepTime
CHECK_DEADLOCK FALSE
