SPECIFICATION CallsSpec
CONSTANTS
    Calls = {"c1", "c2", "c3"}
    Threshold = 3
    SuccessThreshold = 2
    ResetTimeout = 2
    MaxAge = 3
    Targets = {"d1"}
    Users = {"u1", "u2"}
    MaxNoted = 7
    Callers = {"guarded", "bare"}
    Guarded = {"guarded"}
    MaxAttempts = 2
    Timeout = 8
    OpTimeout = 1
    Strategy = "EXPONENTIAL"
    Errors <- MCErrors
    RedisCallers = {"r1", "r2", "r3"}
    MaxClients = 4
    DbCallers = {"p1", "p2"}
    MaxTries = 3
    Sites = {"s1", "s2"}
    VolumeThreshold = 3
    MaxWindow = 6
    Starters = {"n1", "n2"}
    Migrations = 2
    MaxMishaps = 1
INVARIANTS
    CountersBelongToState
    MetricsTellTheBreaker
    ClassifiersAgree
    SetupIsSafe
PROPERTIES
    OpenForWholeTimeout
    ClosesWhenHealthy
    RetriesAreSound
    ConnectionsAreSound
CHECK_DEADLOCK FALSE
