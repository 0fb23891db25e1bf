SPECIFICATION PlatformSpec
CONSTANTS
    None = None
    Nodes = {"n1", "n2", "n3"}
    LeaseTicks = 3
    MaxWire = 3
    Timely = TRUE
    Flaky = {"n1"}
    MaxRequests = 2
    MaxSignals = 3
    Cycles = {"c1", "c2"}
    Beaters = {"w1", "w2"}
    KeyTtl = 3
    BeatEvery = 1
    Threshold = 4
    MinConcurrency = 1
    MaxConcurrency = 5
    Adjusters = {"a1", "a2"}
    MaxDepth = 3
INVARIANT
    LeadersAreUnique
PROPERTIES
    OnlyOwnLease
    ShutdownsAreOrderly
    OperatorsAreTold
    PresenceIsTold
    LoadIsJudged
CHECK_DEADLOCK FALSE
