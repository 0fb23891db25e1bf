SPECIFICATION Spec
CONSTANTS
    SloTargets = {600, 999, 1000}
    Percentile = 50
    LatencyWindow = 4
    MaxTracked = 5
    Attributes = {"x", "y"}
    MaxGauge = 2
    Items <- MCItems
    ScoreRuns = {"s1", "s2"}
    MaxEvents = 3
    KeepDays = 1
    MaxHops = 4
    Tasks = {"t1", "t2"}
    MaxNesting = 1
    MaxMounts = 3
    MaxPolls = 2
    MaxLoads = 3
    Failed = {"d1"}
    MaxClicks = 3
    MaxReloads = 1
    Hosts = {"h1", "h2"}
    Stoppers = {"k1", "k2"}
    Threshold = 2
    MaxDead = 3
    MaxCycles = 2
    MaxMisses = 1
    Counted = {"c1", "c2", "c3"}
    MaxMoves = 2
INVARIANT OneHostLeads
CHECK_DEADLOCK FALSE
