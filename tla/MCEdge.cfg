SPECIFICATION Spec
CONSTANTS
    Limiters = {"sliding", "advanced", "legacy", "floor", "burst", "quota"}
    ApiNodes = {"n1", "n2"}
    Callers = {"c1", "c2"}
    Limit = 2
    Rate = 1
    Window = 3
    Asks = {1, 2}
    MaxHits = 4
    MaxTime = 3
    MaxOutages = 1
    Http = {"r1"}
    Servers = {"s1", "s2"}
    TokenCalls = {"t1", "t2"}
    TokenLife = 3
    EarlyBy = 2
    Verifications = {"v1", "v2"}
    MaxAge = 3
    MaxCheck = 1
    LastSecond = 4
    SecretTtl = 2
    SharedTtl = 1
    MaxRead = 1
    MaxRotations = 3
INVARIANTS
    LimitsHold
    CredentialsHold
PROPERTY
    ChainIsSound
CHECK_DEADLOCK FALSE
