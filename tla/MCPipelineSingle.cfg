SPECIFICATION Spec
CONSTANTS
    d1 = d1
    d2 = d2
    w1 = w1
    w2 = w2
    Deliveries <- TwoDeliveries
    Workers <- TwoWorkers
    Daemons <- SetupDaemons
    MaxJobs = 2
    MaxAccepted = 2
    FaultKinds <- NoDuplicates
    MaxFaults = 2
CHECK_DEADLOCK FALSE
PROPERTY LegalTransitions
