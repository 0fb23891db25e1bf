SPECIFICATION FairSpec
CONSTANTS
    d1 = d1
    d2 = d2
    w1 = w1
    w2 = w2
    Deliveries <- OneDelivery
    Workers <- OneWorker
    Daemons <- SetupDaemons
    MaxJobs = 2
    MaxAccepted = 2
    FaultKinds <- EveryFault
    MaxFaults = 0
CHECK_DEADLOCK FALSE
PROPERTY ZeroMessageLoss
