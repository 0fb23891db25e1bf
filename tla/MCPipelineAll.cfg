SPECIFICATION Spec
CONSTANTS
    d1 = d1
    d2 = d2
    w1 = w1
    w2 = w2
    Deliveries <- OneDelivery
    Workers <- TwoWorkers
    Daemons <- RowDaemons
    MaxJobs = 1
    MaxAccepted = 1
    FaultKinds <- EveryFault
    MaxFaults = 1
SYMMETRY WorkerSymmetry
INVARIANT
    NoPhantomCompletion
CHECK_DEADLOCK FALSE
