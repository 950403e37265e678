SPECIFICATION FairSpec
CONSTANTS
    N = 5
    Concurrency = 9
    WorkersCap = 3
    SpinCap = 5
    RunMayReject = TRUE
    ConsumerMayReject = TRUE
    SignalMayAbort = TRUE
CHECK_DEADLOCK FALSE
INVARIANTS TypeOK WindowBound LongestPrefixDelivered NeverStalls
PROPERTIES NoRunAfterAbort ImplementsDelivery
