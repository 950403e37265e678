SPECIFICATION FairSpec
CONSTANTS
    NTargets = 2
    NLeaves = 2
    Rows <- MCRows
    Catalog = {"google", "mymemory", "libre"}
    Ready = {"google", "mymemory"}
    Environments <- MCEnvironments
CHECK_DEADLOCK FALSE
INVARIANTS ThrowKeepsFiles ChainSound AbortStopsTargets KeepsText WrittenIsComplete
PROPERTIES ProgressKept RunEnds
