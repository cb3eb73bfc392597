\* forgive, retry and the three flag-lock protocols, with spurious aborts.
CONSTANTS
    Keys = {1, 2}
    t1 = t1
    t2 = t2
    c1 = c1
    c2 = c2
    c3 = c3
    c4 = c4
    Threads <- MCThreads
    Pool <- MCPool
    PHead = PHead
    PTail = PTail
    NULL = NULL
    Preemptible = FALSE
    MaxOps = 0
    InitKeys = {{}}
    Setups <- MCTxFlagSetups
    NumaIds <- MCNumaIds
    AllocMaySleep = FALSE
    LF_RETRY_LIMIT = 0
SPECIFICATION Spec
CONSTRAINT PoolAvailable
SYMMETRY PoolSymmetry
VIEW IdleView
INVARIANTS
    
    QuiescentClean
PROPERTIES
    ReturnsLinearizable
    
