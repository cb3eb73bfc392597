\* rcuhtm and hwa, the protocols with the rcuspin locking fallback.
CONSTANTS
    Keys = {1, 2}
    t1 = t1
    t2 = t2
    c1 = c1
    c2 = c2
    c3 = c3
    c4 = c4
    Threads <- MCThreads
    Pool <- MCPool
    PHead = PHead
    PTail = PTail
    NULL = NULL
    Preemptible = FALSE
    MaxOps = 0
    InitKeys = {{}}
    Setups <- MCFallbackSetups
    NumaIds <- MCNumaIds
    AllocMaySleep = FALSE
    LF_RETRY_LIMIT = 1
SPECIFICATION Spec
CONSTRAINT PoolAvailable
SYMMETRY PoolSymmetry
VIEW IdleView
INVARIANTS
    TypeOK
    
PROPERTIES
    
    ReturnsLinearizable
