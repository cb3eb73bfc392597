\* rcu-fglock with kmalloc(GFP_KERNEL) allowed to sleep.
CONSTANTS
    Keys = {1, 2}
    t1 = t1
    t2 = t2
    c1 = c1
    c2 = c2
    c3 = c3
    c4 = c4
    Threads <- MCThreads
    Pool <- MCPool
    PHead = PHead
    PTail = PTail
    NULL = NULL
    Preemptible = FALSE
    MaxOps = 0
    InitKeys = {{}}
    Protocols = {"rcu-fglock"}
    NumaIds <- MCNumaIds
    NumaOf <- MCNumaOf
    AllocMaySleep = TRUE
SPECIFICATION Spec
CONSTRAINT PoolAvailable
SYMMETRY PoolSymmetry
INVARIANT
    NoUseAfterFree
