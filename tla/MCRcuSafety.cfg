\* The four writer protocols of rcu-hash-list.c, two threads on two NUMA nodes.
CONSTANTS
    Keys = {1, 2}
    t1 = t1
    t2 = t2
    c1 = c1
    c2 = c2
    c3 = c3
    c4 = c4
    Threads <- MCThreads
    Pool <- MCPool
    PHead = PHead
    PTail = PTail
    NULL = NULL
    Preemptible = FALSE
    MaxOps = 0
    InitKeys = {{}}
    Protocols = {"rcu", "rcu-forgive", "rcu-fglock", "rcu-numa"}
    NumaIds <- MCNumaIds
    NumaOf <- MCNumaOf
    AllocMaySleep = FALSE
SPECIFICATION Spec
CONSTRAINT PoolAvailable
SYMMETRY PoolSymmetry
VIEW IdleView
INVARIANTS
    TypeOK
    ListIntegrity
    NoUseAfterFree
    QuiescentClean
PROPERTIES
    ReturnsLinearizable
    RefinesOrderedSet
