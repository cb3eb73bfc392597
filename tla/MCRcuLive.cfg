\* Termination of the fine-grained protocols: one operation per thread on a
\* bucket that the half fill left holding any of the two keys.
CONSTANTS
    Keys = {1, 2}
    t1 = t1
    t2 = t2
    c1 = c1
    c2 = c2
    c3 = c3
    c4 = c4
    Threads <- MCThreads
    Pool <- MCPoolLive
    PHead = PHead
    PTail = PTail
    NULL = NULL
    Preemptible = FALSE
    MaxOps = 1
    InitKeys = {{}, {1}, {2}, {1, 2}}
    Protocols = {"rcu-fglock", "rcu-numa"}
    NumaIds <- MCNumaIds
    NumaOf <- MCNumaOf
    AllocMaySleep = FALSE
SPECIFICATION FairSpec
CHECK_DEADLOCK FALSE
PROPERTIES
    OpCompletes
