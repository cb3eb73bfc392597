\* Termination, one operation per thread on a prefilled bucket: rcuhtm and
\* retry while transactions abort at will, the others on conflicts only.
CONSTANTS
    Keys = {1, 2}
    t1 = t1
    t2 = t2
    c1 = c1
    c2 = c2
    c3 = c3
    c4 = c4
    Threads <- MCThreads
    Pool <- MCPoolLive
    PHead = PHead
    PTail = PTail
    NULL = NULL
    Preemptible = FALSE
    MaxOps = 1
    InitKeys = {{}, {1}, {2}, {1, 2}}
    Setups <- MCLiveSetups
    NumaIds <- MCNumaIds
    AllocMaySleep = FALSE
    LF_RETRY_LIMIT = 1
SPECIFICATION FairSpec
CHECK_DEADLOCK FALSE
PROPERTIES
    OpCompletes
