\* Three CPU ids on up to three NUMA nodes, any of them online without CPUs.
CONSTANTS
    NrCpuIds = 3
    MAX_NUMNODES = 3
SPECIFICATION Spec
INVARIANT BindsCompactly
\* cpubind_numa_arr() returns after nr_threads iterations
CHECK_DEADLOCK FALSE
