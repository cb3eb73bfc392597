\* Every benchmark with an abort path (rcu-fglock and rcu-numa are
\* checked by SyncTestFgTally): the driver's counters and the abort
\* counters under the aborts each protocol can take.
CONSTANTS
    Benchmarks = {"rcu", "rcu-forgive", "rcuhtm", "forgive", "retry", "hwa",
                  "rcx-htmlock", "rcx-hhtmlock", "rcx"}
    Range = 2
    MaxIter = 2
    MaxAborts = 2
SPECIFICATION Spec
INVARIANTS
    AbortsAreFailures
    DriverAbortsRecorded
\* the measured loop ends after MaxIter iterations
CHECK_DEADLOCK FALSE
