\* rcu-fglock and rcu-numa: an update that inserts or removes returns 1.
CONSTANTS
    Benchmarks = {"rcu-fglock", "rcu-numa"}
    Range = 4
    MaxIter = 2
SPECIFICATION Spec
INVARIANT AbortsAreFailures
CHECK_DEADLOCK FALSE
