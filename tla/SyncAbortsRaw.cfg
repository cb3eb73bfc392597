\* The flag-lock benchmarks, whose failed validations call record_abort()
\* with a bare application code.
CONSTANTS
    Benchmarks = {"rcx-htmlock", "rcx-hhtmlock", "rcx"}
    Range = 2
    MaxIter = 2
    MaxAborts = 2
SPECIFICATION Spec
INVARIANT AppReasonsCounted
CHECK_DEADLOCK FALSE
