\* Two buckets with up to two keys each, as a run leaves them.
CONSTANTS
    NBuckets = 2
    MaxLen = 2
    NULL = NULL
    Garbage = Garbage
SPECIFICATION Spec
INVARIANT DerefsLive
\* the teardown stops at "done", or at "oops" after a wild dereference
CHECK_DEADLOCK FALSE
