CONSTANTS
    Jobs = {u1, u2, u3}
    Threads = {t1, t2}
    None = None
SPECIFICATION Spec
CHECK_DEADLOCK FALSE
INVARIANTS FailuresAreComplete
