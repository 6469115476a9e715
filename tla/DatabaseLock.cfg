SPECIFICATION Spec
CONSTANTS
    Pids = {p1, p2, p3}
    MaxFiles = 3
INVARIANT SingleHolder
CHECK_DEADLOCK FALSE
