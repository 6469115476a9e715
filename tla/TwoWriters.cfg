\* Two threads of one process commit at once.
SPECIFICATION Spec
CONSTANTS
    Pids = {p1, p2}
    ThreadIds = {1, 2}
    Free = free
    FilesFound = {"absent", "ready"}
    MaxRestarts = 2
INVARIANT OneWriter
CHECK_DEADLOCK FALSE
