SPECIFICATION FairSpec
CONSTANTS
    Pids = {p1, p2}
    ThreadIds = {1, 2}
    Free = free
    FilesFound = {"absent", "ready"}
    MaxRestarts = 2
PROPERTIES
    EveryAcquireReturns
CHECK_DEADLOCK FALSE
