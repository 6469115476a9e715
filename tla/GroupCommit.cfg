SPECIFICATION FairSpec
CONSTANTS
    TxnIds = {x1, x2}
    Owners = {o}
    Helpers = {h}
    MaxBatch = 2
    MaxStarts = 2
    MaxHelps = 1
INVARIANTS
    SuccessIsDurable
PROPERTIES
    ImplementsCommitLog
    EveryCallerReturns
CHECK_DEADLOCK FALSE
