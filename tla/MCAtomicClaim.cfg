SPECIFICATION Spec
CONSTANTS
    Workers = {v, w}
    Tasks = {x}
    Leases = {1, 2}
    MaxExtensions = 1
    NoClaim = noclaim
    MaxClock = 3
    MaxInstance = 4
INVARIANTS
    ExclusiveLease
PROPERTIES
    LeaseEndsOnlyByOwner
SYMMETRY Symmetry
CHECK_DEADLOCK FALSE
