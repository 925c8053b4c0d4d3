\* A user-zone program that builds its own copy requests, with offset 0 or 2^64 - 1; nothing fails and nothing restarts.
CONSTANTS
    user = user
    ClientZone = user
    Zones <- MCZones
    Ptrs <- MCPtrs
    Sizes <- MCSizes
    Word <- MCWord
    MaxInserts <- MCMaxCalls
    MaxCalls <- MCMaxCalls
    Capacity = 2
    MaxAttempts = 2
    ClientOps = {"ALLOC", "H2D", "D2H"}
    Offsets <- MCOffsets
    ClientTimesOut = FALSE
    BackendFails = FALSE
    MaxDriverRestarts = 0
    MaxClientRestarts = 0
SPECIFICATION Spec
PROPERTIES
    OutOfBoundsRejected
CHECK_DEADLOCK FALSE
