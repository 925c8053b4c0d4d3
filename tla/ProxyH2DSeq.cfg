\* Slow driver; the application calls cuMemcpyHtoD, whose request always carries seq_num 1.
CONSTANTS
    user = user
    ClientZone = user
    Zones <- MCZones
    Ptrs <- MCPtrs
    Sizes <- MCSizes
    Word <- MCWord
    MaxInserts <- MCMaxCalls
    MaxCalls <- MCMaxCalls
    Capacity = 2
    MaxAttempts = 2
    ClientOps = {"ALLOC", "H2D", "SYNC"}
    Offsets = {0}
    ClientTimesOut = TRUE
    BackendFails = FALSE
    MaxDriverRestarts = 0
    MaxClientRestarts = 0
SPECIFICATION Spec
PROPERTIES
    ResponseMatchesRequest
CHECK_DEADLOCK FALSE
