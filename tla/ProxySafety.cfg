\* Slow driver, lost responses, failing CUDA and malloc calls, one driver restart; every call except cuMemcpyHtoD.
CONSTANTS
    user = user
    ClientZone = user
    Zones <- MCZones
    Ptrs <- MCPtrs
    Sizes <- MCSizes
    Word <- MCWord
    MaxInserts <- MCMaxCalls
    MaxCalls <- MCMaxCalls
    Capacity = 2
    MaxAttempts = 2
    ClientOps = {"ALLOC", "FREE", "D2H", "D2D", "SYNC"}
    Offsets = {0}
    ClientTimesOut = TRUE
    BackendFails = TRUE
    MaxDriverRestarts = 1
    MaxClientRestarts = 0
SPECIFICATION Spec
INVARIANTS
    ProxyTypeOK
    TableEntriesBacked
PROPERTIES
    ResponseMatchesRequest
CHECK_DEADLOCK FALSE
