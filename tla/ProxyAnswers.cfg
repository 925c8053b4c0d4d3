\* The driver answers before the client gives up and no backend call fails; every call the shim makes except cuMemcpyDtoD.
CONSTANTS
    user = user
    ClientZone = user
    Zones <- MCZones
    Ptrs <- MCPtrs
    Sizes <- MCSizes
    Word <- MCWord
    MaxInserts <- MCMaxCalls
    MaxCalls <- MCMaxCalls
    Capacity = 2
    MaxAttempts = 2
    ClientOps = {"ALLOC", "FREE", "H2D", "D2H", "SYNC"}
    Offsets = {0}
    ClientTimesOut = FALSE
    BackendFails = FALSE
    MaxDriverRestarts = 0
    MaxClientRestarts = 0
SPECIFICATION FairSpec
PROPERTIES
    EveryCallReturns
    ServiceRefinement
CHECK_DEADLOCK FALSE
