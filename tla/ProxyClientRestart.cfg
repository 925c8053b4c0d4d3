\* Slow driver, lost responses, failing CUDA and malloc calls, every call; the application restarts once.
CONSTANTS
    user = user
    ClientZone = user
    Zones <- MCZones
    Ptrs <- MCPtrs
    Sizes <- MCSizes
    Word <- MCWord
    MaxInserts <- MCMaxCalls
    MaxCalls <- MCMaxCalls
    Capacity = 2
    MaxAttempts = 2
    ClientOps = {"ALLOC", "FREE", "H2D", "D2H", "D2D", "SYNC"}
    Offsets = {0}
    ClientTimesOut = TRUE
    BackendFails = TRUE
    MaxDriverRestarts = 0
    MaxClientRestarts = 1
SPECIFICATION Spec
INVARIANTS
    ClientHandlesStable
CHECK_DEADLOCK FALSE
