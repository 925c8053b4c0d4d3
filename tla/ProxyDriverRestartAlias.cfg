\* The driver restarts once while the application holds handles.
CONSTANTS
    user = user
    ClientZone = user
    Zones <- MCZones
    Ptrs <- MCPtrs
    Sizes <- MCSizes
    Word <- MCWord
    MaxInserts <- MCMaxCalls
    MaxCalls <- MCMaxCalls
    Capacity = 2
    MaxAttempts = 2
    ClientOps = {"ALLOC", "FREE", "D2H"}
    Offsets = {0}
    ClientTimesOut = FALSE
    BackendFails = FALSE
    MaxDriverRestarts = 1
    MaxClientRestarts = 0
SPECIFICATION Spec
INVARIANTS
    ClientHandlesStable
CHECK_DEADLOCK FALSE
