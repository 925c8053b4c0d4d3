\* The server (driver zone) restarts once while the client reads the driver->user ring.
CONSTANTS
    Size <- MCSize
    IndexMod <- MCIndexMod
    MaxSends <- MCMaxSends
    MaxServerRestarts = 1
    MaxClientRestarts = 0
    ServerIsProducer = TRUE
    RecvMallocFails = FALSE
SPECIFICATION Spec
INVARIANT OccupancyBound
CHECK_DEADLOCK FALSE
