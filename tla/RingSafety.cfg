\* The server stays up; the client reads the driver->user ring and may restart twice; idm_recv's malloc may fail.
CONSTANTS
    Size <- MCSize
    IndexMod <- MCIndexMod
    MaxSends <- MCMaxSends
    MaxServerRestarts = 0
    MaxClientRestarts = 2
    ServerIsProducer = TRUE
    RecvMallocFails = TRUE
SPECIFICATION Spec
INVARIANT TypeOK
INVARIANT OccupancyBound
INVARIANT InOrderDelivery
PROPERTY QueueRefinement
CHECK_DEADLOCK FALSE
