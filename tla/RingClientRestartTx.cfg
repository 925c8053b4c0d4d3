\* The client (user zone) writes the user->driver ring and may restart twice.
CONSTANTS
    Size <- MCSize
    IndexMod <- MCIndexMod
    MaxSends <- MCMaxSends
    MaxServerRestarts = 0
    MaxClientRestarts = 2
    ServerIsProducer = FALSE
    RecvMallocFails = TRUE
SPECIFICATION Spec
INVARIANT OccupancyBound
INVARIANT InOrderDelivery
CHECK_DEADLOCK FALSE
