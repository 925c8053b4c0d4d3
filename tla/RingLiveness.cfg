\* No restarts; the malloc of idm_recv never fails; the consumer loops forever.
CONSTANTS
    Size <- MCSize
    IndexMod <- MCIndexMod
    MaxSends <- MCMaxSends
    MaxServerRestarts = 0
    MaxClientRestarts = 0
    ServerIsProducer = TRUE
    RecvMallocFails = FALSE
SPECIFICATION FairSpec
PROPERTY EveryMessageReceived
CHECK_DEADLOCK FALSE
