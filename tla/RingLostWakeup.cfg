\* No restarts; the malloc of idm_recv may fail; the consumer loops forever.
CONSTANTS
    Size <- MCSize
    IndexMod <- MCIndexMod
    MaxSends <- MCMaxSends
    MaxServerRestarts = 0
    MaxClientRestarts = 0
    ServerIsProducer = TRUE
    RecvMallocFails = TRUE
SPECIFICATION FairSpec
PROPERTY EveryMessageReceived
CHECK_DEADLOCK FALSE
