\* Two zones insert and remove handles (their own and each other's) and the driver restarts.
CONSTANTS
    z1 = z1
    z2 = z2
    p1 = p1
    Zones <- MCZones
    Ptrs <- MCPtrs
    Sizes <- MCSizes
    Word <- MCWord
    MaxInserts <- MCMaxInserts
INIT TableInit
NEXT TableNext
INVARIANTS
    TableTypeOK
    StatsAgree
    HandlesDistinct
PROPERTIES
    ZoneIsolation
    MapRefinement
CHECK_DEADLOCK FALSE
