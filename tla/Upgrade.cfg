CONSTANTS
    Running = 1
    Newer = {2, 3}
    SizeOf <- ThreeThenTwo
    FirstImageBlock = 1
    SectorPieces = 2
    EventCapacity = 4
    Notes = {3}
    FlashFails = TRUE
    Ordered = TRUE
    Burst = 3
    InFlight = 2
SPECIFICATION FairSpec
INVARIANTS
    TypeOK
    
    
PROPERTY DownloadEnds
