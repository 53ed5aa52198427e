CONSTANTS
    None = None
    Parts = {"stream", "desktop", "actors", "browser", "side"}
    Clients = {"c1", "c2"}
    Runtimes = {"r1"}
    MaxReplay = 2
    MaxBuffered = 1
    Bounds <- FirstOrSecond
    Updates = 2
    ActorRuntimes = {"r1", "r2"}
    Questions = {"i1", "i2"}
SPECIFICATION ServicesSpec
INVARIANTS
    ServicesInv
    NothingMissed
    OneDaemon
    Informed
    
    LiveRuntimeIsHeard
    RemovedStaysDown
    NothingRunsUnobserved
    CancelledNeverRuns
    PendingIsCovered

    
    
    
CHECK_DEADLOCK FALSE
