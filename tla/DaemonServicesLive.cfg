CONSTANTS
    None = None
    Parts = {"ticker", "stream", "desktop", "actors"}
    Clients = {"c1"}
    Runtimes = {"r1"}
    MaxReplay = 2
    MaxBuffered = 2
    Bounds <- Reconnecting
    Updates = 0
    ActorRuntimes = {"r1"}
    Questions = {"i1"}
SPECIFICATION ServicesFairSpec
PROPERTIES
    StreamEnds
    Recovers
    EveryRequestAnswered
    NoneStarves
    DeliveryEnds
CHECK_DEADLOCK FALSE
