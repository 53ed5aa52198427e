CONSTANTS
    t1 = t1
    t2 = t2
    t3 = t3
    g1 = g1
    g2 = g2
    g3 = g3
    Threads = {t1, t2, t3}
    Main = Main
    Binaries = {b1, b2}
    Servers = {g1, g2}
    None = None
    Unix = FALSE
SPECIFICATION FairSpec
INVARIANTS
    PoolInv
    OneServer
    NoneForgotten
    HandlesStopNothing
    OneWorker
PROPERTIES
    AcquireReturns
    ShutdownEnds
