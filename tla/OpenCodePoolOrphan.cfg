CONSTANTS
    t1 = t1
    t2 = t2
    t3 = t3
    g1 = g1
    g2 = g2
    g3 = g3
    Threads = {t1, t2}
    Main = Main
    Binaries = {b1}
    Servers = {g1, g2}
    None = None
    Unix = TRUE
SPECIFICATION Spec
INVARIANTS
    NoOrphan
