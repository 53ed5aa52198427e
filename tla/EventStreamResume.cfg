CONSTANTS
    c1 = c1
    r1 = r1
    Runtimes = {r1}
    Clients = {c1}
    None = None
    MaxReplay = 2
    MaxBuffered = 2
    Bounds <- Twice
SPECIFICATION Spec
INVARIANTS
    ResumesWithoutLoss
CHECK_DEADLOCK FALSE
