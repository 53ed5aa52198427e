CONSTANTS
    t1 = t1
    Tasks = {t1}
    Schedules <- Kinds
    Day = 2
    Grace = 0
    Batch = 1
    Scan = 1
    None = None
    MaxRuns = 2
    MaxTotal = 2
    Horizon = 3
    Budgets <- Few
SPECIFICATION Spec
INVARIANTS
    TasksInv
    HonestHistory
    DueOnce
    ClaimsGoThrough
PROPERTIES
    PausedNeverStarts
