CONSTANTS
    s1 = s1
    s2 = s2
    r1 = r1
    r2 = r2
    Submissions = {s1}
    Runtimes = {r1, r2}
    None = None
    Scheduled = FALSE
    MaxCrashes = 1
SPECIFICATION Spec
INVARIANTS
    AtMostOnePost
    FailureIsFinal
PROPERTIES
    ReceiptsOnlyAdvance
    TurnClosedOnlyWhenOver
    KeepsPromise
SYMMETRY Symmetry
