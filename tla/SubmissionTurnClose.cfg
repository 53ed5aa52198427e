CONSTANTS
    s1 = s1
    s2 = s2
    r1 = r1
    r2 = r2
    Submissions = {s1, s2}
    Runtimes = {r1}
    None = None
    Scheduled = FALSE
    MaxCrashes = 0
SPECIFICATION Spec
PROPERTIES
    TurnClosedOnlyWhenOver
