CONSTANTS
    s1 = s1
    s2 = s2
    r1 = r1
    r2 = r2
    Submissions = {s1}
    Runtimes = {r1}
    None = None
    Scheduled = TRUE
    MaxCrashes = 0
SPECIFICATION FairSpec
PROPERTIES
    ClaimIsResolved
