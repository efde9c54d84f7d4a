SPECIFICATION FairSpec
CONSTANTS
    None = None
    Worker = {w}
    Ticking = {}
    Row = {r1, r2, r3, r4, r5, r6}
    w = w
    r1 = r1  r2 = r2  r3 = r3  r4 = r4  r5 = r5  r6 = r6
    TicksPerHour = 3
    ZombieAfter = 1
    Backoff = 1
    MaxAttempts = 2
    SweepLimit = 1
    MaxCrashes = 1
    MaxBreaks = 0
    MaxRequeues = 0
PROPERTIES SweepsContinue
