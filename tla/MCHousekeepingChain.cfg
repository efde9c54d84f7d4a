SPECIFICATION FairSpec
CONSTANTS
    None = None
    Worker = {w, t}
    Ticking = {t}
    Row = {r1, r2, r3, r4, r5, r6}
    w = w  t = t
    r1 = r1  r2 = r2  r3 = r3  r4 = r4  r5 = r5  r6 = r6
    TicksPerHour = 3
    ZombieAfter = 1
    Backoff = 1
    MaxAttempts = 2
    SweepLimit = 1
    MaxCrashes = 1
    MaxBreaks = 1
    MaxRequeues = 1

PROPERTIES SweepLeavesNext SweepsContinue ChainsConverge
