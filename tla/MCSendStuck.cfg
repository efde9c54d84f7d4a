SPECIFICATION Spec
CONSTANTS
    Caller = {a}
    MaxAttempts = 2
    MaxDeferrals = 0
    MaxMishaps = 1
INVARIANT QueuedIsFound
CHECK_DEADLOCK FALSE
