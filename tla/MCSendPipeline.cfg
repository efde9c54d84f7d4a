SPECIFICATION FairSpec
CONSTANTS
    Caller = {a, b}
    MaxAttempts = 3
    MaxDeferrals = 2
    MaxMishaps = 2
INVARIANTS AttemptsAreCalls QueuedIsMoved BudgetRespected
PROPERTIES NoResurrection DecidedOnce Settles
CHECK_DEADLOCK FALSE
