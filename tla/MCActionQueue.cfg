SPECIFICATION FairSpec
CONSTANTS
    w1 = w1
    w2 = w2
    a1 = a1
    a2 = a2
    a3 = a3
    c1 = c1
    None = None
    Worker = {w1, w2}
    Action = {a1, a2, a3}
    Contact = {c1}
    ContactOf <- MCContactOf
    PayloadOf <- MCPayloadOf
    Erasing = {a2}
    Unhandled = {a3}
    MaxAttempts = 2
    BatchSize = 2
    Backoff = 1
    ZombieAfter = 1
    HandlerLimit = 1
    HoldLimit = 1
    Punctual = FALSE
    MaxRequeues = 1
INVARIANTS
    ClaimsExclusive
    BudgetRespected
    ContactExclusive
PROPERTIES
    ImplementsLifecycle
    EventuallySettled
