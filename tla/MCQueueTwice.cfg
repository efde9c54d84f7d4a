SPECIFICATION Spec
CONSTANTS
    w1 = w1
    w2 = w2
    a1 = a1
    a2 = a2
    a3 = a3
    c1 = c1
    None = None
    Worker = {w1, w2}
    Action = {a1, a2, a3}
    Contact = {c1}
    ContactOf <- MCNoContact
    PayloadOf <- MCNoContact
    Erasing = {}
    Unhandled = {}
    MaxAttempts = 2
    BatchSize = 3
    Backoff = 0
    ZombieAfter = 2
    HandlerLimit = 2
    HoldLimit = 4
    Punctual = TRUE
    MaxRequeues = 0
SYMMETRY WorkerSymmetry
INVARIANT RunsAtMostOnce
