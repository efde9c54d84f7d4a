SPECIFICATION PartSpec
CONSTANTS
    c1 = c1
    f1 = f1
    f2 = f2
    Contact = {c1}
    Flow = {f1, f2}
    Edited = {f1}
    Exec = {1, 2}
    ContactOf <- MCContactOf
    WaitsOf <- MCWaitsOf
    MaxTries = 1
    LoopCap = 2
INVARIANTS
    LeftOnce
    WaitingIsArmed
    OfflineIsQuiet
PROPERTIES
    ImplementsConversation
    NoWaitIsForever
CHECK_DEADLOCK FALSE
