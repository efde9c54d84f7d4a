SPECIFICATION Spec
CONSTANTS
    Audience = 3
    ChunkSize = 2
    MaxMishaps = 0
    MaxCancels = 0
INVARIANTS SentIsComplete
CHECK_DEADLOCK FALSE
