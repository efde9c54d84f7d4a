SPECIFICATION Spec
CONSTANTS
    Audience = 2
    ChunkSize = 2
    MaxMishaps = 0
    MaxCancels = 1
PROPERTIES CancelStands
CHECK_DEADLOCK FALSE
