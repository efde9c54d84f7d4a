SPECIFICATION FairSpec
CONSTANTS
    Audience = 2
    ChunkSize = 2
    MaxMishaps = 1
    MaxCancels = 1
INVARIANTS SentOnce AnnouncedIfSent PendingIsArmed
PROPERTIES SentStands ComesToRest
CHECK_DEADLOCK FALSE
