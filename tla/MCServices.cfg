SPECIFICATION ServicesSpec
CONSTANTS
    s1 = s1
    r1 = r1
    Subscriber = {s1}
    Enrollment = {1, 2}
    SubscriberOf <- MCSubscriberOf
    Request = {r1}
    MaxSteps = 2
    StepAttempts = 1
    ev1 = ev1
    Event = {ev1}
    Delivery = {1, 2}
    Claimer = {1, 2}
    Period = 2
    Margin = 1
    Patience = 1
    LastMoment = 6
    Automation = {1, 2, 3, 4}
    Restorer = {1, 2}
    PlanLimit = 1
    LastEvent = 2
    Hook = {1, 2}
    Courier = {1, 2}
    FailureLimit = 2
    MaxArms = 3
    Asker = {1, 2}
    MaxMishaps = 2
    JobAttempts = 2
    Sender = {1, 2}
    Price = 2
    Burst = 3
    MaxWait = 1
    Horizon = 3
    Segment = {"g1", "g2"}
    Saver = {1, 2}
    Contact <- MCContact
    FieldType <- MCFieldType
    HasWindow = {"messenger"}
    Folded <- MCFolded
    Within <- MCWithin
    Dawn <- MCDawn
    FilterDocument <- MCFilterDocument
    SegmentDocument <- MCSegmentDocument
    Now0 = 3
    LastNow = 5
    MaxSegmentDepth = 2
    MaxTotalRules = 3
    Call = {1, 2}
    Inbound = {1}
    Hours = 1
    AgentDays = 2
    LastInstant = 3
    Job = {1, 2, 3}
    Click = {1, 2}
    FileRows = 3
    BatchRows = 1
    MaxRows = 2
    MaxClicks = 3
    MaxRepeats = 1
    Reporter = {1, 2}
    MaxReceipts = 4
INVARIANTS
    StepRunsOnce
    ActiveIsArmed
    RoutedOnce
    FiresAreSpaced
    OvershootIsBounded
    NewestEventStands
    DeadEndpointIsOff
    
    ThrottleHolds
    FilterMeansWhatItSays
    GrantsAreEarned
    RowsImportedOnce
    CountersAreRungs
PROPERTIES
    UnsubscribeSticks
    WalksEnd
    EraseComesTrue
CHECK_DEADLOCK FALSE
