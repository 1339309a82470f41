SPECIFICATION FairServerSpec
CONSTANTS
    c1 = c1
    c2 = c2
    NoCall = NoCall
    Calls <- TwoCalls
    MaxAuditFailures = 1
INVARIANTS
    ServerTypeOK
    BegunIsLocked
    AnswersAreRecorded
PROPERTIES
    StopSparesWorkers
    CallsEnd
    StopEnds
CHECK_DEADLOCK FALSE
