CONSTANTS
    InitialRoles = {"primary", "standby", "recovering"}
    SourceStreaming = FALSE
    WalMaxParallel = 3
    Operators = {"legacy"}
    CheckEnabled = TRUE
    SegmentsInFile = 2
    LastSegment = 3
    LastTimeline = 1
    MaxDemotions = 0
    MaxCrashes = 1
SPECIFICATION FairSpec
PROPERTY CatchesUp
PROPERTY ReadyIsArchived
CHECK_DEADLOCK FALSE
