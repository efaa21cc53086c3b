CONSTANTS
    InitialRoles = {"designated"}
    SourceStreaming = TRUE
    WalMaxParallel = 2
    Operators = {"legacy"}
    CheckEnabled = TRUE
    SegmentsInFile = 16
    LastSegment = 2
    LastTimeline = 2
    MaxDemotions = 0
    MaxCrashes = 1
SPECIFICATION FairSpec
PROPERTY CatchesUp
CHECK_DEADLOCK FALSE
