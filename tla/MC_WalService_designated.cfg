CONSTANTS
    InitialRoles = {"designated"}
    SourceStreaming = TRUE
    WalMaxParallel = 2
    Operators = {"legacy", "current"}
    CheckEnabled = TRUE
    SegmentsInFile = 16
    LastSegment = 2
    LastTimeline = 1
    MaxDemotions = 0
    MaxCrashes = 0
SPECIFICATION Spec
INVARIANT ArchivedIsStored
CHECK_DEADLOCK FALSE
