CONSTANTS
    InitialRoles = {"primary", "standby", "recovering"}
    SourceStreaming = FALSE
    WalMaxParallel = 3
    Operators = {"legacy", "current"}
    CheckEnabled = TRUE
    SegmentsInFile = 16
    LastSegment = 3
    LastTimeline = 3
    MaxDemotions = 1
    MaxCrashes = 1
SPECIFICATION Spec
INVARIANT TypeOK
INVARIANT ArchivedIsStored
INVARIANT RestoredIsSegment
INVARIANT RewindLeavesNoFlag
INVARIANT RewindSeesArchive
INVARIANT RecoversToTheEnd
PROPERTY NeverMixesArchives
PROPERTY ImplementsWalArchive
CHECK_DEADLOCK FALSE
