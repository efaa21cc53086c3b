CONSTANTS
    WordSize = 64
    SegmentSize = 16
    Timelines <- BoundaryTimelines
    Logs <- BoundaryWords
    Segs <- SegmentWords
    MaxParallel = 6
SPECIFICATION Spec
INVARIANT TypeOK
INVARIANT PrefetchFollowsPostgres
INVARIANT RequestComesFirst
CHECK_DEADLOCK FALSE
