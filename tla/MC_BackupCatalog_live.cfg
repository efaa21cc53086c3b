CONSTANTS
    Pods = {p1}
    RetentionPolicy = TRUE
    RetrySteps = 2
    MaxTime = 2
    MaxForeign = 1
    MaxFailovers = 0
    MaxCrashes = 0
SPECIFICATION FairSpec
PROPERTY WindowNeverRegresses
PROPERTY StatusCatchesUp
PROPERTY StaleObjectsGo
