CONSTANTS
    Pods = {p1}
    RetentionPolicy = TRUE
    RetrySteps = 16
    MaxTime = 2
    MaxForeign = 1
    MaxFailovers = 0
    MaxCrashes = 0
SPECIFICATION Spec
INVARIANT FailureRecorded
