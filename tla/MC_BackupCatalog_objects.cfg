CONSTANTS
    Pods = {p1}
    RetentionPolicy = TRUE
    RetrySteps = 2
    MaxTime = 1
    MaxForeign = 0
    MaxFailovers = 0
    MaxCrashes = 0
SPECIFICATION Spec
PROPERTY BackupObjectsKept
