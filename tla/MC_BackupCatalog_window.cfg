CONSTANTS
    Pods = {p1, p2}
    RetentionPolicy = TRUE
    RetrySteps = 1
    MaxTime = 1
    MaxForeign = 0
    MaxFailovers = 1
    MaxCrashes = 1
SPECIFICATION Spec
INVARIANT TypeOK
PROPERTY WindowNeverRegresses
SYMMETRY PodSymmetry
