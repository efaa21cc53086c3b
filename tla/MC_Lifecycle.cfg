CONSTANTS
    Requests <- MCRequests
    StoreNames = {"a", "b"}
    StoreEnv <- MCStoreEnv
    MaxEdits = 1
SPECIFICATION FairSpec
INVARIANT TypeOK
INVARIANT BuiltOnce
INVARIANT SharedPaths
PROPERTY PodConverges
CHECK_DEADLOCK FALSE
