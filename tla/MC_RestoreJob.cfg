CONSTANTS
    Clusters <- MCClusters
    Stores = {"a", "b"}
    Servers = {"c", "origin", "dr"}
    Used <- MCUsed
    Files = {"f1", "f2"}
    MaxBackups = 2
SPECIFICATION FairSpec
INVARIANT TypeOK
INVARIANT RestoreComplete
INVARIANT RecoversOneDatabase
PROPERTY UsedDestinationBlocksRestore
PROPERTY ImplementsRecovery
PROPERTY RestoreSucceeds
CHECK_DEADLOCK FALSE
