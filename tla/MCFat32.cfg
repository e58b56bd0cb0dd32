CONSTANTS
    LastCluster = 5
    SectorsPerCluster = 1
    SlotsPerSector = 3
    ClusterBytes = 2
    FreeGuard = 2
    Names = {"a", "b"}
    VolumeLabel = "label"
    MaxFileBytes = 5
    MaxCalls = 4
    Faults = TRUE
    Payloads <- MCPayloads
SPECIFICATION Spec
INVARIANTS TypeOK VolumeConsistent FilesKept NothingLeaks
PROPERTY CallReturns
