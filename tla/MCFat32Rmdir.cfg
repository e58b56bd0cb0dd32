CONSTANTS
    LastCluster = 4
    SectorsPerCluster = 2
    SlotsPerSector = 3
    ClusterBytes = 2
    FreeGuard = 2
    Names = {"a", "b"}
    VolumeLabel = "label"
    MaxFileBytes = 0
    MaxCalls = 5
    Faults = FALSE
    Payloads <- MCEmpty
SPECIFICATION Spec
PROPERTY RmdirOnlyEmpty
