CONSTANTS
    DriveUnits = 8
    Align = 2
    MaxPartitions = 3
    MinUnits = 2
    Disks <- TestDisks
    MaxCalls = 3
SPECIFICATION Spec
INVARIANTS TypeOK MountedInWindow FilesInside RetryCompletes PreviousRestored
PROPERTIES TableStaysSound StaysMountable
CHECK_DEADLOCK FALSE
