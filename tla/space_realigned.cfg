SPECIFICATION Spec
CONSTANTS
    PartOffset = 4
    PartSize = 24
    DiskSize = 30
    SectorSize = 2
    MaxBlock = 8
    Cluster = 4
INVARIANT UsedStaysOut
CHECK_DEADLOCK FALSE
