\* Used ranges taken out of the search space of one partition, and alignment.
SPECIFICATION Spec
CONSTANTS
    PartOffset = 4
    PartSize = 24
    DiskSize = 30
    SectorSize = 2
    MaxBlock = 8
    Cluster = 4
INVARIANTS
    ExactlyUnused
    OneGrid
PROPERTIES
    AlignmentKeepsBlocks
CHECK_DEADLOCK FALSE
