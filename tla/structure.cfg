\* The three structure passes over volumes with clashing names, cycles, chains
\* that break and clusters in use again.
SPECIFICATION Spec
CONSTANTS
    None = None
    PartOffset = 2
    PartSize = 16
    DiskSize = 18
    SectorSize = 2
    UINT64 = 4096
    MaxBlock = 8
    Cluster = 2
    Volumes <- AllVolumes
    MayStop = TRUE
    MayFail = TRUE
    NClusters = 8
    Batch = 2
    MAX_PATH_DEPTH = 3
    Candidates = 3
    Root = 1
    KNOWN_MAGICS = { "magic" }
    WindowClusters = 2
    ReadClusters = 2
    KF_FAT_MAX_DIR_DEPTH = 2
    KF_FAT_MAX_DIR_CLUSTERS = 7
    EOC = 100
INVARIANTS
    RecoveredIsOut
    RecordsTaken
    NoGarbage
    NothingOverwritten
    TreeRestored
    SweepKeepsPlace
    TreeRecovered
PROPERTIES
    PassEnds
    ImplementsSpace
