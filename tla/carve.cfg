\* Carving of files with headers, gaps, failing writes and both layouts of the
\* indirect blocks, also against the ledger.
SPECIFICATION Spec
CONSTANTS
    BS = 2
    NBlocks = 4
    Ext2 = TRUE
    IndirectAfter = 1
    MayFail = TRUE
INVARIANTS BlockAvailable SkippedIsThere KeptAsListed AllExamined
PROPERTIES ImplementsLedger PassEnds
CHECK_DEADLOCK FALSE
