\* Two fragmented files in every order, and formats that find the first wrong
\* block at once, late or not at all; stops and a full destination.
SPECIFICATION Spec
CONSTANTS
    BS = 2
    NBlocks = 6
    Arrangements <- MCArrangements
    Formats <- MCFormats
    Skips = 3
    Tries <- MCTries
    PadBlocks = 3
    PadBlind = 2
    Window = 3
    MaxFrag = 2
    MayStop = TRUE
    MayFail = TRUE
INVARIANTS BytesAccounted KeptWhole KeptTakesOwn FragmentsFound
PROPERTIES BruteEnds
