\* Two scans over FAT and NTFS with the structure pass and brute force, with and without imaging, two stops, no shutdown.
SPECIFICATION Spec
CONSTANTS
    NoScan = NoScan
    Scan = {s1, s2}
    MaxStops = 2
    MaxReports = 1
    AllowShutdown = FALSE
    AllowImaging = TRUE
    ScanOptions <- Structured
INVARIANTS TypeOK CallbackBoxLive NoBoxLost OneScanThread NothingAfterEnd StopIsOwn
\* The worker waits for commands when its bounded clients have sent them all.
CHECK_DEADLOCK FALSE
