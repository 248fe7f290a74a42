\* Two scans from the window, with and without imaging, one stop.
SPECIFICATION AppSpec
CONSTANTS
    NoScan = NoScan
    Scan = {s1, s2}
    MaxStops = 1
    MaxReports = 1
    AllowShutdown = FALSE
    AllowImaging = TRUE
    ScanOptions <- CarveOnly
INVARIANTS StopInReach ResultsAreOwn
PROPERTIES StopAnswered
\* The worker waits for commands when its bounded clients have sent them all.
CHECK_DEADLOCK FALSE
