\* One scan from the window: are all its files on the results page?
SPECIFICATION AppSpec
CONSTANTS
    NoScan = NoScan
    Scan = {s1}
    MaxStops = 0
    MaxReports = 1
    AllowShutdown = FALSE
    AllowImaging = FALSE
    ScanOptions <- CarveOnly
INVARIANTS ResultsComplete
\* The worker waits for commands when its bounded clients have sent them all.
CHECK_DEADLOCK FALSE
